------------------------------ MODULE JobClaim ------------------------------
(***************************************************************************)
(* How miners race for a job: launch configs, the one-shot claim, the      *)
(* instance it creates, its verification, and everything that may take the *)
(* assignment away again.                                                  *)
(*                                                                         *)
(* Rows of three tables are state (jobs, launch_configs, instances); a     *)
(* launch config owns at most one instance (instances.config_id is         *)
(* unique), so an instance is named by its config.  Each HTTP handler runs *)
(* in one READ COMMITTED transaction: what it writes is visible at its     *)
(* commit, and a row it has written stays locked until then.  Handlers     *)
(* that await something slow between reading and committing are split      *)
(* there.  A rollback and a crash of the API process are the same step.    *)
(***************************************************************************)
EXTENDS Naturals, Sequences, FiniteSets

CONSTANTS Miners,      \* hotkeys
          Jobs,        \* job ids that may be created
          Configs,     \* launch config ids (uuid4) that may be drawn
          Requests,    \* concurrent POST /launch_config/{config_id} requests
          RaceLimit,   \* miners allowed to race for one job, 15 in the code
          NoMiner, NoConfig, NoJob   \* SQL NULL

ASSUME RaceLimitAssumption == RaceLimit \in Nat \ {0}
ASSUME FiniteAssumption == IsFiniteSet(Configs)
ASSUME NullAssumption == /\ NoMiner \notin Miners
                         /\ NoConfig \notin Configs
                         /\ NoJob \notin Jobs

VARIABLES job,      \* jobs table
          config,   \* launch_configs table, and a GET that has not committed
          inst,     \* instances table, by config
          claim,    \* POST requests in progress
          put       \* PUT (verification) in progress, by config

vars == <<job, config, inst, claim, put>>

InstanceRecord == [row : BOOLEAN, verified : BOOLEAN, active : BOOLEAN]
ClaimPc == {"idle", "read", "checking", "locked", "failing", "stamping"}
ConfigRow == {"unused", "requested", "row", "deleted"}

JobRecord == [row : {"unused", "row", "deleted"}, finished : BOOLEAN, started : BOOLEAN,
              miner : Miners \cup {NoMiner}, inst : Configs \cup {NoConfig},
              history : Seq(Miners)]
ConfigRecord == [row : ConfigRow, miner : Miners \cup {NoMiner}, job : Jobs \cup {NoJob},
                 retrieved : BOOLEAN, verified : BOOLEAN, failed : BOOLEAN, token : BOOLEAN]

TypeOK == /\ job \in [Jobs -> JobRecord]
          /\ config \in [Configs -> ConfigRecord]
          /\ inst \in [Configs -> InstanceRecord]
          /\ claim \in [Requests -> [pc : ClaimPc, config : Configs \cup {NoConfig}]]
          /\ put \in [Configs -> [running : BOOLEAN, live : BOOLEAN, job : Jobs \cup {NoJob}]]

Idle == [pc |-> "idle", config |-> NoConfig]
\* put[c].live: the instance that the verification loaded still exists.
NoPut == [running |-> FALSE, live |-> FALSE, job |-> NoJob]
NoInstance == [row |-> FALSE, verified |-> FALSE, active |-> FALSE]
Unused == [row |-> "unused", miner |-> NoMiner, job |-> NoJob,
           retrieved |-> FALSE, verified |-> FALSE, failed |-> FALSE, token |-> FALSE]

Init == /\ job = [j \in Jobs |-> [row |-> "unused", finished |-> FALSE, started |-> FALSE,
                                  miner |-> NoMiner, inst |-> NoConfig, history |-> <<>>]]
        /\ config = [c \in Configs |-> Unused]
        /\ inst = [c \in Configs |-> NoInstance]
        /\ claim = [r \in Requests |-> Idle]
        /\ put = [c \in Configs |-> NoPut]

-----------------------------------------------------------------------------
(* Row locks and the trigger. *)

\* A claim has flushed its UPDATE of the config row (retrieved_at) and not committed.
HoldsConfig(r, c) == claim[r].config = c /\ claim[r].pc \in {"checking", "locked"}
ConfigLocked(c) == \E r \in Requests : HoldsConfig(r, c)

\* The claim's transaction has written the job row: it won the UPDATE ... WHERE
\* miner_hotkey IS NULL, or its config had already failed, so that flushing
\* retrieved_at fired the trigger.
HoldsJob(r, j) == /\ claim[r].config # NoConfig /\ j # NoJob
                  /\ config[claim[r].config].job = j
                  /\ \/ claim[r].pc = "locked"
                     \/ claim[r].pc = "checking" /\ config[claim[r].config].failed
JobLocked(j) == \E r \in Requests : HoldsJob(r, j)

\* The update that fn_reset_job_assignment makes to the job of a failed config.
ResetAssignment(j) ==
    [i \in Jobs |-> IF i = j THEN [job[i] EXCEPT !.miner = NoMiner, !.inst = NoConfig] ELSE job[i]]

\* Mutant: no ON DELETE action.
DetachNothing(jobs, c) == jobs

\* Deleting an instance row: jobs.instance_id is ON DELETE SET NULL.
DetachInstance(jobs, c) ==
    [i \in Jobs |-> IF jobs[i].inst = c THEN [jobs[i] EXCEPT !.inst = NoConfig] ELSE jobs[i]]

Attached(c) == {j \in Jobs : job[j].inst = c}

\* The deletion writes the job it detaches, and waits for that row.
RemoveInstance(c) ==
    /\ \A j \in Attached(c) : ~JobLocked(j)
    /\ inst' = [inst EXCEPT ![c] = NoInstance]
    /\ put' = [put EXCEPT ![c].live = FALSE]

\* Mutant: a failure that fires no trigger.
FailOnly(c, retrieved) ==
    /\ config' = [config EXCEPT ![c].failed = TRUE, ![c].retrieved = retrieved]
    /\ UNCHANGED job

\* failed_at and verification_error are set and committed; the trigger resets
\* the config's job, whoever it is assigned to.
FailConfig(c, retrieved) ==
    /\ config' = [config EXCEPT ![c].failed = TRUE, ![c].retrieved = retrieved]
    /\ job' = ResetAssignment(config[c].job)

-----------------------------------------------------------------------------
(* The user and the miners' first call. *)

\* POST /jobs/{chute_id}/{method}.
CreateJob(j) ==
    /\ job[j].row = "unused"
    /\ job' = [job EXCEPT ![j].row = "row"]
    /\ UNCHANGED <<config, inst, claim, put>>

\* GET /launch_config: the job is read and its history checked ...
RequestConfig(c, m, j) ==
    /\ config[c].row = "unused"
    /\ job[j].row = "row"
    /\ Len(job[j].history) < RaceLimit
    /\ \A i \in 1..Len(job[j].history) : job[j].history[i] # m
    /\ config' = [config EXCEPT ![c].row = "requested", ![c].miner = m, ![c].job = j]
    /\ UNCHANGED <<job, inst, claim, put>>

\* Mutant: the attempt is recorded without its miner.
RecordNobody(history, m) == Append(history, NoMiner)

\* Mutant: the attempt is checked and not recorded.
ForgetAttempt(history, m) == history

RecordAttempt(history, m) == Append(history, m)

\* ... and the miner is appended to whatever the history is by then, with the
\* config row, in one commit.
IssueConfig(c) ==
    LET j == config[c].job IN
    /\ config[c].row = "requested"
    /\ job[j].row = "row"
    /\ ~JobLocked(j)
    /\ config' = [config EXCEPT ![c].row = "row"]
    /\ job' = [job EXCEPT ![j].history = RecordAttempt(@, config[c].miner)]
    /\ UNCHANGED <<inst, claim, put>>

\* The job went away before the insert: foreign key violation, 409.
IssueRefused(c) ==
    /\ config[c].row = "requested"
    /\ job[config[c].job].row = "deleted"
    /\ config' = [config EXCEPT ![c] = Unused]
    /\ UNCHANGED <<job, inst, claim, put>>

-----------------------------------------------------------------------------
(* POST /launch_config/{config_id}: the claim. *)

\* load_launch_config_from_jwt: the config is read, not yet retrieved.
ClaimRead(r, c) ==
    /\ claim[r].pc = "idle"
    /\ config[c].row = "row"
    /\ ~config[c].retrieved
    /\ claim' = [claim EXCEPT ![r] = [pc |-> "read", config |-> c]]
    /\ UNCHANGED <<job, config, inst, put>>

\* retrieved_at is flushed, which waits for the row; on a config that already
\* failed the trigger writes the job in the same transaction.
ClaimAcquire(r) ==
    LET c == claim[r].config IN
    /\ claim[r].pc = "read"
    /\ config[c].row = "row"
    /\ ~ConfigLocked(c)
    /\ config[c].failed /\ config[c].job \in Jobs => ~JobLocked(config[c].job)
    /\ claim' = [claim EXCEPT ![r].pc = "checking"]
    /\ UNCHANGED <<job, config, inst, put>>

\* The envdump, command, kubernetes or filesystem check fails.
ClaimEnvFail(r) ==
    LET c == claim[r].config IN
    /\ claim[r].pc = "checking"
    /\ config[c].failed \/ ~JobLocked(config[c].job)
    /\ FailConfig(c, TRUE)
    /\ claim' = [claim EXCEPT ![r] = Idle]
    /\ UNCHANGED <<inst, put>>

\* Mutant: the UPDATE has no condition.
ClaimableByAnyone(j) == TRUE

\* UPDATE jobs ... WHERE job_id = j AND miner_hotkey IS NULL matches the row.
Claimable(j) == job[j].miner = NoMiner

\* The conditional UPDATE matched no row: somebody has the job.
ClaimJobTaken(r) ==
    LET c == claim[r].config IN
    /\ claim[r].pc = "checking"
    /\ config[c].job \in Jobs
    /\ ~config[c].failed
    /\ ~JobLocked(config[c].job)
    /\ ~Claimable(config[c].job)
    /\ FailConfig(c, TRUE)
    /\ claim' = [claim EXCEPT ![r] = Idle]
    /\ UNCHANGED <<inst, put>>

\* The conditional UPDATE matched: the row stays locked while the nodes are
\* validated and the ciphertext is generated.
ClaimJobWon(r) ==
    LET c == claim[r].config IN
    /\ claim[r].pc = "checking"
    /\ config[c].job \in Jobs =>
         config[c].failed \/ (~JobLocked(config[c].job) /\ Claimable(config[c].job))
    /\ claim' = [claim EXCEPT ![r].pc = "locked"]
    /\ UNCHANGED <<job, config, inst, put>>

\* _validate_nodes raises: the transaction is rolled back, its locks are gone ...
ClaimNodesBad(r) ==
    /\ claim[r].pc = "locked"
    /\ claim' = [claim EXCEPT ![r].pc = "failing"]
    /\ UNCHANGED <<job, config, inst, put>>

\* ... and another session records the failure; retrieved_at was rolled back too.
ClaimNodesRecord(r) ==
    LET c == claim[r].config IN
    /\ claim[r].pc = "failing"
    /\ IF config[c].row # "row"
       THEN UNCHANGED <<job, config>>
       ELSE /\ ~ConfigLocked(c) /\ ~JobLocked(config[c].job)
            /\ FailConfig(c, config[c].retrieved)
    /\ claim' = [claim EXCEPT ![r] = Idle]
    /\ UNCHANGED <<inst, put>>

\* The instance, the job's assignment, retrieved_at and the seed commit together;
\* instances.config_id is unique.  Writing the seed of a failed config fires the
\* trigger after the assignment.
ClaimCommit(r) ==
    LET c == claim[r].config
        j == config[c].job IN
    /\ claim[r].pc = "locked"
    /\ ~inst[c].row
    /\ inst' = [inst EXCEPT ![c].row = TRUE]
    /\ config' = [config EXCEPT ![c].retrieved = TRUE]
    /\ job' = IF j \notin Jobs THEN job
              ELSE IF config[c].failed THEN ResetAssignment(j)
              ELSE [job EXCEPT ![j].miner = config[c].miner, ![j].inst = c]
    /\ claim' = [claim EXCEPT ![r].pc = "stamping"]
    /\ UNCHANGED put

\* retrieved_at is written again in a fresh transaction.
ClaimStamp(r) ==
    LET c == claim[r].config IN
    /\ claim[r].pc = "stamping"
    /\ ~ConfigLocked(c)
    /\ IF config[c].row = "row" /\ config[c].failed
       THEN ~JobLocked(config[c].job) /\ job' = ResetAssignment(config[c].job)
       ELSE UNCHANGED job
    /\ claim' = [claim EXCEPT ![r] = Idle]
    /\ UNCHANGED <<config, inst, put>>

\* Any HTTPException that rolls back (bad ports, egress IP, unknown config),
\* a unique-constraint error, or the death of the process.
ClaimAbort(r) ==
    /\ claim[r].pc # "idle"
    /\ claim' = [claim EXCEPT ![r] = Idle]
    /\ UNCHANGED <<job, config, inst, put>>

-----------------------------------------------------------------------------
(* PUT /launch_config/{config_id}: verification, and activation. *)

VerifyStart(c) ==
    /\ ~put[c].running
    /\ config[c].row = "row" /\ config[c].retrieved
    /\ ~config[c].verified /\ ~config[c].failed
    /\ inst[c].row
    /\ \E j \in Jobs \cup {NoJob} :
         /\ IF Attached(c) = {} THEN j = NoJob ELSE j \in Attached(c)
         /\ put' = [put EXCEPT ![c] = [running |-> TRUE, live |-> TRUE, job |-> j]]
    /\ UNCHANGED <<job, config, inst, claim>>

\* The instance row has disappeared.
VerifyGone(c) ==
    /\ ~put[c].running
    /\ config[c].row = "row" /\ config[c].retrieved
    /\ ~config[c].verified /\ ~config[c].failed
    /\ ~inst[c].row
    /\ ~ConfigLocked(c) /\ ~JobLocked(config[c].job)
    /\ FailConfig(c, TRUE)
    /\ UNCHANGED <<inst, claim, put>>

\* Too slow, wrong secret, wrong proof or wrong filesystem hash: the instance
\* that was loaded is deleted, if it is still there.
VerifyFail(c) ==
    /\ put[c].running
    /\ config[c].row = "row"
    /\ ~ConfigLocked(c) /\ ~JobLocked(config[c].job)
    /\ put[c].live => \A j \in Attached(c) : ~JobLocked(j)
    /\ config' = [config EXCEPT ![c].failed = TRUE]
    /\ IF put[c].live
       THEN /\ inst' = [inst EXCEPT ![c] = NoInstance]
            /\ job' = DetachInstance(ResetAssignment(config[c].job), c)
       ELSE /\ job' = ResetAssignment(config[c].job)
            /\ UNCHANGED inst
    /\ put' = [put EXCEPT ![c] = NoPut]
    /\ UNCHANGED claim

\* Mutant: a finished job is not started.
StartUnfinished(jobs, j) == [jobs EXCEPT ![j].started = @ \/ ~jobs[j].finished]

StartJob(jobs, j) == [jobs EXCEPT ![j].started = TRUE]

\* verified_at, started_at and instances.verified commit together.  The job is
\* the one read at the start; its started_at is written whatever happened since.
VerifyOk(c) ==
    LET j == put[c].job
        reset == IF config[c].failed THEN ResetAssignment(config[c].job) ELSE job IN
    /\ put[c].running
    /\ config[c].row = "row"
    /\ ~ConfigLocked(c)
    /\ config[c].failed => ~JobLocked(config[c].job)
    /\ j \in Jobs => job[j].row = "row" /\ ~JobLocked(j)
    /\ config' = [config EXCEPT ![c].verified = TRUE, ![c].token = (j \in Jobs)]
    /\ job' = IF j \in Jobs THEN StartJob(reset, j) ELSE reset
    /\ inst' = [inst EXCEPT ![c].verified = @ \/ put[c].live]
    /\ put' = [put EXCEPT ![c] = NoPut]
    /\ UNCHANGED claim

\* A closed port (the handler raises before it commits), a stale row, a crash.
VerifyAbort(c) ==
    /\ put[c].running
    /\ put' = [put EXCEPT ![c] = NoPut]
    /\ UNCHANGED <<job, config, inst, claim>>

\* GET /launch_config/{config_id}/activate.
Activate(c) ==
    /\ config[c].row = "row"
    /\ config[c].verified
    /\ inst[c].row
    /\ inst' = [inst EXCEPT ![c].active = TRUE]
    /\ UNCHANGED <<job, config, claim, put>>

-----------------------------------------------------------------------------
(* Everything that deletes an instance or a job. *)

\* Mutant: only what was never verified is overdue.
OverdueUnverified(c) == ~inst[c].verified

\* instance_cleanup's query, once enough time has passed (an hour, or half an
\* hour from verification to activation).
Overdue(c) == \/ ~inst[c].verified
              \/ /\ inst[c].verified /\ ~inst[c].active
                 /\ config[c].row = "row" /\ config[c].verified

\* watchtower.purge, from the autoscaler's cleanup of instances that were not
\* verified or not activated in time.  The row is deleted first, so that the
\* search for the job of the instance finds nothing.
Cleanup(c) ==
    /\ inst[c].row
    /\ Overdue(c)
    /\ RemoveInstance(c)
    /\ job' = DetachInstance(job, c)
    /\ UNCHANGED <<config, claim>>

\* watchtower.purge of a live instance, from the probes; invoke's deletions, the
\* stale and zero-balance shutdowns of an instance have the same effect here.
Purge(c) ==
    /\ inst[c].row /\ inst[c].active
    /\ RemoveInstance(c)
    /\ job' = DetachInstance(job, c)
    /\ UNCHANGED <<config, claim>>

\* DELETE /instances/{chute_id}/{instance_id} by its miner: the job it is
\* attached to ends with it.
DeleteInstance(c) ==
    /\ inst[c].row
    /\ RemoveInstance(c)
    /\ job' = DetachInstance([j \in Jobs |-> [job[j] EXCEPT !.finished = @ \/ job[j].inst = c]], c)
    /\ UNCHANGED <<config, claim>>

\* The job's end: PUT /jobs/{job_id} with a job token, or the zero-balance
\* termination.  The job's instance, whichever it is now, is deleted.
FinishJob(j) ==
    /\ job[j].row = "row" /\ ~job[j].finished /\ ~JobLocked(j)
    /\ inst' = [c \in Configs |-> IF c = job[j].inst THEN NoInstance ELSE inst[c]]
    /\ put' = [c \in Configs |-> [put[c] EXCEPT !.live = @ /\ c # job[j].inst]]
    /\ job' = [job EXCEPT ![j].finished = TRUE, ![j].inst = NoConfig]
    /\ UNCHANGED <<config, claim>>

CompleteJob(j) ==
    /\ \E c \in Configs : config[c].token /\ config[c].job = j
    /\ FinishJob(j)

TerminateJob(j) == FinishJob(j)

\* DELETE /miner/jobs/{job_id}: the miner gives the job back.
ReleaseJob(m, j) ==
    /\ job[j].row = "row" /\ job[j].miner = m /\ ~job[j].finished /\ ~JobLocked(j)
    /\ job' = ResetAssignment(j)
    /\ UNCHANGED <<config, inst, claim, put>>

OwnConfigs(j) == {c \in Configs : config[c].row = "row" /\ config[c].job = j}

\* DELETE /jobs/{job_id}: the ORM clears job_id of the one config it loads, the
\* foreign key cascades to the others, and their instances lose config_id.
DeleteJob(j) ==
    /\ job[j].row = "row" /\ ~JobLocked(j)
    /\ \A c \in OwnConfigs(j) : ~ConfigLocked(c)
    /\ \E kept \in OwnConfigs(j) \cup {NoConfig} :
         /\ kept = NoConfig => OwnConfigs(j) = {}
         /\ config' = [c \in Configs |->
              IF c \notin OwnConfigs(j) THEN config[c]
              ELSE [config[c] EXCEPT !.job = NoJob, !.row = IF c = kept THEN "row" ELSE "deleted"]]
    /\ job' = [job EXCEPT ![j] = [@ EXCEPT !.row = "deleted", !.miner = NoMiner,
                                           !.inst = NoConfig, !.history = <<>>]]
    /\ UNCHANGED <<inst, claim, put>>

-----------------------------------------------------------------------------
ClaimStep(r) == \/ ClaimAcquire(r) \/ ClaimEnvFail(r) \/ ClaimJobTaken(r) \/ ClaimJobWon(r)
                \/ ClaimNodesBad(r) \/ ClaimNodesRecord(r) \/ ClaimCommit(r)
                \/ ClaimStamp(r) \/ ClaimAbort(r)

VerifyStep(c) == VerifyFail(c) \/ VerifyOk(c) \/ VerifyAbort(c)

Next == \/ \E j \in Jobs : \/ CreateJob(j) \/ CompleteJob(j) \/ TerminateJob(j) \/ DeleteJob(j)
                           \/ \E m \in Miners : ReleaseJob(m, j)
        \/ \E c \in Configs, m \in Miners, j \in Jobs : RequestConfig(c, m, j)
        \/ \E c \in Configs : \/ IssueConfig(c) \/ IssueRefused(c)
                              \/ VerifyStart(c) \/ VerifyGone(c) \/ VerifyStep(c)
                              \/ Activate(c) \/ Cleanup(c) \/ Purge(c) \/ DeleteInstance(c)
        \/ \E r \in Requests : \/ ClaimStep(r)
                               \/ \E c \in Configs : ClaimRead(r, c)

Spec == Init /\ [][Next]_vars

\* The autoscaler runs instance_cleanup in every cycle, and requests end: the
\* server answers or the connection dies.  Cleanup may have to queue for a row
\* lock again and again, hence strong fairness: Postgres queues waiters.
Fairness == /\ \A c \in Configs : SF_vars(Cleanup(c))
            /\ \A c \in Configs : WF_vars(VerifyStep(c))
            /\ \A r \in Requests : WF_vars(ClaimStep(r))

FairSpec == Spec /\ Fairness
-----------------------------------------------------------------------------
\* What the row of a job says about its assignment is one consistent claim: the
\* instance exists, was created from a config of this job that has not failed,
\* and belongs to the miner the job is assigned to.  claim_launch_config writes
\* the miner and the instance in two statements; the trigger, the foreign key
\* and the four endings of an instance each clear part of it.
AssignmentCoherent ==
    \A j \in Jobs : job[j].inst # NoConfig =>
        LET c == job[j].inst IN
        /\ inst[c].row
        /\ config[c].row = "row" /\ config[c].job = j
        /\ config[c].retrieved /\ ~config[c].failed
        /\ job[j].row = "row" /\ job[j].miner = config[c].miner

\* A verified instance that is still its job's instance has started the job:
\* verify_launch_config_instance decides that from the job it loaded before its
\* long checks, and writes instances.verified and jobs.started_at at the end.
VerifiedMeansStarted ==
    \A j \in Jobs : job[j].inst # NoConfig /\ inst[job[j].inst].verified => job[j].started

\* miner_history counts exactly the configs issued for the job, and names their
\* miners: get_launch_config appends and inserts in one transaction, so that a
\* refused or crashed call uses up none of the fifteen places.
HistoryCountsConfigs ==
    \A j \in Jobs :
        LET issued == {c \in Configs : config[c].row = "row" /\ config[c].job = j} IN
        /\ Len(job[j].history) = Cardinality(issued)
        /\ \A c \in issued : \E i \in 1..Len(job[j].history) : job[j].history[i] = config[c].miner

\* An assigned job is never handed straight to another miner or another
\* instance: the conditional UPDATE of claim_launch_config takes only a job
\* that somebody or something has put back first.
NoDirectTakeover ==
    [][\A j \in Jobs :
         /\ job[j].miner # NoMiner => job'[j].miner \in {job[j].miner, NoMiner}
         /\ job[j].inst # NoConfig => job'[j].inst \in {job[j].inst, NoConfig}]_vars

\* The assignment of a job as the rows of jobs and launch_configs show it.
Phase(j) == IF job[j].row = "unused" THEN "none"
            ELSE IF job[j].row = "deleted" THEN "gone"
            ELSE IF job[j].miner = NoMiner THEN "offered"
            ELSE IF job[j].inst = NoConfig THEN "left" ELSE "held"
Ticket(c) == IF config[c].row = "row" THEN config[c].job ELSE NoJob
Spent == {c \in Configs : \/ config[c].failed \/ config[c].row = "deleted"
                          \/ config[c].row = "row" /\ config[c].job = NoJob}

Slots == INSTANCE Assignment WITH
    phase <- [j \in Jobs |-> Phase(j)],
    holder <- [j \in Jobs |-> job[j].inst],
    over <- {j \in Jobs : job[j].finished},
    ticket <- [c \in Configs |-> Ticket(c)],
    spent <- Spent

\* Whatever claim_launch_config, the verification, the four endings of an
\* instance, the trigger and the foreign keys do to the rows in how many
\* transactions, each commit is one step of the assignment of one job: an
\* unspent config takes the job it was issued for, which nobody has; a failure
\* spends the config and puts its job on offer; a deleted job takes its configs
\* along; and a job that was left is not on offer until it is put back.
AssignedInTurn == Slots!Spec

\* Every instance is activated or removed in the end, whatever its miner does:
\* instance_cleanup sees to those that are not.  Only an instance that lost its
\* launch config with a deleted job may stay.
EveryInstanceSettles ==
    \A c \in Configs :
        inst[c].row ~> ~inst[c].row \/ inst[c].active \/ config[c].row = "deleted"

\* The claim of a job ends only with its own instance, with the failure of its
\* own config, or when its miner gives the job back: another miner's lost race
\* must not undo it.
WinnerKeepsJob ==
    [][\A j \in Jobs :
         job[j].inst # NoConfig /\ job'[j].inst = NoConfig /\ job'[j].row = "row" =>
            \/ ~inst'[job[j].inst].row
            \/ config'[job[j].inst].failed
            \/ ReleaseJob(job[j].miner, j)]_vars
=============================================================================
