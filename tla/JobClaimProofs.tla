--------------------------- MODULE JobClaimProofs ---------------------------
(***************************************************************************)
(* Proofs about JobClaim: types, and the coherence of a job's assignment   *)
(* under every interleaving of claims, verifications, deletions, failures  *)
(* and the trigger.                                                        *)
(***************************************************************************)
EXTENDS JobClaim, FiniteSetTheorems, SequenceTheorems, TLAPS

(***************************************************************************)
(* Lemmas: the helpers return well-typed tables.                           *)
(***************************************************************************)
JobTable == [Jobs -> JobRecord]
ConfigTable == [Configs -> ConfigRecord]
InstanceTable == [Configs -> InstanceRecord]

LEMMA ResetFrees ==
    ASSUME job \in JobTable, NEW k, NEW i \in Jobs, i = k
    PROVE  ResetAssignment(k)[i].inst = NoConfig
  <1>1. job[i] \in JobRecord
    BY DEF JobTable
  <1>2. ResetAssignment(k)[i] = [job[i] EXCEPT !.miner = NoMiner, !.inst = NoConfig]
    BY DEF ResetAssignment
  <1>3. QED
    BY <1>1, <1>2 DEF JobRecord

LEMMA ResetType ==
    ASSUME job \in JobTable, NEW j PROVE ResetAssignment(j) \in JobTable
  BY DEF JobTable, JobRecord, ResetAssignment

LEMMA DetachType ==
    ASSUME NEW jobs \in JobTable, NEW c PROVE DetachInstance(jobs, c) \in JobTable
  BY DEF JobTable, JobRecord, DetachInstance

LEMMA FailType ==
    ASSUME TypeOK, NEW c \in Configs, NEW b \in BOOLEAN, FailConfig(c, b)
    PROVE  job' \in JobTable /\ config' \in ConfigTable
  <1>1. job \in JobTable /\ config \in ConfigTable
    BY DEF TypeOK, JobTable, ConfigTable
  <1>2. job' \in JobTable
    BY <1>1, ResetType DEF FailConfig
  <1>3. config' = [config EXCEPT ![c].failed = TRUE, ![c].retrieved = b]
    BY DEF FailConfig
  <1>4. config' \in ConfigTable
    BY <1>1, <1>3 DEF ConfigTable, ConfigRecord
  <1>5. QED
    BY <1>2, <1>4

LEMMA RemoveType ==
    ASSUME TypeOK, NEW c \in Configs, RemoveInstance(c)
    PROVE  /\ inst' \in InstanceTable
           /\ put' \in [Configs -> [running : BOOLEAN, live : BOOLEAN, job : Jobs \cup {NoJob}]]
  BY DEF RemoveInstance, TypeOK, InstanceTable, InstanceRecord, NoInstance

LEMMA ClaimType ==
    ASSUME TypeOK, NEW r \in Requests, ClaimStep(r)
    PROVE  claim' \in [Requests -> [pc : ClaimPc, config : Configs \cup {NoConfig}]]
  <1> USE DEF TypeOK, ClaimPc
  <1>1. CASE ClaimAcquire(r) \/ ClaimJobWon(r) \/ ClaimNodesBad(r) \/ ClaimCommit(r)
    BY <1>1 DEF ClaimAcquire, ClaimJobWon, ClaimNodesBad, ClaimCommit
  <1>2. CASE claim' = [claim EXCEPT ![r] = Idle]
    BY <1>2 DEF Idle
  <1>3. QED
    BY <1>1, <1>2 DEF ClaimStep, ClaimEnvFail, ClaimJobTaken, ClaimNodesRecord, ClaimStamp, ClaimAbort

(***************************************************************************)
(* The part of the inductive invariant that typing needs.                  *)
(***************************************************************************)

\* A request that is not idle works on a config.
Busy == \A r \in Requests : claim[r].pc # "idle" => claim[r].config \in Configs

\* A config that was drawn names its miner, and its job until it is stored.
Drawn == \A c \in Configs : /\ config[c].row # "unused" => config[c].miner \in Miners
                            /\ config[c].row = "requested" => config[c].job \in Jobs

LEMMA BusyStep == ASSUME TypeOK, Busy, [Next]_vars PROVE Busy'
  <1>1. ASSUME NEW r \in Requests, ClaimStep(r) PROVE Busy'
    <2>1. claim[r].pc # "idle" /\ claim[r].config \in Configs
      BY <1>1 DEF Busy, ClaimStep, ClaimAcquire, ClaimEnvFail, ClaimJobTaken, ClaimJobWon,
                  ClaimNodesBad, ClaimNodesRecord, ClaimCommit, ClaimStamp, ClaimAbort
    <2>2. \/ claim' = [claim EXCEPT ![r] = Idle]
          \/ \E p \in ClaimPc : claim' = [claim EXCEPT ![r].pc = p]
      BY <1>1 DEF ClaimStep, ClaimAcquire, ClaimEnvFail, ClaimJobTaken, ClaimJobWon, ClaimPc,
                  ClaimNodesBad, ClaimNodesRecord, ClaimCommit, ClaimStamp, ClaimAbort
    <2>3. QED
      BY <2>1, <2>2 DEF TypeOK, Busy, Idle
  <1>2. ASSUME NEW r \in Requests, NEW c \in Configs, ClaimRead(r, c) PROVE Busy'
    BY <1>2 DEF TypeOK, Busy, ClaimRead
  <1>3. CASE UNCHANGED claim
    BY <1>3 DEF Busy
  <1>4. QED
    BY <1>1, <1>2, <1>3
       DEF Next, vars, CreateJob, RequestConfig, IssueConfig, IssueRefused,
           VerifyStart, VerifyGone, VerifyStep, VerifyFail, VerifyOk, VerifyAbort, Activate, Cleanup,
           Purge, DeleteInstance, CompleteJob, TerminateJob, FinishJob, DeleteJob, ReleaseJob

\* Claims and verifications write only the four flags of a config.
SameConfigs == \A c \in Configs : /\ config'[c].row = config[c].row
                                  /\ config'[c].miner = config[c].miner
                                  /\ config'[c].job = config[c].job

LEMMA ClaimKeepsConfigs == ASSUME TypeOK, Busy, NEW r \in Requests, ClaimStep(r) PROVE SameConfigs
  <1>0. config \in ConfigTable
    BY DEF TypeOK, ConfigTable
  <1>1. CASE UNCHANGED config
    BY <1>1 DEF SameConfigs
  <1>2. CASE \E c \in Configs, b \in BOOLEAN : FailConfig(c, b)
    BY <1>0, <1>2 DEF FailConfig, SameConfigs, ConfigTable, ConfigRecord
  <1>3. CASE ClaimCommit(r)
    BY <1>0, <1>3 DEF ClaimCommit, SameConfigs, ConfigTable, ConfigRecord
  <1>4. ASSUME ClaimNodesRecord(r), config[claim[r].config].row = "row"
        PROVE  \E c \in Configs, b \in BOOLEAN : FailConfig(c, b)
    <2>1. claim[r].config \in Configs
      BY <1>4 DEF ClaimNodesRecord, Busy
    <2>2. config[claim[r].config].retrieved \in BOOLEAN
      BY <1>0, <2>1 DEF ConfigTable, ConfigRecord
    <2>3. QED
      BY <1>4, <2>1, <2>2 DEF ClaimNodesRecord
  <1>5. QED
    BY <1>1, <1>2, <1>3, <1>4
       DEF ClaimStep, ClaimAcquire, ClaimEnvFail, ClaimJobTaken, ClaimJobWon, ClaimNodesBad,
           ClaimNodesRecord, ClaimStamp, ClaimAbort, Busy

LEMMA VerifyKeepsConfigs ==
    ASSUME TypeOK, NEW c \in Configs, VerifyStart(c) \/ VerifyGone(c) \/ VerifyStep(c)
    PROVE  SameConfigs
  <1>0. config \in ConfigTable
    BY DEF TypeOK, ConfigTable
  <1>1. CASE UNCHANGED config
    BY <1>1 DEF SameConfigs
  <1>2. CASE VerifyGone(c)
    BY <1>0, <1>2 DEF VerifyGone, FailConfig, SameConfigs, ConfigTable, ConfigRecord
  <1>3. CASE VerifyFail(c)
    BY <1>0, <1>3 DEF VerifyFail, SameConfigs, ConfigTable, ConfigRecord
  <1>4. CASE VerifyOk(c)
    BY <1>0, <1>4 DEF VerifyOk, SameConfigs, ConfigTable, ConfigRecord
  <1>5. QED
    BY <1>1, <1>2, <1>3, <1>4 DEF VerifyStep, VerifyStart, VerifyAbort

LEMMA DrawnStep == ASSUME TypeOK, Busy, Drawn, [Next]_vars PROVE Drawn'
  <1>0. config \in ConfigTable
    BY DEF TypeOK, ConfigTable
  <1>1. CASE SameConfigs
    BY <1>1 DEF SameConfigs, Drawn
  <1>2. ASSUME NEW c \in Configs, NEW m \in Miners, NEW j \in Jobs, RequestConfig(c, m, j)
        PROVE Drawn'
    BY <1>0, <1>2 DEF RequestConfig, Drawn, ConfigTable, ConfigRecord
  <1>3. ASSUME NEW c \in Configs, IssueConfig(c) \/ IssueRefused(c) PROVE Drawn'
    BY <1>0, <1>3 DEF IssueConfig, IssueRefused, Unused, Drawn, ConfigTable, ConfigRecord
  <1>4. ASSUME NEW j \in Jobs, DeleteJob(j) PROVE Drawn'
    <2>1. PICK kept : config' = [c \in Configs |->
            IF c \notin OwnConfigs(j) THEN config[c]
            ELSE [config[c] EXCEPT !.job = NoJob, !.row = IF c = kept THEN "row" ELSE "deleted"]]
      BY <1>4 DEF DeleteJob
    <2>2. QED
      BY <1>0, <2>1 DEF OwnConfigs, Drawn, ConfigTable, ConfigRecord
  <1>5. ASSUME UNCHANGED config PROVE SameConfigs
    BY <1>5 DEF SameConfigs
  <1>6. QED
    BY <1>1, <1>2, <1>3, <1>4, <1>5, ClaimKeepsConfigs, VerifyKeepsConfigs
       DEF Next, vars, CreateJob, ClaimRead, Activate, Cleanup, Purge, DeleteInstance,
           CompleteJob, TerminateJob, FinishJob, ReleaseJob

\* A claim leaves every table well typed.
LEMMA ClaimStepType == ASSUME TypeOK, Busy, NEW r \in Requests, ClaimStep(r) PROVE TypeOK'
  <1> DEFINE c == claim[r].config
  <1>1. claim' \in [Requests -> [pc : ClaimPc, config : Configs \cup {NoConfig}]]
    BY ClaimType
  <1>2. CASE ClaimAcquire(r) \/ ClaimJobWon(r) \/ ClaimNodesBad(r) \/ ClaimAbort(r)
    BY <1>1, <1>2 DEF TypeOK, ClaimAcquire, ClaimJobWon, ClaimNodesBad, ClaimAbort
  <1>3. CASE ClaimEnvFail(r) \/ ClaimJobTaken(r)
    <2>1. c \in Configs /\ FailConfig(c, TRUE) /\ UNCHANGED <<inst, put>>
      BY <1>3 DEF Busy, ClaimEnvFail, ClaimJobTaken
    <2>2. QED
      BY <1>1, <2>1, FailType DEF TypeOK, JobTable, ConfigTable
  <1>4. CASE ClaimNodesRecord(r)
    <2>1. CASE config[c].row # "row"
      BY <1>1, <1>4, <2>1 DEF ClaimNodesRecord, TypeOK
    <2>2. CASE config[c].row = "row"
      <3>1. c \in Configs /\ config[c].retrieved \in BOOLEAN
        BY <1>4 DEF Busy, ClaimNodesRecord, TypeOK, ConfigRecord
      <3>2. FailConfig(c, config[c].retrieved) /\ UNCHANGED <<inst, put>>
        BY <1>4, <2>2 DEF ClaimNodesRecord
      <3>3. QED
        BY <1>1, <3>1, <3>2, FailType DEF TypeOK, JobTable, ConfigTable
    <2>3. QED
      BY <2>1, <2>2
  <1>5. CASE ClaimCommit(r)
    <2>1. c \in Configs /\ config[c].miner \in Miners \cup {NoMiner}
      BY <1>5 DEF Busy, ClaimCommit, TypeOK, ConfigRecord
    <2>0. job \in JobTable /\ config \in ConfigTable /\ inst \in InstanceTable
      BY DEF TypeOK, JobTable, ConfigTable, InstanceTable
    <2>2. job' \in JobTable
      <3>1. ASSUME NEW j \in Jobs, NEW m \in Miners \cup {NoMiner}
            PROVE  [job EXCEPT ![j].miner = m, ![j].inst = c] \in JobTable
        BY <2>0, <2>1 DEF JobTable, JobRecord
      <3>2. QED
        BY <1>5, <2>0, <2>1, <3>1, ResetType DEF ClaimCommit
    <2>3. inst' \in InstanceTable
      BY <1>5, <2>0, <2>1 DEF ClaimCommit, InstanceTable, InstanceRecord
    <2>4. config' \in ConfigTable
      <3>1. config' = [config EXCEPT ![c].retrieved = TRUE]
        BY <1>5 DEF ClaimCommit
      <3>2. QED
        BY <2>0, <2>1, <3>1 DEF ConfigTable, ConfigRecord
    <2>5. QED
      BY <1>1, <1>5, <2>2, <2>3, <2>4 DEF ClaimCommit, TypeOK, JobTable, ConfigTable, InstanceTable
  <1>6. CASE ClaimStamp(r)
    BY <1>1, <1>6, ResetType DEF ClaimStamp, TypeOK, JobTable
  <1>7. QED
    BY <1>2, <1>3, <1>4, <1>5, <1>6 DEF ClaimStep

\* So does every other step.
LEMMA StepType == ASSUME TypeOK, Busy, Drawn, [Next]_vars PROVE TypeOK'
  <1>0. job \in JobTable /\ config \in ConfigTable /\ inst \in InstanceTable
    BY DEF TypeOK, JobTable, ConfigTable, InstanceTable
  <1> DEFINE Puts == [Configs -> [running : BOOLEAN, live : BOOLEAN, job : Jobs \cup {NoJob}]]
  <1>1. ASSUME NEW j \in Jobs, CreateJob(j) PROVE TypeOK'
    BY ZenonT(60), <1>1 DEF TypeOK, JobRecord, CreateJob
  <1>2. ASSUME NEW c \in Configs, NEW m \in Miners, NEW j \in Jobs, RequestConfig(c, m, j)
        PROVE TypeOK'
    <2>1. config' \in ConfigTable
      <3>1. config' = [config EXCEPT ![c].row = "requested", ![c].miner = m, ![c].job = j]
        BY <1>2 DEF RequestConfig
      <3>2. config[c] \in ConfigRecord
        BY <1>0 DEF ConfigTable
      <3>3. [config[c] EXCEPT !.row = "requested", !.miner = m, !.job = j] \in ConfigRecord
        BY <3>2 DEF ConfigRecord, ConfigRow
      <3>4. config' = [config EXCEPT ![c] = [config[c] EXCEPT !.row = "requested", !.miner = m, !.job = j]]
        BY <1>0, <3>1 DEF ConfigTable, ConfigRecord
      <3>5. QED
        BY <1>0, <3>3, <3>4 DEF ConfigTable
    <2>2. QED
      BY <1>2, <2>1 DEF TypeOK, ConfigTable, RequestConfig
  <1>3. ASSUME NEW c \in Configs, IssueConfig(c) PROVE TypeOK'
    <2>1. config' \in ConfigTable
      BY <1>0, <1>3 DEF ConfigTable, ConfigRecord, ConfigRow, IssueConfig
    <2>2. job' \in JobTable
      <3>1. config[c].miner \in Miners /\ config[c].job \in Jobs
        BY <1>3 DEF Drawn, IssueConfig
      <3>2. ASSUME NEW m \in Miners, NEW j \in Jobs
            PROVE  [job EXCEPT ![j].history = Append(@, m)] \in JobTable
        <4>1. job[j].history \in Seq(Miners)
          BY <1>0 DEF JobTable, JobRecord
        <4>2. Append(job[j].history, m) \in Seq(Miners)
          BY <4>1
        <4>3. QED
          BY <1>0, <4>2 DEF JobTable, JobRecord
      <3>3. QED
        BY <1>3, <3>1, <3>2 DEF IssueConfig, RecordAttempt
    <2>3. QED
      BY <1>3, <2>1, <2>2 DEF IssueConfig, TypeOK, JobTable, ConfigTable
  <1>4. ASSUME NEW c \in Configs, IssueRefused(c) PROVE TypeOK'
    BY <1>4 DEF TypeOK, ConfigRecord, ConfigRow, IssueRefused, Unused
  <1>5. ASSUME NEW r \in Requests, NEW c \in Configs, ClaimRead(r, c) PROVE TypeOK'
    BY <1>5 DEF TypeOK, ClaimPc, ClaimRead
  <1>6. ASSUME NEW c \in Configs, VerifyStart(c) PROVE TypeOK'
    <2>1. put' \in Puts
      BY <1>6 DEF TypeOK, VerifyStart
    <2>2. QED
      BY <1>6, <2>1 DEF VerifyStart, TypeOK
  <1>7. ASSUME NEW c \in Configs, VerifyGone(c) PROVE TypeOK'
    <2>1. job' \in JobTable /\ config' \in ConfigTable
      BY <1>7, FailType DEF VerifyGone
    <2>2. QED
      BY <1>7, <2>1 DEF VerifyGone, TypeOK, JobTable, ConfigTable
  <1>8. ASSUME NEW c \in Configs, VerifyFail(c) PROVE TypeOK'
    <2>1. config' \in ConfigTable
      BY <1>0, <1>8 DEF VerifyFail, ConfigTable, ConfigRecord
    <2>2. job' \in JobTable
      BY <1>0, <1>8, ResetType, DetachType DEF VerifyFail
    <2>3. inst' \in InstanceTable
      <3>1. inst' = [inst EXCEPT ![c] = NoInstance] \/ inst' = inst
        BY <1>8 DEF VerifyFail
      <3>2. QED
        <4>1. NoInstance \in InstanceRecord
          BY DEF NoInstance, InstanceRecord
        <4>2. QED
          BY <1>0, <3>1, <4>1 DEF InstanceTable
    <2>4. put' \in Puts
      BY <1>8 DEF VerifyFail, TypeOK, NoPut
    <2>5. QED
      BY <1>8, <2>1, <2>2, <2>3, <2>4 DEF VerifyFail, TypeOK, JobTable, ConfigTable, InstanceTable
  <1>9. ASSUME NEW c \in Configs, VerifyOk(c) PROVE TypeOK'
    <2>0. put[c].live \in BOOLEAN /\ put[c].job \in Jobs \cup {NoJob}
      BY DEF TypeOK
    <2>1. config' \in ConfigTable
      <3>1. config' = [config EXCEPT ![c].verified = TRUE, ![c].token = (put[c].job \in Jobs)]
        BY <1>9 DEF VerifyOk
      <3>2. ASSUME NEW b \in BOOLEAN
            PROVE  [config EXCEPT ![c].verified = TRUE, ![c].token = b] \in ConfigTable
        BY <1>0 DEF ConfigTable, ConfigRecord
      <3>3. (put[c].job \in Jobs) \in BOOLEAN
        OBVIOUS
      <3>4. QED
        BY <3>1, <3>2, <3>3, Zenon
    <2>2. job' \in JobTable
      <3>1. ASSUME NEW t \in JobTable, NEW j \in Jobs
            PROVE  [t EXCEPT ![j].started = TRUE] \in JobTable
        BY DEF JobTable, JobRecord
      <3>2. QED
        BY <1>0, <1>9, <3>1, ResetType DEF StartJob, VerifyOk
    <2>3. inst' \in InstanceTable
      <3>1. ASSUME NEW b \in BOOLEAN
            PROVE  [inst EXCEPT ![c].verified = @ \/ b] \in InstanceTable
        BY <1>0 DEF InstanceTable, InstanceRecord
      <3>2. QED
        BY <1>9, <2>0, <3>1 DEF VerifyOk
    <2>4. put' \in Puts
      BY <1>9 DEF VerifyOk, TypeOK, NoPut
    <2>5. QED
      BY <1>9, <2>1, <2>2, <2>3, <2>4 DEF VerifyOk, TypeOK, JobTable, ConfigTable, InstanceTable
  <1>10. ASSUME NEW c \in Configs, VerifyAbort(c) \/ Activate(c) PROVE TypeOK'
    <2>1. inst' \in InstanceTable
      <3>1. [inst EXCEPT ![c].active = TRUE] \in InstanceTable
        BY <1>0 DEF InstanceTable, InstanceRecord
      <3>2. QED
        BY <1>0, <1>10, <3>1 DEF VerifyAbort, Activate
    <2>2. put' \in Puts
      <3>1. put \in Puts /\ [put EXCEPT ![c] = NoPut] \in Puts
        BY DEF TypeOK, NoPut
      <3>2. QED
        BY <1>10, <3>1 DEF VerifyAbort, Activate
    <2>3. QED
      BY <1>10, <2>1, <2>2 DEF VerifyAbort, Activate, TypeOK, InstanceTable
  <1>11. ASSUME NEW c \in Configs, Cleanup(c) \/ Purge(c) \/ DeleteInstance(c) PROVE TypeOK'
    <2>1. RemoveInstance(c) /\ UNCHANGED <<config, claim>>
      BY <1>11 DEF Cleanup, Purge, DeleteInstance
    <2>2. [j \in Jobs |-> [job[j] EXCEPT !.finished = @ \/ job[j].inst = c]] \in JobTable
      BY <1>0 DEF JobTable, JobRecord
    <2>3. job' \in JobTable
      BY <1>0, <1>11, <2>2, DetachType DEF Cleanup, Purge, DeleteInstance
    <2>4. QED
      BY <2>1, <2>3, RemoveType DEF TypeOK, JobTable, InstanceTable
  <1>12. ASSUME NEW j \in Jobs, FinishJob(j) PROVE TypeOK'
    <2>1. job' \in JobTable
      BY <1>0, <1>12 DEF FinishJob, JobTable, JobRecord
    <2>2. inst' \in InstanceTable
      BY <1>0, <1>12 DEF FinishJob, InstanceTable, InstanceRecord, NoInstance
    <2>3. put' \in Puts
      BY <1>12 DEF FinishJob, TypeOK
    <2>4. QED
      BY <1>12, <2>1, <2>2, <2>3 DEF FinishJob, TypeOK, JobTable, InstanceTable
  <1>13. ASSUME NEW j \in Jobs, NEW m \in Miners, ReleaseJob(m, j) PROVE TypeOK'
    BY <1>0, <1>13, ResetType DEF ReleaseJob, TypeOK, JobTable
  <1>14. ASSUME NEW j \in Jobs, DeleteJob(j) PROVE TypeOK'
    <2>1. job' \in JobTable
      <3>1. <<>> \in Seq(Miners)
        OBVIOUS
      <3>2. job' = [job EXCEPT ![j] = [@ EXCEPT !.row = "deleted", !.miner = NoMiner,
                                                !.inst = NoConfig, !.history = <<>>]]
        BY <1>14 DEF DeleteJob
      <3>3. QED
        BY <1>0, <3>1, <3>2 DEF JobTable, JobRecord
    <2>2. config' \in ConfigTable
      <3>1. PICK kept : config' = [c \in Configs |->
              IF c \notin OwnConfigs(j) THEN config[c]
              ELSE [config[c] EXCEPT !.job = NoJob, !.row = IF c = kept THEN "row" ELSE "deleted"]]
        BY <1>14 DEF DeleteJob
      <3>2. ASSUME NEW c \in Configs, NEW to \in {"row", "deleted"}
            PROVE  [config[c] EXCEPT !.job = NoJob, !.row = to] \in ConfigRecord
        BY <1>0 DEF ConfigTable, ConfigRecord, ConfigRow
      <3>3. QED
        BY <1>0, <3>1, <3>2 DEF ConfigTable
    <2>3. QED
      BY <1>14, <2>1, <2>2 DEF DeleteJob, TypeOK, JobTable, ConfigTable
  <1>15. CASE UNCHANGED vars
    BY <1>15 DEF vars, TypeOK
  <1>16. QED
    BY <1>1, <1>2, <1>3, <1>4, <1>5, <1>6, <1>7, <1>8, <1>9, <1>10, <1>11, <1>12, <1>13, <1>14, <1>15,
       ClaimStepType DEF Next, VerifyStep, CompleteJob, TerminateJob

Typed == TypeOK /\ Busy /\ Drawn

LEMMA TypedInductive == Spec => []Typed
<1>1. Init => Typed
  BY NullAssumption
     DEF Init, Typed, TypeOK, Busy, Drawn, JobRecord, ConfigRecord, ConfigRow, InstanceRecord,
         ClaimPc, Unused, Idle, NoPut, NoInstance
<1>2. Typed /\ [Next]_vars => Typed'
  BY StepType, BusyStep, DrawnStep DEF Typed
<1>3. QED
  BY <1>1, <1>2, PTL DEF Spec

\* Every row, request and verification keeps its type.
THEOREM TypeCorrect == Spec => []TypeOK
  BY TypedInductive, PTL DEF Typed

(***************************************************************************)
(* The assignment of a job.  Keeps(j): a step either detaches the job from *)
(* its instance or leaves alone everything the assignment says about it.   *)
(* Every step but the commit of a claim does that for every job.           *)
(***************************************************************************)
Keeps(j) ==
    LET c == job[j].inst IN
    \/ job'[j].inst = NoConfig
    \/ /\ c \in Configs /\ job'[j].inst = c
       /\ job'[j].miner = job[j].miner /\ job'[j].row = job[j].row
       /\ job[j].started => job'[j].started
       /\ inst'[c].row
       /\ inst'[c].verified => inst[c].verified \/ job'[j].started
       /\ config'[c].row = config[c].row /\ config'[c].miner = config[c].miner
       /\ config'[c].job = config[c].job /\ config'[c].failed = config[c].failed
       /\ config[c].retrieved => config'[c].retrieved

\* A claim that holds its config row works on a stored row.
Held == \A r \in Requests :
    claim[r].pc \in {"checking", "locked"} => config[claim[r].config].row = "row"

\* A stored config of a job has its job (foreign key).
StoredJob == \A c \in Configs :
    config[c].row = "row" /\ config[c].job \in Jobs => job[config[c].job].row = "row"

\* What a verification loaded: while its instance lives, the job it took is
\* the only one the instance can be attached to.
PutLive == \A c \in Configs :
    /\ ~inst[c].row => ~inst[c].verified
    /\ put[c].live => /\ inst[c].row
                      /\ \A j \in Jobs : job[j].inst = c => put[c].job = j

AssignmentInv == /\ Typed /\ Held /\ StoredJob /\ PutLive
                 /\ AssignmentCoherent /\ VerifiedMeansStarted

\* The tables a step of the proof needs, without the records they hold.
LEMMA Tables == ASSUME TypeOK PROVE job \in JobTable /\ config \in ConfigTable /\ inst \in InstanceTable
  BY DEF TypeOK, JobTable, ConfigTable, InstanceTable

\* A job has one config's instance, and an instance has one job.
LEMMA OneJob ==
    ASSUME AssignmentInv, NEW i \in Jobs, NEW j \in Jobs, job[i].inst = job[j].inst, job[i].inst # NoConfig
    PROVE  i = j
  BY DEF AssignmentInv, AssignmentCoherent

\* The instance of a job exists.
LEMMA JobInstance ==
    ASSUME AssignmentInv, NEW j \in Jobs, job[j].inst # NoConfig
    PROVE  job[j].inst \in Configs /\ inst[job[j].inst].row
  <1>1. job \in JobTable
    BY Tables DEF AssignmentInv, Typed
  <1>2. QED
    BY <1>1 DEF AssignmentInv, AssignmentCoherent, JobTable, JobRecord

\* A step that touches neither the job nor its instance and its config.
LEMMA SameKeeps ==
    ASSUME AssignmentInv, NEW j \in Jobs, job'[j] = job[j],
           job[j].inst # NoConfig => /\ config'[job[j].inst] = config[job[j].inst]
                                     /\ inst'[job[j].inst] = inst[job[j].inst]
    PROVE  Keeps(j)
  BY JobInstance DEF Keeps

\* A failing config takes its own job down with it and touches no other.
LEMMA FailKeeps ==
    ASSUME AssignmentInv, NEW c \in Configs, NEW b, config[c].retrieved => b, FailConfig(c, b),
           UNCHANGED inst, NEW j \in Jobs
    PROVE  Keeps(j)
  <1>1. job \in JobTable /\ config \in ConfigTable
    BY Tables DEF AssignmentInv, Typed
  <1>2. CASE j = config[c].job \/ job[j].inst = NoConfig
    BY ZenonT(60), <1>1, <1>2 DEF FailConfig, ResetAssignment, Keeps, JobTable, JobRecord
  <1>3. CASE j # config[c].job /\ job[j].inst # NoConfig
    <2>1. job[j].inst # c /\ inst[job[j].inst].row /\ job[j].inst \in Configs
      BY <1>1, <1>3 DEF AssignmentInv, AssignmentCoherent, JobTable, JobRecord
    <2>2. job'[j] = job[j]
      BY <1>3 DEF FailConfig, ResetAssignment
    <2>3. config'[job[j].inst] = config[job[j].inst]
      BY <1>1, <2>1 DEF FailConfig, ConfigTable
    <2>4. QED
      BY <2>1, <2>2, <2>3 DEF Keeps
  <1>4. QED
    BY <1>2, <1>3

\* So does an instance that is deleted.
LEMMA RemoveKeeps ==
    ASSUME AssignmentInv, NEW c \in Configs, inst' = [inst EXCEPT ![c] = NoInstance], NEW jobs,
           \A i \in Jobs : /\ jobs[i].inst = job[i].inst \/ jobs[i].inst = NoConfig
                           /\ jobs[i].miner = job[i].miner /\ jobs[i].row = job[i].row
                           /\ job[i].started => jobs[i].started,
           job' = DetachInstance(jobs, c), UNCHANGED config, NEW j \in Jobs
    PROVE  Keeps(j)
  <1>1. job \in JobTable /\ inst \in InstanceTable /\ job' = DetachInstance(jobs, c)
    BY Tables DEF AssignmentInv, Typed
  <1>2. CASE jobs[j].inst = c
    BY <1>1, <1>2 DEF DetachInstance, Keeps
  <1>3. CASE jobs[j].inst # c
    <2>1. job'[j] = jobs[j]
      BY <1>1, <1>3 DEF DetachInstance
    <2>2. CASE jobs[j].inst = NoConfig
      BY <2>1, <2>2 DEF Keeps
    <2>3. CASE jobs[j].inst # NoConfig
      <3>1. job[j].inst = jobs[j].inst /\ job[j].inst \in Configs /\ inst[job[j].inst].row
        BY <1>1, <2>3 DEF AssignmentInv, AssignmentCoherent, JobTable, JobRecord
      <3>2. inst'[job[j].inst] = inst[job[j].inst]
        BY <1>1, <1>3, <3>1 DEF InstanceTable
      <3>3. QED
        BY <2>1, <3>1, <3>2 DEF Keeps
    <2>4. QED
      BY <2>2, <2>3
  <1>4. QED
    BY <1>2, <1>3

\* Committing a claim is the only step that attaches a job.
LEMMA ClaimKeeps ==
    ASSUME AssignmentInv, NEW r \in Requests, ClaimStep(r), ~ClaimCommit(r), NEW j \in Jobs
    PROVE  Keeps(j)
  <1> DEFINE c == claim[r].config
  <1>0. TypeOK /\ Busy /\ job \in JobTable /\ config \in ConfigTable /\ inst \in InstanceTable
    BY Tables DEF AssignmentInv, Typed
  <1>1. CASE UNCHANGED <<job, config, inst>>
    BY <1>1, SameKeeps
  <1>2. CASE ClaimEnvFail(r) \/ ClaimJobTaken(r)
    <2>1. c \in Configs /\ FailConfig(c, TRUE) /\ UNCHANGED inst
      BY <1>0, <1>2 DEF Busy, ClaimEnvFail, ClaimJobTaken
    <2>2. QED
      BY <2>1, FailKeeps
  <1>3. CASE ClaimNodesRecord(r) /\ config[c].row = "row"
    <2>1. c \in Configs /\ FailConfig(c, config[c].retrieved) /\ UNCHANGED inst
      BY <1>0, <1>3 DEF Busy, ClaimNodesRecord
    <2>2. QED
      BY <2>1, FailKeeps
  <1>4. CASE ClaimStamp(r) /\ job' # job
    <2>1. job' = ResetAssignment(config[c].job) /\ UNCHANGED <<config, inst>>
      BY <1>4 DEF ClaimStamp
    <2>2. CASE j = config[c].job
      BY <1>0, <2>1, <2>2, ResetFrees DEF Keeps
    <2>3. CASE j # config[c].job
      <3>1. job'[j] = job[j]
        BY <2>1, <2>3 DEF ResetAssignment
      <3>2. QED
        BY <2>1, <3>1, SameKeeps
    <2>4. QED
      BY <2>2, <2>3
  <1>5. QED
    BY <1>1, <1>2, <1>3, <1>4
       DEF ClaimStep, ClaimAcquire, ClaimJobWon, ClaimNodesBad, ClaimNodesRecord, ClaimStamp, ClaimAbort

LEMMA VerifyKeeps ==
    ASSUME AssignmentInv, NEW c \in Configs, VerifyStart(c) \/ VerifyGone(c) \/ VerifyStep(c),
           NEW j \in Jobs
    PROVE  Keeps(j)
  <1>0. TypeOK /\ job \in JobTable /\ config \in ConfigTable /\ inst \in InstanceTable
    BY Tables DEF AssignmentInv, Typed
  <1>1. CASE UNCHANGED <<job, config, inst>>
    BY <1>1, SameKeeps
  <1>2. CASE VerifyGone(c)
    BY <1>2, FailKeeps DEF VerifyGone
  <1>3. CASE VerifyFail(c)
    <2>1. CASE job[j].inst \in {c, NoConfig} \/ j = config[c].job
      <3>1. PICK t \in JobTable : /\ t = ResetAssignment(config[c].job)
                                  /\ job' = t \/ (put[c].live /\ job' = DetachInstance(t, c))
        BY <1>0, <1>3, ResetType DEF VerifyFail
      <3>2. job[j].inst = NoConfig \/ j = config[c].job
        BY <2>1 DEF AssignmentInv, AssignmentCoherent
      <3>3. t[j].inst = NoConfig /\ t[j] \in JobRecord
        <4>1. CASE j = config[c].job
          BY <1>0, <3>1, <4>1, ResetFrees DEF JobTable
        <4>2. CASE j # config[c].job
          <5>1. t[j] = job[j]
            BY <3>1, <4>2 DEF ResetAssignment
          <5>2. QED
            BY <1>0, <3>2, <4>2, <5>1 DEF JobTable
        <4>3. QED
          BY <4>1, <4>2
      <3>4. DetachInstance(t, c)[j].inst = NoConfig
        BY <3>3 DEF DetachInstance, JobRecord
      <3>5. job'[j].inst = NoConfig
        BY <3>1, <3>3, <3>4
      <3>6. QED
        BY <3>5 DEF Keeps
    <2>2. CASE job[j].inst \notin {c, NoConfig} /\ j # config[c].job
      <3>1. job[j].inst \in Configs /\ inst[job[j].inst].row
        BY <1>0, <2>2 DEF AssignmentInv, AssignmentCoherent, JobTable, JobRecord
      <3>2. job'[j] = job[j]
        BY <1>3, <2>2 DEF VerifyFail, DetachInstance, ResetAssignment
      <3>3. config'[job[j].inst] = config[job[j].inst]
        BY <1>0, <1>3, <2>2, <3>1 DEF VerifyFail, ConfigTable
      <3>4. inst'[job[j].inst] = inst[job[j].inst]
        BY <1>0, <1>3, <2>2, <3>1 DEF VerifyFail, InstanceTable
      <3>5. QED
        BY <3>1, <3>2, <3>3, <3>4 DEF Keeps
    <2>3. QED
      BY <2>1, <2>2
  <1>4. CASE VerifyOk(c)
    <2>1. CASE job'[j].inst = NoConfig
      BY <2>1 DEF Keeps
    <2>2. CASE job'[j].inst # NoConfig
      <3>1. /\ job'[j].inst = job[j].inst /\ job'[j].miner = job[j].miner /\ job'[j].row = job[j].row
            /\ job[j].started \/ j = put[c].job => job'[j].started
        <4>1. PICK t \in JobTable :
                /\ t = job \/ t = ResetAssignment(config[c].job)
                /\ job' = t \/ job' = [t EXCEPT ![put[c].job].started = TRUE]
                /\ put[c].job \in Jobs => job' = [t EXCEPT ![put[c].job].started = TRUE]
          BY <1>0, <1>4, ResetType DEF StartJob, VerifyOk
        <4>2. /\ t[j].inst = job'[j].inst /\ t[j].miner = job'[j].miner /\ t[j].row = job'[j].row
              /\ t[j].started \/ j = put[c].job => job'[j].started
          BY <4>1 DEF JobTable, JobRecord
        <4>3. t[j] = job[j]
          <5>1. ResetAssignment(config[c].job)[j].inst = NoConfig
                \/ ResetAssignment(config[c].job)[j] = job[j]
            BY <1>0 DEF ResetAssignment, JobTable, JobRecord
          <5>2. QED
            BY <2>2, <4>1, <4>2, <5>1
        <4>4. QED
          BY <4>2, <4>3
      <3>2. job[j].inst \in Configs /\ inst[job[j].inst].row
        BY <1>0, <2>2, <3>1 DEF AssignmentInv, AssignmentCoherent, JobTable, JobRecord
      <3>3. config' = [config EXCEPT ![c].verified = TRUE, ![c].token = (put[c].job \in Jobs)]
        BY <1>4 DEF VerifyOk
      <3>4. \A d \in Configs : /\ config'[d].row = config[d].row /\ config'[d].miner = config[d].miner
                               /\ config'[d].job = config[d].job /\ config'[d].failed = config[d].failed
                               /\ config'[d].retrieved = config[d].retrieved
        BY <1>0, <3>3 DEF ConfigTable, ConfigRecord
      <3>5. \A d \in Configs : inst'[d].row = inst[d].row
        BY <1>0, <1>4 DEF VerifyOk, InstanceTable, InstanceRecord
      <3>6. inst'[job[j].inst].verified => inst[job[j].inst].verified \/ job'[j].started
        <4>1. CASE job[j].inst = c /\ put[c].live
          BY <3>1, <4>1 DEF AssignmentInv, PutLive
        <4>2. CASE job[j].inst # c \/ ~put[c].live
          BY <1>0, <1>4, <3>2, <4>2 DEF VerifyOk, InstanceTable, InstanceRecord
        <4>3. QED
          BY <4>1, <4>2
      <3>7. QED
        BY <3>1, <3>2, <3>4, <3>5, <3>6 DEF Keeps
    <2>3. QED
      BY <2>1, <2>2
  <1>5. QED
    BY <1>1, <1>2, <1>3, <1>4 DEF VerifyStep, VerifyStart, VerifyAbort

LEMMA EndKeeps ==
    ASSUME AssignmentInv, NEW k \in Jobs, NEW j \in Jobs,
           FinishJob(k) \/ DeleteJob(k) \/ \E m \in Miners : ReleaseJob(m, k)
    PROVE  Keeps(j)
  <1>0. job \in JobTable /\ config \in ConfigTable /\ inst \in InstanceTable
    BY Tables DEF AssignmentInv, Typed
  <1>1. CASE j = k
    <2>1. job'[j].inst = NoConfig
      <3>1. CASE FinishJob(k)
        BY <1>0, <1>1, <3>1 DEF FinishJob, JobTable, JobRecord
      <3>2. CASE DeleteJob(k)
        <4>1. job' = [job EXCEPT ![k] = [@ EXCEPT !.row = "deleted", !.miner = NoMiner,
                                                  !.inst = NoConfig, !.history = <<>>]]
          BY <3>2 DEF DeleteJob
        <4>2. QED
          BY <1>0, <1>1, <4>1 DEF JobTable, JobRecord
      <3>3. CASE \E m \in Miners : ReleaseJob(m, k)
        BY <1>0, <1>1, <3>3 DEF ReleaseJob, ResetAssignment, JobTable, JobRecord
      <3>4. QED
        BY <3>1, <3>2, <3>3
    <2>2. QED
      BY <2>1 DEF Keeps
  <1>2. CASE j # k
    <2>1. job'[j] = job[j]
      BY <1>0, <1>2 DEF FinishJob, DeleteJob, ReleaseJob, ResetAssignment, JobTable
    <2>2. ASSUME job[j].inst # NoConfig
          PROVE  config'[job[j].inst] = config[job[j].inst] /\ inst'[job[j].inst] = inst[job[j].inst]
      <3>1. job[j].inst \in Configs /\ job[j].inst # job[k].inst /\ config[job[j].inst].job = j
        BY <1>2, <2>2, JobInstance, OneJob DEF AssignmentInv, AssignmentCoherent
      <3>2. job[j].inst \notin OwnConfigs(k)
        BY <1>2, <3>1 DEF OwnConfigs
      <3>3. QED
        BY <1>0, <3>1, <3>2 DEF FinishJob, DeleteJob, ReleaseJob
    <2>3. QED
      BY <2>1, <2>2, SameKeeps
  <1>3. QED
    BY <1>1, <1>2

LEMMA RemovalKeeps ==
    ASSUME AssignmentInv, NEW c \in Configs, Cleanup(c) \/ Purge(c) \/ DeleteInstance(c), NEW j \in Jobs
    PROVE  Keeps(j)
  <1>0. job \in JobTable
    BY Tables DEF AssignmentInv, Typed
  <1> DEFINE ended == [i \in Jobs |-> [job[i] EXCEPT !.finished = @ \/ job[i].inst = c]]
  <1>1. inst' = [inst EXCEPT ![c] = NoInstance] /\ UNCHANGED config
    BY DEF Cleanup, Purge, DeleteInstance, RemoveInstance
  <1>2. CASE job' = DetachInstance(job, c)
    BY <1>1, <1>2, RemoveKeeps
  <1>3. CASE job' = DetachInstance(ended, c)
    <2>1. \A i \in Jobs : /\ ended[i].inst = job[i].inst /\ ended[i].miner = job[i].miner
                          /\ ended[i].row = job[i].row /\ ended[i].started = job[i].started
      BY <1>0 DEF JobTable, JobRecord
    <2> HIDE DEF ended
    <2>2. QED
      BY <1>1, <1>3, <2>1, RemoveKeeps
  <1>4. QED
    BY <1>2, <1>3 DEF Cleanup, Purge, DeleteInstance

LEMMA IssueKeeps ==
    ASSUME AssignmentInv, NEW j \in Jobs, NEW c \in Configs,
           \/ IssueConfig(c) \/ IssueRefused(c)
           \/ \E m \in Miners, k \in Jobs : RequestConfig(c, m, k)
    PROVE  Keeps(j)
  <1>0. job \in JobTable /\ config \in ConfigTable
    BY Tables DEF AssignmentInv, Typed
  <1>1. job[j].inst # c
    <2>1. config[c].row \in {"unused", "requested"}
      BY DEF IssueConfig, IssueRefused, RequestConfig
    <2>2. QED
      BY <2>1, NullAssumption DEF AssignmentInv, AssignmentCoherent
  <1>2. CASE \/ IssueRefused(c) \/ \E m \in Miners, k \in Jobs : RequestConfig(c, m, k)
    <2>1. job'[j] = job[j] /\ UNCHANGED inst /\ \A d \in Configs \ {c} : config'[d] = config[d]
      BY <1>0, <1>2 DEF IssueRefused, RequestConfig, ConfigTable
    <2>2. QED
      BY <1>1, <2>1, JobInstance, SameKeeps
  <1>3. CASE IssueConfig(c)
    <2>1. UNCHANGED inst /\ \A d \in Configs \ {c} : config'[d] = config[d]
      BY <1>0, <1>3 DEF IssueConfig, ConfigTable
    <2>2. /\ job'[j].inst = job[j].inst /\ job'[j].miner = job[j].miner
          /\ job'[j].row = job[j].row /\ job'[j].started = job[j].started
      BY <1>0, <1>3 DEF IssueConfig, JobTable, JobRecord
    <2>3. QED
      BY <1>1, <2>1, <2>2, JobInstance DEF Keeps
  <1>4. QED
    BY <1>2, <1>3

LEMMA CreateKeeps == ASSUME AssignmentInv, NEW k \in Jobs, CreateJob(k), NEW j \in Jobs PROVE Keeps(j)
  <1>0. job \in JobTable
    BY Tables DEF AssignmentInv, Typed
  <1>1. CASE j = k
    <2>1. job'[j].inst = NoConfig
      BY <1>0, <1>1 DEF CreateJob, AssignmentInv, AssignmentCoherent, JobTable, JobRecord
    <2>2. QED
      BY <2>1 DEF Keeps
  <1>2. CASE j # k
    BY <1>0, <1>2, SameKeeps DEF CreateJob, JobTable
  <1>3. QED
    BY <1>1, <1>2

\* Activation sets a flag that the assignment does not mention.
LEMMA ActivateKeeps == ASSUME AssignmentInv, NEW c \in Configs, Activate(c), NEW j \in Jobs PROVE Keeps(j)
  <1>0. inst \in InstanceTable
    BY Tables DEF AssignmentInv, Typed
  <1>1. UNCHANGED <<job, config>> /\ inst' = [inst EXCEPT ![c].active = TRUE]
    BY DEF Activate
  <1>2. \A d \in Configs : inst'[d].row = inst[d].row /\ inst'[d].verified = inst[d].verified
    BY <1>0, <1>1 DEF InstanceTable, InstanceRecord
  <1>3. QED
    BY <1>1, <1>2, JobInstance DEF Keeps

\* Every step but the commit of a claim.
LEMMA OthersKeep ==
    ASSUME AssignmentInv, [Next]_vars, \A r \in Requests : ~ClaimCommit(r), NEW j \in Jobs
    PROVE  Keeps(j)
  <1>1. CASE UNCHANGED <<job, config, inst>>
    BY <1>1, SameKeeps
  <1>2. ASSUME NEW k \in Jobs,
               \/ CreateJob(k) \/ CompleteJob(k) \/ TerminateJob(k) \/ DeleteJob(k)
               \/ \E m \in Miners : ReleaseJob(m, k)
        PROVE  Keeps(j)
    BY <1>2, EndKeeps, CreateKeeps DEF CompleteJob, TerminateJob
  <1>3. ASSUME NEW c \in Configs,
               \/ IssueConfig(c) \/ IssueRefused(c)
               \/ \E m \in Miners, k \in Jobs : RequestConfig(c, m, k)
        PROVE  Keeps(j)
    BY <1>3, IssueKeeps
  <1>4. ASSUME NEW c \in Configs, VerifyStart(c) \/ VerifyGone(c) \/ VerifyStep(c) PROVE Keeps(j)
    BY <1>4, VerifyKeeps
  <1>5. ASSUME NEW c \in Configs, Activate(c) \/ Cleanup(c) \/ Purge(c) \/ DeleteInstance(c)
        PROVE  Keeps(j)
    BY <1>5, ActivateKeeps, RemovalKeeps
  <1>6. ASSUME NEW r \in Requests, ClaimStep(r) \/ \E c \in Configs : ClaimRead(r, c) PROVE Keeps(j)
    BY <1>1, <1>6, ClaimKeeps DEF ClaimRead
  <1>7. QED
    BY <1>1, <1>2, <1>3, <1>4, <1>5, <1>6 DEF Next, vars

\* The commit attaches its job to the instance it inserts, and nothing else.
LEMMA CommitAttaches ==
    ASSUME AssignmentInv, NEW r \in Requests, ClaimCommit(r), NEW j \in Jobs
    PROVE  LET c == claim[r].config IN
           \/ Keeps(j)
           \/ /\ job'[j].inst = c /\ job'[j].miner = config[c].miner /\ job'[j].row = "row"
              /\ inst'[c].row /\ ~inst'[c].verified
              /\ config'[c].row = "row" /\ config'[c].job = j /\ config'[c].miner = config[c].miner
              /\ config'[c].retrieved /\ ~config'[c].failed
  <1> DEFINE c == claim[r].config
  <1>0. job \in JobTable /\ config \in ConfigTable /\ inst \in InstanceTable /\ c \in Configs
    BY Tables DEF AssignmentInv, Typed, Busy, ClaimCommit
  <1>1. config[c].row = "row" /\ ~inst[c].row /\ ~inst[c].verified
    BY <1>0 DEF AssignmentInv, Held, PutLive, ClaimCommit
  <1>2. \A d \in Configs \ {c} : config'[d] = config[d] /\ inst'[d] = inst[d]
    BY <1>0 DEF ClaimCommit, ConfigTable, InstanceTable
  <1>3. job[j].inst # NoConfig => job[j].inst # c
    BY <1>1, JobInstance
  <1>4. CASE job'[j] = job[j]
    BY <1>2, <1>3, <1>4, JobInstance, SameKeeps
  <1>5. CASE job'[j].inst = NoConfig
    BY <1>5 DEF Keeps
  <1>6. CASE job'[j] # job[j] /\ job'[j].inst # NoConfig
    <2>1. j = config[c].job /\ ~config[c].failed
          /\ job' = [job EXCEPT ![j].miner = config[c].miner, ![j].inst = c]
      <3>1. \/ job' = job \/ job' = ResetAssignment(config[c].job)
            \/ /\ ~config[c].failed
               /\ job' = [job EXCEPT ![config[c].job].miner = config[c].miner, ![config[c].job].inst = c]
        BY DEF ClaimCommit
      <3>2. ResetAssignment(config[c].job)[j].inst = NoConfig
            \/ ResetAssignment(config[c].job)[j] = job[j]
        BY <1>0 DEF ResetAssignment, JobTable, JobRecord
      <3>3. QED
        BY <1>0, <1>6, <3>1, <3>2 DEF JobTable
    <2>2. job'[j].inst = c /\ job'[j].miner = config[c].miner /\ job'[j].row = "row"
      BY <1>0, <1>1, <2>1 DEF JobTable, JobRecord, AssignmentInv, StoredJob
    <2>3. inst'[c].row /\ ~inst'[c].verified
      BY <1>0, <1>1 DEF ClaimCommit, InstanceTable, InstanceRecord
    <2>4. config' = [config EXCEPT ![c].retrieved = TRUE]
      BY DEF ClaimCommit
    <2>5. /\ config'[c].row = "row" /\ config'[c].job = j /\ config'[c].miner = config[c].miner
          /\ config'[c].retrieved /\ ~config'[c].failed
      BY <1>0, <1>1, <2>1, <2>4 DEF ConfigTable, ConfigRecord
    <2>6. QED
      BY <2>2, <2>3, <2>5
  <1>7. QED
    BY <1>4, <1>5, <1>6

LEMMA CoherentStep ==
    ASSUME AssignmentInv, [Next]_vars PROVE AssignmentCoherent' /\ VerifiedMeansStarted'
  <1>1. ASSUME NEW j \in Jobs, Keeps(j), job'[j].inst # NoConfig
        PROVE  LET c == job'[j].inst IN
               /\ inst'[c].row /\ config'[c].row = "row" /\ config'[c].job = j
               /\ config'[c].retrieved /\ ~config'[c].failed
               /\ job'[j].row = "row" /\ job'[j].miner = config'[c].miner
               /\ inst'[c].verified => job'[j].started
    BY <1>1, NullAssumption DEF Keeps, AssignmentInv, AssignmentCoherent, VerifiedMeansStarted
  <1>2. CASE \A r \in Requests : ~ClaimCommit(r)
    BY <1>1, <1>2, OthersKeep DEF AssignmentCoherent, VerifiedMeansStarted
  <1>3. CASE \E r \in Requests : ClaimCommit(r)
    BY <1>1, <1>3, CommitAttaches DEF AssignmentCoherent, VerifiedMeansStarted
  <1>4. QED
    BY <1>2, <1>3

(***************************************************************************)
(* The supporting conjuncts.                                               *)
(***************************************************************************)

\* A config row, once stored, is lost only to the deletion of its job.
LEMMA RowStep ==
    ASSUME AssignmentInv, [Next]_vars, \A j \in Jobs : ~DeleteJob(j)
    PROVE  \A c \in Configs : config[c].row = "row" =>
               config'[c].row = "row" /\ config'[c].job = config[c].job
  <1>0. TypeOK /\ Busy /\ config \in ConfigTable
    BY Tables DEF AssignmentInv, Typed
  <1>1. CASE SameConfigs
    BY <1>1 DEF SameConfigs
  <1>2. ASSUME NEW c \in Configs,
               \/ IssueConfig(c) \/ IssueRefused(c)
               \/ \E m \in Miners, k \in Jobs : RequestConfig(c, m, k)
        PROVE  \A d \in Configs : config[d].row = "row" =>
                   config'[d].row = "row" /\ config'[d].job = config[d].job
    <2>1. config[c].row # "row" /\ \A d \in Configs \ {c} : config'[d] = config[d]
      BY <1>0, <1>2 DEF IssueConfig, IssueRefused, RequestConfig, ConfigTable
    <2>2. QED
      BY <2>1
  <1>3. CASE UNCHANGED config
    BY <1>3
  <1>4. QED
    BY <1>0, <1>1, <1>2, <1>3, ClaimKeepsConfigs, VerifyKeepsConfigs
       DEF Next, vars, CreateJob, ClaimRead, Activate, Cleanup, Purge, DeleteInstance,
           CompleteJob, TerminateJob, FinishJob, ReleaseJob

LEMMA ClaimUnchanged ==
    ASSUME [Next]_vars
    PROVE  UNCHANGED claim \/ \E r \in Requests : ClaimStep(r) \/ \E c \in Configs : ClaimRead(r, c)
  <1>1. ASSUME NEW j \in Jobs, CreateJob(j) \/ CompleteJob(j) \/ TerminateJob(j) \/ DeleteJob(j)
               \/ \E m \in Miners : ReleaseJob(m, j) \/ \E c \in Configs : RequestConfig(c, m, j)
        PROVE  UNCHANGED claim
    BY <1>1 DEF CreateJob, CompleteJob, TerminateJob, FinishJob, DeleteJob, ReleaseJob, RequestConfig
  <1>2. ASSUME NEW c \in Configs,
               \/ IssueConfig(c) \/ IssueRefused(c) \/ VerifyStart(c) \/ VerifyGone(c) \/ VerifyStep(c)
               \/ Activate(c) \/ Cleanup(c) \/ Purge(c) \/ DeleteInstance(c)
        PROVE  UNCHANGED claim
    BY <1>2 DEF IssueConfig, IssueRefused, VerifyStart, VerifyGone, VerifyStep, VerifyFail, VerifyOk,
                VerifyAbort, Activate, Cleanup, Purge, DeleteInstance
  <1>3. QED
    BY <1>1, <1>2 DEF Next, vars

LEMMA HeldStep == ASSUME AssignmentInv, [Next]_vars PROVE Held'
  <1>0. TypeOK /\ Busy /\ Held
    BY DEF AssignmentInv, Typed
  <1>1. CASE UNCHANGED claim /\ \A c \in Configs : config[c].row = "row" => config'[c].row = "row"
    BY <1>0, <1>1 DEF Held, Busy
  <1>2. ASSUME NEW j \in Jobs, DeleteJob(j) PROVE Held'
    <2>1. UNCHANGED claim
      BY <1>2 DEF DeleteJob
    <2>2. ASSUME NEW r \in Requests, claim[r].pc \in {"checking", "locked"}
          PROVE  config'[claim[r].config].row = "row"
      <3>1. claim[r].config \in Configs /\ config[claim[r].config].row = "row"
        BY <1>0, <2>2 DEF Held, Busy
      <3>2. ConfigLocked(claim[r].config)
        BY <2>2 DEF ConfigLocked, HoldsConfig
      <3>3. claim[r].config \notin OwnConfigs(j)
        BY <1>2, <3>2 DEF DeleteJob
      <3>4. config'[claim[r].config] = config[claim[r].config]
        BY <1>2, <3>1, <3>3 DEF DeleteJob
      <3>5. QED
        BY <3>1, <3>4
    <2>3. QED
      BY <2>1, <2>2 DEF Held
  <1>3. ASSUME NEW r \in Requests, ClaimStep(r) \/ \E c \in Configs : ClaimRead(r, c),
               \A c \in Configs : config[c].row = "row" => config'[c].row = "row"
        PROVE  Held'
    <2>1. \A q \in Requests \ {r} : claim'[q] = claim[q]
      BY <1>0, <1>3
         DEF TypeOK, ClaimStep, ClaimRead, ClaimAcquire, ClaimEnvFail, ClaimJobTaken, ClaimJobWon,
             ClaimNodesBad, ClaimNodesRecord, ClaimCommit, ClaimStamp, ClaimAbort
    <2>2. claim'[r].pc \in {"checking", "locked"} =>
              claim'[r].config \in Configs /\ config[claim'[r].config].row = "row"
      <3>1. CASE ClaimAcquire(r) \/ ClaimJobWon(r)
        <4>1. claim[r].pc \in {"read", "checking"} /\ config[claim[r].config].row = "row"
          BY <1>0, <3>1 DEF Held, ClaimAcquire, ClaimJobWon
        <4>2. claim'[r].config = claim[r].config
          BY <1>0, <3>1 DEF TypeOK, ClaimAcquire, ClaimJobWon
        <4>3. QED
          BY <1>0, <4>1, <4>2 DEF Busy
      <3>2. CASE ~(ClaimAcquire(r) \/ ClaimJobWon(r))
        <4>1. \/ claim' = [claim EXCEPT ![r] = Idle]
              \/ claim' = [claim EXCEPT ![r].pc = "failing"]
              \/ claim' = [claim EXCEPT ![r].pc = "stamping"]
              \/ \E c \in Configs : claim' = [claim EXCEPT ![r] = [pc |-> "read", config |-> c]]
          BY <1>3, <3>2
             DEF ClaimStep, ClaimRead, ClaimEnvFail, ClaimJobTaken, ClaimNodesBad,
                 ClaimNodesRecord, ClaimCommit, ClaimStamp, ClaimAbort
        <4>2. claim'[r].pc \in {"idle", "read", "failing", "stamping"}
          BY <1>0, <4>1 DEF TypeOK, Idle
        <4>3. QED
          BY <4>2
      <3>3. QED
        BY <3>1, <3>2
    <2>3. QED
      BY <1>0, <1>3, <2>1, <2>2 DEF Held, Busy
  <1>4. CASE \E j \in Jobs : DeleteJob(j)
    BY <1>2, <1>4
  <1>5. CASE \A j \in Jobs : ~DeleteJob(j)
    <2>1. \A c \in Configs : config[c].row = "row" => config'[c].row = "row"
      BY <1>5, RowStep
    <2>2. UNCHANGED claim \/ \E r \in Requests : ClaimStep(r) \/ \E c \in Configs : ClaimRead(r, c)
      BY ClaimUnchanged
    <2>3. QED
      BY <1>1, <1>3, <2>1, <2>2
  <1>6. QED
    BY <1>4, <1>5

LEMMA StoredJobStep == ASSUME AssignmentInv, [Next]_vars PROVE StoredJob'
  <1>0. TypeOK /\ Busy /\ Drawn /\ StoredJob /\ job \in JobTable /\ config \in ConfigTable
    BY Tables DEF AssignmentInv, Typed
  <1>1. ASSUME NEW j \in Jobs, DeleteJob(j) PROVE StoredJob'
    <2>1. \A i \in Jobs \ {j} : job'[i] = job[i]
      BY <1>0, <1>1 DEF DeleteJob, JobTable
    <2>2. PICK kept : config' = [c \in Configs |->
            IF c \notin OwnConfigs(j) THEN config[c]
            ELSE [config[c] EXCEPT !.job = NoJob, !.row = IF c = kept THEN "row" ELSE "deleted"]]
      BY <1>1 DEF DeleteJob
    <2>3. \A c \in Configs : \/ config'[c].job = NoJob
                             \/ c \notin OwnConfigs(j) /\ config'[c] = config[c]
      BY <1>0, <2>2 DEF ConfigTable, ConfigRecord
    <2>4. QED
      BY <1>0, <2>1, <2>3, NullAssumption DEF StoredJob, OwnConfigs
  <1>2. ASSUME NEW c \in Configs, IssueConfig(c) PROVE StoredJob'
    <2>1. \A i \in Jobs : job'[i].row = job[i].row
      BY <1>0, <1>2 DEF IssueConfig, JobTable, JobRecord
    <2>2. \A d \in Configs : \/ config'[d] = config[d]
                             \/ d = c /\ config'[d].job = config[d].job
      BY <1>0, <1>2 DEF IssueConfig, ConfigTable, ConfigRecord
    <2>3. job[config[c].job].row = "row"
      BY <1>2 DEF IssueConfig
    <2>4. QED
      BY <1>0, <2>1, <2>2, <2>3 DEF StoredJob
  <1>3. ASSUME NEW c \in Configs, NEW m \in Miners, NEW j \in Jobs, RequestConfig(c, m, j)
        PROVE  StoredJob'
    <2>1. UNCHANGED job
      BY <1>3 DEF RequestConfig
    <2>2. \A d \in Configs : config'[d] = config[d] \/ config'[d].row # "row"
      BY <1>0, <1>3 DEF RequestConfig, ConfigTable, ConfigRecord
    <2>3. QED
      BY <1>0, <2>1, <2>2 DEF StoredJob
  <1>4. ASSUME NEW c \in Configs, IssueRefused(c) PROVE StoredJob'
    BY <1>0, <1>4 DEF IssueRefused, Unused, StoredJob, ConfigTable, ConfigRecord
  <1>5. ASSUME SameConfigs, \A i \in Jobs : job[i].row = "row" => job'[i].row = "row" PROVE StoredJob'
    BY <1>0, <1>5 DEF SameConfigs, StoredJob
  <1>6. ASSUME \A j \in Jobs : ~DeleteJob(j), \A c \in Configs : ~IssueConfig(c)
        PROVE  \A i \in Jobs : job[i].row = "row" => job'[i].row = "row"
    <2>1. \A k : \A i \in Jobs : ResetAssignment(k)[i].row = job[i].row
      BY <1>0 DEF ResetAssignment, JobTable, JobRecord
    <2>2. ASSUME NEW t \in JobTable, NEW c PROVE \A i \in Jobs : DetachInstance(t, c)[i].row = t[i].row
      BY DEF DetachInstance, JobTable, JobRecord
    <2>3. ASSUME NEW c \in Configs, VerifyStart(c) \/ VerifyGone(c) \/ VerifyStep(c)
          PROVE  \A i \in Jobs : job'[i].row = job[i].row
      <3>1. CASE VerifyOk(c)
        BY <1>0, <2>1, <3>1, ResetType DEF StartJob, VerifyOk, JobTable, JobRecord
      <3>2. CASE VerifyFail(c)
        <4>1. ResetAssignment(config[c].job) \in JobTable
          BY <1>0, ResetType
        <4>2. QED
          BY <2>1, <2>2, <3>2, <4>1 DEF VerifyFail
      <3>3. QED
        BY <2>1, <2>3, <3>1, <3>2 DEF VerifyStart, VerifyGone, FailConfig, VerifyStep, VerifyAbort
    <2>4. ASSUME NEW r \in Requests, ClaimStep(r)
          PROVE  \A i \in Jobs : job'[i].row = job[i].row
      <3>1. CASE ClaimCommit(r)
        <4>1. \/ job' = job \/ job' = ResetAssignment(config[claim[r].config].job)
              \/ /\ config[claim[r].config].job \in Jobs
                 /\ job' = [job EXCEPT ![config[claim[r].config].job].miner = config[claim[r].config].miner,
                                       ![config[claim[r].config].job].inst = claim[r].config]
          BY <3>1 DEF ClaimCommit
        <4>2. ASSUME config[claim[r].config].job \in Jobs,
                     job' = [job EXCEPT ![config[claim[r].config].job].miner = config[claim[r].config].miner,
                                        ![config[claim[r].config].job].inst = claim[r].config]
              PROVE  \A i \in Jobs : job'[i].row = job[i].row
          BY <1>0, <4>2 DEF JobTable, JobRecord
        <4>3. QED
          BY <2>1, <4>1, <4>2
      <3>2. QED
        BY <2>1, <2>4, <3>1
           DEF ClaimStep, ClaimAcquire, ClaimEnvFail, ClaimJobTaken, ClaimJobWon, FailConfig,
               ClaimNodesBad, ClaimNodesRecord, ClaimStamp, ClaimAbort
    <2>5. ASSUME NEW c \in Configs, Cleanup(c) \/ Purge(c) \/ DeleteInstance(c)
          PROVE  \A i \in Jobs : job'[i].row = job[i].row
      <3> DEFINE ended == [i \in Jobs |-> [job[i] EXCEPT !.finished = @ \/ job[i].inst = c]]
      <3>1. ended \in JobTable /\ \A i \in Jobs : ended[i].row = job[i].row
        BY <1>0 DEF JobTable, JobRecord
      <3>2. job' = DetachInstance(job, c) \/ job' = DetachInstance(ended, c)
        BY <2>5 DEF Cleanup, Purge, DeleteInstance
      <3> HIDE DEF ended
      <3>3. QED
        BY <1>0, <2>2, <3>1, <3>2
    <2>6. ASSUME NEW j \in Jobs, CreateJob(j) \/ FinishJob(j)
          PROVE  \A i \in Jobs : job[i].row = "row" => job'[i].row = "row"
      <3>1. CASE CreateJob(j)
        BY <1>0, <3>1 DEF CreateJob, JobTable, JobRecord
      <3>2. CASE FinishJob(j)
        <4>1. job' = [job EXCEPT ![j].finished = TRUE, ![j].inst = NoConfig]
          BY <3>2 DEF FinishJob
        <4>2. QED
          BY <1>0, <4>1 DEF JobTable, JobRecord
      <3>3. QED
        BY <2>6, <3>1, <3>2
    <2>7. QED
      BY <1>6, <2>1, <2>3, <2>4, <2>5, <2>6
         DEF Next, vars, CompleteJob, TerminateJob, ReleaseJob, RequestConfig, IssueRefused, Activate,
             ClaimRead
  <1>7. CASE UNCHANGED config
    <2>1. SameConfigs
      BY <1>7 DEF SameConfigs
    <2>2. QED
      BY <1>1, <1>2, <1>5, <1>6, <2>1
  <1>8. QED
    BY <1>0, <1>1, <1>2, <1>3, <1>4, <1>5, <1>6, <1>7, ClaimKeepsConfigs, VerifyKeepsConfigs
       DEF Next, vars, CreateJob, CompleteJob, TerminateJob, FinishJob, ReleaseJob, Activate, Cleanup,
           Purge, DeleteInstance, ClaimRead

\* What PutLive says of one config.
PutLiveAt(c) == /\ ~inst[c].row => ~inst[c].verified
                /\ put[c].live => /\ inst[c].row
                                  /\ \A j \in Jobs : job[j].inst = c => put[c].job = j

LEMMA PutLiveStep == ASSUME AssignmentInv, [Next]_vars PROVE PutLive'
  <1>0. TypeOK /\ Busy /\ PutLive /\ job \in JobTable /\ inst \in InstanceTable
    BY Tables DEF AssignmentInv, Typed
  <1> DEFINE SafeAt(c) ==
               /\ inst'[c].verified => inst'[c].row
               /\ put'[c].live => /\ put[c].live /\ put'[c].job = put[c].job
                                  /\ inst'[c].row
  <1>1. ASSUME \A r \in Requests : ~ClaimCommit(r), NEW c \in Configs, SafeAt(c) PROVE PutLiveAt(c)'
    <2>1. \A j \in Jobs : job'[j].inst = c => job[j].inst = c
      BY <1>1, OthersKeep, NullAssumption DEF Keeps
    <2>2. QED
      BY <1>0, <1>1, <2>1 DEF PutLive, PutLiveAt
  <1>2. ASSUME NEW c \in Configs, UNCHANGED <<put, inst>> PROVE SafeAt(c)
    BY <1>0, <1>2 DEF PutLive, InstanceTable, InstanceRecord
  <1>3. ASSUME NEW d \in Configs, VerifyStart(d), NEW c \in Configs PROVE PutLiveAt(c)'
    <2>1. CASE c # d
      BY <1>0, <1>3, <2>1 DEF VerifyStart, PutLive, PutLiveAt, TypeOK
    <2>2. CASE c = d
      <3>1. UNCHANGED <<job, inst>> /\ inst[c].row
        BY <1>3, <2>2 DEF VerifyStart
      <3>2. PICK k : /\ IF Attached(c) = {} THEN k = NoJob ELSE k \in Attached(c)
                     /\ put' = [put EXCEPT ![c] = [running |-> TRUE, live |-> TRUE, job |-> k]]
        BY <1>3, <2>2 DEF VerifyStart
      <3>3. \A j \in Jobs : job[j].inst = c => k = j
        BY <3>2, OneJob, NullAssumption DEF Attached
      <3>4. put'[c].job = k
        BY <3>2 DEF TypeOK, AssignmentInv, Typed
      <3>5. QED
        BY <3>1, <3>3, <3>4 DEF PutLiveAt
    <2>3. QED
      BY <2>1, <2>2
  <1>4. ASSUME NEW d \in Configs, VerifyGone(d) \/ VerifyStep(d), NEW c \in Configs PROVE SafeAt(c)
    <2>1. CASE VerifyFail(d)
      <3>1. inst' = inst \/ inst' = [inst EXCEPT ![d] = NoInstance]
        BY <2>1 DEF VerifyFail
      <3>2. put' = [put EXCEPT ![d] = NoPut]
        BY <2>1 DEF VerifyFail
      <3>3. QED
        BY <1>0, <3>1, <3>2 DEF TypeOK, PutLive, NoPut, NoInstance, InstanceTable, InstanceRecord
    <2>2. CASE VerifyOk(d)
      <3>1. inst' = [inst EXCEPT ![d].verified = @ \/ put[d].live]
        BY <2>2 DEF VerifyOk
      <3>2. put' = [put EXCEPT ![d] = NoPut]
        BY <2>2 DEF VerifyOk
      <3>3. put'[c].live => put[c].live /\ put'[c].job = put[c].job
        BY <1>0, <3>2 DEF TypeOK, NoPut
      <3>4. inst'[c].row = inst[c].row
        BY <1>0, <3>1 DEF InstanceTable, InstanceRecord
      <3>5. inst'[c].verified => inst[c].row
        BY <1>0, <3>1 DEF PutLive, InstanceTable, InstanceRecord
      <3>6. QED
        BY <1>0, <3>3, <3>4, <3>5 DEF PutLive
    <2>3. CASE VerifyAbort(d)
      BY <1>0, <2>3 DEF VerifyAbort, TypeOK, PutLive, NoPut
    <2>4. CASE VerifyGone(d)
      BY <1>2, <2>4 DEF VerifyGone
    <2>5. QED
      BY <1>4, <2>1, <2>2, <2>3, <2>4 DEF VerifyStep
  <1>5. ASSUME NEW d \in Configs, RemoveInstance(d), NEW c \in Configs PROVE SafeAt(c)
    <2>1. inst' = [inst EXCEPT ![d] = NoInstance] /\ put' = [put EXCEPT ![d].live = FALSE]
      BY <1>5 DEF RemoveInstance
    <2>2. QED
      BY <1>0, <2>1 DEF TypeOK, PutLive, NoInstance, InstanceTable, InstanceRecord
  <1>6. ASSUME NEW j \in Jobs, FinishJob(j), NEW c \in Configs PROVE SafeAt(c)
    <2>1. /\ inst' = [d \in Configs |-> IF d = job[j].inst THEN NoInstance ELSE inst[d]]
          /\ put' = [d \in Configs |-> [put[d] EXCEPT !.live = @ /\ d # job[j].inst]]
      BY <1>6 DEF FinishJob
    <2>2. put'[c].live => put[c].live /\ c # job[j].inst
      BY <2>1 DEF TypeOK, AssignmentInv, Typed
    <2>3. put'[c].job = put[c].job
      BY <2>1 DEF TypeOK, AssignmentInv, Typed
    <2>4. QED
      BY <1>0, <2>1, <2>2, <2>3 DEF PutLive, NoInstance
  <1>7. ASSUME NEW d \in Configs, Activate(d), NEW c \in Configs PROVE SafeAt(c)
    BY <1>0, <1>7 DEF Activate, PutLive, InstanceTable, InstanceRecord
  <1>8. ASSUME NEW r \in Requests, ClaimCommit(r), NEW c \in Configs PROVE PutLiveAt(c)'
    <2> DEFINE d == claim[r].config
    <2>1. d \in Configs /\ ~inst[d].row /\ ~put[d].live /\ ~inst[d].verified
      BY <1>0, <1>8 DEF Busy, PutLive, ClaimCommit
    <2>2. inst' = [inst EXCEPT ![d].row = TRUE] /\ UNCHANGED put
      BY <1>8 DEF ClaimCommit
    <2>3. CASE c = d
      BY <1>0, <2>1, <2>2, <2>3 DEF PutLiveAt, InstanceTable, InstanceRecord
    <2>4. CASE c # d
      <3>1. \A j \in Jobs : job'[j].inst = c => job[j].inst = c
        BY <1>8, <2>4, CommitAttaches, NullAssumption DEF Keeps
      <3>2. QED
        BY <1>0, <2>1, <2>2, <2>4, <3>1 DEF PutLive, PutLiveAt, InstanceTable
    <2>5. QED
      BY <2>3, <2>4
  <1>9. ASSUME NEW r \in Requests, ClaimStep(r), ~ClaimCommit(r) PROVE UNCHANGED <<put, inst>>
    BY <1>9 DEF ClaimStep, ClaimAcquire, ClaimEnvFail, ClaimJobTaken, ClaimJobWon, ClaimNodesBad,
                ClaimNodesRecord, ClaimStamp, ClaimAbort
  <1>10. CASE \E r \in Requests : ClaimCommit(r)
    BY <1>8, <1>10 DEF PutLive, PutLiveAt
  <1>11. CASE \E c \in Configs : VerifyStart(c)
    BY <1>3, <1>11 DEF PutLive, PutLiveAt
  <1>12. ASSUME \A r \in Requests : ~ClaimCommit(r), \A c \in Configs : ~VerifyStart(c), NEW c \in Configs
         PROVE  SafeAt(c)
    <2>1. ASSUME NEW j \in Jobs, \/ CreateJob(j) \/ CompleteJob(j) \/ TerminateJob(j) \/ DeleteJob(j)
                                 \/ \E m \in Miners : ReleaseJob(m, j)
                                 \/ \E d \in Configs, m \in Miners : RequestConfig(d, m, j)
          PROVE  SafeAt(c)
      <3>1. CASE FinishJob(j)
        BY <1>6, <3>1
      <3>2. CASE ~FinishJob(j)
        <4>1. UNCHANGED <<put, inst>>
          BY <2>1, <3>2 DEF CreateJob, CompleteJob, TerminateJob, DeleteJob, ReleaseJob, RequestConfig
        <4>2. QED
          BY <1>2, <4>1
      <3>3. QED
        BY <3>1, <3>2
    <2>2. ASSUME NEW d \in Configs, \/ IssueConfig(d) \/ IssueRefused(d)
                                    \/ \E r \in Requests : ClaimRead(r, d)
          PROVE  SafeAt(c)
      BY <1>2, <2>2 DEF IssueConfig, IssueRefused, ClaimRead
    <2>3. ASSUME NEW d \in Configs, Cleanup(d) \/ Purge(d) \/ DeleteInstance(d) PROVE SafeAt(c)
      BY <1>5, <2>3 DEF Cleanup, Purge, DeleteInstance
    <2>4. CASE UNCHANGED vars
      BY <1>2, <2>4 DEF vars
    <2> HIDE DEF SafeAt
    <2>5. QED
      BY <1>2, <1>4, <1>7, <1>9, <1>12, <2>1, <2>2, <2>3, <2>4 DEF Next
  <1>13. CASE (\A r \in Requests : ~ClaimCommit(r)) /\ (\A c \in Configs : ~VerifyStart(c))
    <2>1. \A c \in Configs : PutLiveAt(c)'
      BY <1>1, <1>12, <1>13
    <2>2. QED
      BY <2>1 DEF PutLive, PutLiveAt
  <1>14. QED
    BY <1>10, <1>11, <1>13

(***************************************************************************)
(* The theorems.                                                           *)
(***************************************************************************)
LEMMA AssignmentInductive == Spec => []AssignmentInv
<1>1. Init => AssignmentInv
  <2>1. Init => Typed
    BY NullAssumption
       DEF Init, Typed, TypeOK, Busy, Drawn, JobRecord, ConfigRecord, ConfigRow, InstanceRecord,
           ClaimPc, Unused, Idle, NoPut, NoInstance
  <2>2. Init => Held /\ StoredJob /\ PutLive
    BY DEF Init, Held, StoredJob, PutLive, Idle, Unused, NoPut, NoInstance
  <2>3. Init => AssignmentCoherent /\ VerifiedMeansStarted
    BY DEF Init, AssignmentCoherent, VerifiedMeansStarted
  <2>4. QED
    BY <2>1, <2>2, <2>3 DEF AssignmentInv
<1>2. AssignmentInv /\ [Next]_vars => AssignmentInv'
  <2> SUFFICES ASSUME AssignmentInv, [Next]_vars PROVE AssignmentInv'
    OBVIOUS
  <2>1. Typed'
    BY StepType, BusyStep, DrawnStep DEF AssignmentInv, Typed
  <2>2. QED
    BY <2>1, HeldStep, StoredJobStep, PutLiveStep, CoherentStep DEF AssignmentInv
<1>3. QED
  BY <1>1, <1>2, PTL DEF Spec

\* Whatever claims, verifications, failures, deletions and triggers overlap, an
\* attached job has an existing instance, made from its own unfailed config by
\* the miner the job names.
THEOREM AssignmentIsCoherent == Spec => []AssignmentCoherent
  BY AssignmentInductive, PTL DEF AssignmentInv

\* verify_launch_config_instance, deciding from the job it loaded before its
\* checks, never verifies the instance of a job and leaves that job unstarted.
THEOREM VerifiedInstanceStartedJob == Spec => []VerifiedMeansStarted
  BY AssignmentInductive, PTL DEF AssignmentInv

(***************************************************************************)
(* Takeovers.  Between winning the conditional UPDATE and committing, a    *)
(* claim holds the only lock on its job, which stays unassigned.           *)
(***************************************************************************)
Owns(r) == /\ claim[r].pc = "locked"
           /\ config[claim[r].config].job \in Jobs
           /\ ~config[claim[r].config].failed

Reserved == \A r \in Requests : Owns(r) =>
    /\ job[config[claim[r].config].job].miner = NoMiner
    /\ \A q \in Requests :
         Owns(q) /\ config[claim[q].config].job = config[claim[r].config].job => q = r

\* Only a commit assigns a miner.
LEMMA MinerStep ==
    ASSUME AssignmentInv, [Next]_vars, \A r \in Requests : ~ClaimCommit(r), NEW i \in Jobs
    PROVE  job'[i].miner \in {job[i].miner, NoMiner}
  <1>0. job \in JobTable
    BY Tables DEF AssignmentInv, Typed
  <1> DEFINE M(t) == t[i].miner \in {job[i].miner, NoMiner}
  <1>1. CASE UNCHANGED job
    BY <1>1
  <1>2. \A k : ResetAssignment(k) \in JobTable /\ M(ResetAssignment(k))
    BY ZenonT(60), <1>0, ResetType DEF ResetAssignment, JobTable, JobRecord
  <1>3. ASSUME NEW t \in JobTable, M(t), NEW c PROVE M(DetachInstance(t, c))
    BY <1>3 DEF DetachInstance, JobTable, JobRecord
  <1>4. ASSUME NEW c \in Configs, \/ IssueConfig(c) \/ IssueRefused(c)
                                  \/ VerifyStart(c) \/ VerifyGone(c) \/ VerifyStep(c)
        PROVE  M(job')
    <2>1. CASE IssueConfig(c)
      BY <1>0, <2>1 DEF IssueConfig, JobTable, JobRecord
    <2>2. CASE VerifyOk(c)
      <3>1. PICK t \in JobTable :
              M(t) /\ (job' = t \/ \E j \in Jobs : job' = [t EXCEPT ![j].started = TRUE])
        BY <1>0, <1>2, <2>2 DEF StartJob, VerifyOk
      <3>2. QED
        BY <3>1 DEF JobTable, JobRecord
    <2>3. CASE VerifyFail(c)
      BY <1>2, <1>3, <2>3 DEF VerifyFail
    <2>4. QED
      BY <1>2, <1>4, <2>1, <2>2, <2>3
         DEF IssueRefused, VerifyStart, VerifyGone, VerifyStep, VerifyAbort, FailConfig
  <1>5. ASSUME NEW r \in Requests, ClaimStep(r) PROVE M(job')
    BY <1>2, <1>5
       DEF ClaimStep, ClaimAcquire, ClaimEnvFail, ClaimJobTaken, ClaimJobWon, FailConfig,
           ClaimNodesBad, ClaimNodesRecord, ClaimStamp, ClaimAbort
  <1>6. ASSUME NEW c \in Configs, Cleanup(c) \/ Purge(c) \/ DeleteInstance(c) PROVE M(job')
    <2> DEFINE ended == [j \in Jobs |-> [job[j] EXCEPT !.finished = @ \/ job[j].inst = c]]
    <2>1. ended \in JobTable /\ M(ended)
      BY <1>0 DEF JobTable, JobRecord
    <2>2. job' = DetachInstance(job, c) \/ job' = DetachInstance(ended, c)
      BY <1>6 DEF Cleanup, Purge, DeleteInstance
    <2> HIDE DEF ended
    <2>3. QED
      BY <1>0, <1>3, <2>1, <2>2
  <1>7. ASSUME NEW j \in Jobs, \/ CreateJob(j) \/ FinishJob(j) \/ DeleteJob(j)
                               \/ \E m \in Miners : ReleaseJob(m, j)
        PROVE  M(job')
    <2>1. CASE CreateJob(j)
      BY <1>0, <2>1 DEF CreateJob, JobTable, JobRecord
    <2>2. CASE FinishJob(j)
      <3>1. job' = [job EXCEPT ![j].finished = TRUE, ![j].inst = NoConfig]
        BY <2>2 DEF FinishJob
      <3>2. QED
        BY <1>0, <3>1 DEF JobTable, JobRecord
    <2>3. CASE DeleteJob(j)
      <3>1. job' = [job EXCEPT ![j] = [@ EXCEPT !.row = "deleted", !.miner = NoMiner,
                                                !.inst = NoConfig, !.history = <<>>]]
        BY <2>3 DEF DeleteJob
      <3>2. QED
        BY <1>0, <3>1 DEF JobTable, JobRecord
    <2>4. QED
      BY <1>2, <1>7, <2>1, <2>2, <2>3 DEF ReleaseJob
  <1> HIDE DEF M
  <1>8. M(job')
    <2>1. CASE UNCHANGED job
      BY <1>1, <2>1 DEF M
    <2>2. QED
      BY <1>4, <1>5, <1>6, <1>7, <2>1
         DEF Next, vars, CompleteJob, TerminateJob, RequestConfig, Activate, ClaimRead
  <1>9. QED
    BY <1>8 DEF M

\* A stored config keeps its job, or loses it for good, and stays failed.
LEMMA FailedStep ==
    ASSUME AssignmentInv, [Next]_vars, NEW c \in Configs, config[c].row = "row"
    PROVE  /\ config'[c].job \in Jobs => config'[c].job = config[c].job
           /\ config[c].failed => config'[c].failed
  <1>0. TypeOK /\ Busy /\ config \in ConfigTable
    BY Tables DEF AssignmentInv, Typed
  <1> DEFINE Same == /\ config'[c].job = config[c].job
                     /\ config[c].failed => config'[c].failed
  <1>1. ASSUME NEW d \in Configs, NEW b, FailConfig(d, b) PROVE Same
    <2>1. config' = [config EXCEPT ![d].failed = TRUE, ![d].retrieved = b]
      BY <1>1 DEF FailConfig
    <2>2. QED
      BY <1>0, <2>1 DEF ConfigTable, ConfigRecord
  <1>2. ASSUME UNCHANGED config PROVE Same
    BY <1>2
  <1>3. ASSUME NEW r \in Requests, ClaimStep(r) PROVE Same
    <2>1. CASE ClaimCommit(r)
      BY <1>0, <2>1 DEF ClaimCommit, ConfigTable, ConfigRecord
    <2>2. CASE ~ClaimCommit(r)
      <3> HIDE DEF Same
      <3>1. UNCHANGED config \/ \E d \in Configs : \E b : FailConfig(d, b)
        BY <1>0, <1>3, <2>2
           DEF ClaimStep, ClaimAcquire, ClaimEnvFail, ClaimJobTaken, ClaimJobWon, ClaimNodesBad,
               ClaimNodesRecord, ClaimStamp, ClaimAbort, Busy
      <3>2. QED
        BY <1>1, <1>2, <3>1
    <2>3. QED
      BY <2>1, <2>2
  <1>4. ASSUME NEW d \in Configs, VerifyStart(d) \/ VerifyGone(d) \/ VerifyStep(d) PROVE Same
    <2>1. CASE VerifyFail(d)
      <3>1. config' = [config EXCEPT ![d].failed = TRUE]
        BY <2>1 DEF VerifyFail
      <3>2. QED
        BY <1>0, <3>1 DEF ConfigTable, ConfigRecord
    <2>2. CASE VerifyOk(d)
      <3>1. config' = [config EXCEPT ![d].verified = TRUE, ![d].token = (put[d].job \in Jobs)]
        BY <2>2 DEF VerifyOk
      <3>2. QED
        BY <1>0, <3>1 DEF ConfigTable, ConfigRecord
    <2>3. CASE VerifyGone(d)
      BY <1>1, <2>3 DEF VerifyGone
    <2>4. QED
      BY <1>2, <1>4, <2>1, <2>2, <2>3 DEF VerifyStart, VerifyStep, VerifyAbort
  <1>5. ASSUME NEW d \in Configs, \/ IssueConfig(d) \/ IssueRefused(d)
                                  \/ \E m \in Miners, k \in Jobs : RequestConfig(d, m, k)
        PROVE  Same
    <2>1. config[d].row # "row" /\ \A e \in Configs \ {d} : config'[e] = config[e]
      BY <1>0, <1>5 DEF IssueConfig, IssueRefused, RequestConfig, ConfigTable
    <2>2. QED
      BY <2>1
  <1>6. ASSUME NEW j \in Jobs, DeleteJob(j)
        PROVE  Same \/ (config'[c].job = NoJob /\ (config[c].failed => config'[c].failed))
    <2>1. PICK kept : config' = [d \in Configs |->
            IF d \notin OwnConfigs(j) THEN config[d]
            ELSE [config[d] EXCEPT !.job = NoJob, !.row = IF d = kept THEN "row" ELSE "deleted"]]
      BY <1>6 DEF DeleteJob
    <2>2. QED
      BY <1>0, <2>1 DEF ConfigTable, ConfigRecord
  <1>7. Same \/ (config'[c].job = NoJob /\ (config[c].failed => config'[c].failed))
    <2>1. CASE UNCHANGED config
      BY <1>2, <2>1
    <2> HIDE DEF Same
    <2>2. QED
      BY <1>3, <1>4, <1>5, <1>6, <2>1
         DEF Next, vars, CreateJob, ReleaseJob, CompleteJob, TerminateJob, FinishJob, ClaimRead,
             Activate, Cleanup, Purge, DeleteInstance
  <1>8. QED
    BY <1>7, NullAssumption

\* A claim that owns its job won it in this step or owned it before.
LEMMA OwnsStep ==
    ASSUME AssignmentInv, [Next]_vars, NEW r \in Requests, Owns(r)'
    PROVE  /\ claim'[r].config = claim[r].config /\ claim[r].config \in Configs
           /\ config'[claim[r].config].job = config[claim[r].config].job
           /\ Owns(r) \/ /\ ClaimJobWon(r) /\ ~config[claim[r].config].failed
                          /\ UNCHANGED <<job, config>>
                          /\ \A q \in Requests \ {r} : claim'[q] = claim[q]
  <1>0. TypeOK /\ Busy /\ Held
    BY DEF AssignmentInv, Typed
  <1>1. /\ claim'[r].config = claim[r].config
        /\ claim[r].pc = "locked" \/ ClaimJobWon(r)
    <2>1. claim'[r].pc = "locked"
      BY DEF Owns
    <2>2. CASE claim'[r] = claim[r]
      BY <2>1, <2>2
    <2>3. ASSUME NEW q \in Requests, ClaimStep(q), claim'[r] # claim[r]
          PROVE  ClaimJobWon(r) /\ claim'[r].config = claim[r].config
      <3>1. q = r
        BY <1>0, <2>3
           DEF TypeOK, ClaimStep, ClaimAcquire, ClaimEnvFail, ClaimJobTaken, ClaimJobWon,
               ClaimNodesBad, ClaimNodesRecord, ClaimCommit, ClaimStamp, ClaimAbort
      <3>2. CASE ClaimJobWon(r)
        BY <1>0, <3>2 DEF ClaimJobWon, TypeOK
      <3>3. CASE ~ClaimJobWon(r)
        <4>1. \/ claim' = [claim EXCEPT ![r] = Idle]
              \/ \E p \in {"checking", "failing", "stamping"} : claim' = [claim EXCEPT ![r].pc = p]
          BY <2>3, <3>1, <3>3
             DEF ClaimStep, ClaimAcquire, ClaimEnvFail, ClaimJobTaken,
                 ClaimNodesBad, ClaimNodesRecord, ClaimCommit, ClaimStamp, ClaimAbort
        <4>2. claim'[r].pc # "locked"
          BY <1>0, <4>1 DEF TypeOK, Idle
        <4>3. QED
          BY <2>1, <4>2
      <3>4. QED
        BY <3>2, <3>3
    <2>4. ASSUME NEW q \in Requests, NEW c \in Configs, ClaimRead(q, c) PROVE claim'[r] = claim[r]
      BY <1>0, <2>1, <2>4 DEF ClaimRead, TypeOK
    <2>5. CASE UNCHANGED claim
      BY <2>2, <2>5
    <2>6. UNCHANGED claim \/ \E q \in Requests : ClaimStep(q) \/ \E c \in Configs : ClaimRead(q, c)
      BY ClaimUnchanged
    <2>7. QED
      BY <2>2, <2>3, <2>4, <2>5, <2>6
  <1>2. claim[r].config \in Configs /\ config[claim[r].config].row = "row"
    BY <1>0, <1>1 DEF Busy, Held, ClaimJobWon
  <1>3. /\ config'[claim[r].config].job = config[claim[r].config].job
        /\ ~config[claim[r].config].failed
    BY <1>1, <1>2, FailedStep DEF Owns
  <1>4. CASE claim[r].pc = "locked"
    BY <1>1, <1>2, <1>3, <1>4 DEF Owns
  <1>5. CASE ClaimJobWon(r)
    BY <1>0, <1>1, <1>2, <1>3, <1>5 DEF ClaimJobWon, TypeOK
  <1>6. QED
    BY <1>1, <1>4, <1>5

LEMMA ReservedStep == ASSUME AssignmentInv, Reserved, [Next]_vars PROVE Reserved'
  <1>0. TypeOK /\ job \in JobTable
    BY Tables DEF AssignmentInv, Typed
  <1> DEFINE J(r) == config[claim[r].config].job
  <1> SUFFICES ASSUME NEW r \in Requests, Owns(r)'
               PROVE  /\ job'[config'[claim'[r].config].job].miner = NoMiner
                      /\ \A q \in Requests :
                           Owns(q)' /\ config'[claim'[q].config].job = config'[claim'[r].config].job
                              => q = r
    BY DEF Reserved
  <1>1. config'[claim'[r].config].job = J(r) /\ J(r) \in Jobs
    BY OwnsStep DEF Owns
  <1>2. CASE Owns(r)
    <2>1. job[J(r)].miner = NoMiner
      BY <1>2 DEF Reserved
    <2>2. job'[J(r)].miner = NoMiner
      <3>1. CASE \A q \in Requests : ~ClaimCommit(q)
        BY <1>1, <2>1, <3>1, MinerStep
      <3>2. ASSUME NEW q \in Requests, ClaimCommit(q) PROVE job'[J(r)].miner = NoMiner
        <4>1. q # r
          <5>1. ASSUME q = r PROVE claim'[r].pc = "stamping"
            BY <1>0, <3>2, <5>1 DEF ClaimCommit, TypeOK
          <5>2. QED
            BY <5>1 DEF Owns
        <4>2. config[claim[q].config].failed \/ J(q) \notin Jobs \/ J(q) # J(r)
          BY <1>2, <3>2, <4>1 DEF Reserved, Owns, ClaimCommit
        <4>3. \/ job' = job \/ job' = ResetAssignment(J(q))
              \/ J(q) # J(r) /\ job' = [job EXCEPT ![J(q)].miner = config[claim[q].config].miner,
                                                  ![J(q)].inst = claim[q].config]
          BY <3>2, <4>2 DEF ClaimCommit
        <4>4. CASE job' = ResetAssignment(J(q))
          BY <1>0, <1>1, <2>1, <4>4 DEF ResetAssignment, JobTable, JobRecord
        <4>5. CASE job' = job
          BY <2>1, <4>5
        <4>6. ASSUME J(q) # J(r), job' = [job EXCEPT ![J(q)].miner = config[claim[q].config].miner,
                                                     ![J(q)].inst = claim[q].config]
              PROVE  job'[J(r)].miner = NoMiner
          <5>1. job'[J(r)] = job[J(r)]
            BY <1>0, <1>1, <4>6 DEF JobTable
          <5>2. QED
            BY <2>1, <5>1
        <4>7. QED
          BY <4>3, <4>4, <4>5, <4>6
      <3>3. QED
        BY <3>1, <3>2
    <2>3. ASSUME NEW q \in Requests, Owns(q)', config'[claim'[q].config].job = config'[claim'[r].config].job
          PROVE  q = r
      <3>1. J(q) = J(r)
        BY <1>1, <2>3, OwnsStep DEF Owns
      <3>2. CASE Owns(q)
        BY <1>2, <3>1, <3>2 DEF Reserved
      <3>3. CASE ClaimJobWon(q) /\ ~config[claim[q].config].failed
        <4>1. ~JobLocked(J(q))
          BY <1>1, <3>1, <3>3 DEF ClaimJobWon
        <4>2. HoldsJob(r, J(r))
          BY <1>1, <1>2, OwnsStep, NullAssumption DEF HoldsJob, Owns
        <4>3. QED
          BY <3>1, <4>1, <4>2 DEF JobLocked
      <3>4. QED
        BY <2>3, <3>2, <3>3, OwnsStep
    <2>4. QED
      BY <1>1, <2>2, <2>3
  <1>3. CASE ~Owns(r)
    <2>1. /\ ClaimJobWon(r) /\ ~config[claim[r].config].failed /\ UNCHANGED <<job, config>>
          /\ \A q \in Requests \ {r} : claim'[q] = claim[q]
      BY <1>3, OwnsStep
    <2>2. job'[J(r)].miner = NoMiner
      BY <1>1, <2>1 DEF ClaimJobWon, Claimable
    <2>3. ASSUME NEW q \in Requests, Owns(q)', config'[claim'[q].config].job = config'[claim'[r].config].job
          PROVE  q = r
      <3>1. SUFFICES ASSUME q # r PROVE FALSE
        OBVIOUS
      <3>2. Owns(q) /\ J(q) = J(r)
        BY <1>1, <2>1, <2>3, <3>1 DEF Owns
      <3>3. HoldsJob(q, J(r))
        BY <1>1, <2>3, <3>2, OwnsStep, NullAssumption DEF HoldsJob, Owns
      <3>4. ~JobLocked(J(r))
        BY <1>1, <2>1 DEF ClaimJobWon
      <3>5. QED
        BY <3>3, <3>4 DEF JobLocked
    <2>4. QED
      BY <1>1, <2>2, <2>3
  <1>4. QED
    BY <1>2, <1>3

\* No step hands an assigned job over.
LEMMA HandoverStep ==
    ASSUME AssignmentInv, Reserved, [Next]_vars, NEW j \in Jobs
    PROVE  /\ job[j].miner # NoMiner => job'[j].miner \in {job[j].miner, NoMiner}
           /\ job[j].inst # NoConfig => job'[j].inst \in {job[j].inst, NoConfig}
  <1>0. job \in JobTable
    BY Tables DEF AssignmentInv, Typed
  <1>1. job[j].miner = NoMiner => job[j].inst = NoConfig
    <2>1. SUFFICES ASSUME job[j].inst # NoConfig PROVE job[j].miner # NoMiner
      OBVIOUS
    <2>2. config[job[j].inst].row = "row" /\ job[j].miner = config[job[j].inst].miner
      BY <2>1 DEF AssignmentInv, AssignmentCoherent
    <2>3. QED
      BY <2>1, <2>2, JobInstance, NullAssumption DEF AssignmentInv, Typed, Drawn
  <1>2. CASE \A r \in Requests : ~ClaimCommit(r)
    BY <1>2, MinerStep, OthersKeep DEF Keeps
  <1>3. ASSUME NEW r \in Requests, ClaimCommit(r)
        PROVE  job[j].miner # NoMiner => job'[j].miner \in {job[j].miner, NoMiner}
                                         /\ job'[j].inst \in {job[j].inst, NoConfig}
    <2> DEFINE k == config[claim[r].config].job
    <2>1. \/ job' = job \/ job' = ResetAssignment(k)
          \/ /\ k \in Jobs /\ ~config[claim[r].config].failed
             /\ job' = [job EXCEPT ![k].miner = config[claim[r].config].miner, ![k].inst = claim[r].config]
      BY <1>3 DEF ClaimCommit
    <2>2. k \in Jobs /\ ~config[claim[r].config].failed => job[k].miner = NoMiner
      BY <1>3 DEF ClaimCommit, Reserved, Owns
    <2>3. CASE job' = ResetAssignment(k)
      BY <1>0, <2>3 DEF ResetAssignment, JobTable, JobRecord
    <2>4. ASSUME k \in Jobs, ~config[claim[r].config].failed, job[j].miner # NoMiner,
                 job' = [job EXCEPT ![k].miner = config[claim[r].config].miner, ![k].inst = claim[r].config]
          PROVE  job'[j] = job[j]
      BY <1>0, <2>2, <2>4 DEF JobTable
    <2>5. QED
      BY <2>1, <2>3, <2>4
  <1>4. QED
    BY <1>1, <1>2, <1>3

\* Whatever the number of miners, jobs and overlapping requests, the assignment
\* of a job changes hands only through an unassigned state: claim_launch_config's
\* conditional UPDATE and the row lock it leaves behind see to that.
THEOREM NoTakeover == Spec => NoDirectTakeover
<1>1. Init => Reserved
  BY DEF Init, Reserved, Owns, Idle
<1>2. AssignmentInv /\ Reserved /\ [Next]_vars => Reserved'
  BY ReservedStep
<1>3. AssignmentInv /\ Reserved /\ [Next]_vars =>
        [\A j \in Jobs :
           /\ job[j].miner # NoMiner => job'[j].miner \in {job[j].miner, NoMiner}
           /\ job[j].inst # NoConfig => job'[j].inst \in {job[j].inst, NoConfig}]_vars
  BY HandoverStep
<1>4. QED
  BY <1>1, <1>2, <1>3, AssignmentInductive, PTL DEF Spec, NoDirectTakeover


(***************************************************************************)
(* The history of a job.  Only the issue of a config appends to it, and    *)
(* only the deletion of the job empties it, with its configs.              *)
(***************************************************************************)
SameHistories == \A i \in Jobs : job'[i].history = job[i].history

LEMMA ResetHistories ==
    ASSUME NEW jobs \in JobTable, NEW j
    PROVE  /\ \A i \in Jobs : /\ DetachInstance(jobs, j)[i].history = jobs[i].history
                              /\ StartJob(jobs, j)[i].history = jobs[i].history
           /\ \A i \in Jobs : jobs = job => ResetAssignment(j)[i].history = job[i].history
  BY DEF JobTable, JobRecord, DetachInstance, StartJob, ResetAssignment

LEMMA ClaimKeepsHistories ==
    ASSUME TypeOK, NEW r \in Requests, ClaimStep(r) PROVE SameHistories
  <1>1. job \in JobTable
    BY Tables
  <1>2. CASE UNCHANGED job
    BY <1>2 DEF SameHistories
  <1>3. CASE \E j : job' = ResetAssignment(j)
    BY <1>1, <1>3, ResetHistories DEF SameHistories
  <1>4. CASE \E j, m, c : job' = [job EXCEPT ![j].miner = m, ![j].inst = c]
    BY <1>1, <1>4 DEF SameHistories, JobTable, JobRecord
  <1>5. CASE ClaimAcquire(r) \/ ClaimJobWon(r) \/ ClaimNodesBad(r) \/ ClaimAbort(r)
    BY <1>2, <1>5 DEF ClaimAcquire, ClaimJobWon, ClaimNodesBad, ClaimAbort
  <1>6. CASE ClaimEnvFail(r) \/ ClaimJobTaken(r) \/ ClaimNodesRecord(r) \/ ClaimStamp(r)
    BY <1>2, <1>3, <1>6 DEF ClaimEnvFail, ClaimJobTaken, ClaimNodesRecord, ClaimStamp, FailConfig
  <1>7. CASE ClaimCommit(r)
    BY <1>2, <1>3, <1>4, <1>7 DEF ClaimCommit
  <1>8. QED
    BY <1>5, <1>6, <1>7 DEF ClaimStep

LEMMA VerifyKeepsHistories ==
    ASSUME TypeOK, NEW c \in Configs, VerifyStart(c) \/ VerifyGone(c) \/ VerifyStep(c)
    PROVE  SameHistories
  <1>1. job \in JobTable /\ \A j : ResetAssignment(j) \in JobTable
    BY Tables, ResetType
  <1>2. CASE UNCHANGED job
    BY <1>2 DEF SameHistories
  <1>3. CASE \E j : job' = ResetAssignment(j)
    BY <1>1, <1>3, ResetHistories DEF SameHistories
  <1>4. CASE \E j : job' = DetachInstance(ResetAssignment(j), c)
    BY <1>1, <1>4, ResetHistories DEF SameHistories
  <1>5. CASE \E i, j : job' = StartJob(ResetAssignment(j), i) \/ job' = StartJob(job, i)
    BY <1>1, <1>5, ResetHistories DEF SameHistories
  <1>6. QED
    BY <1>2, <1>3, <1>4, <1>5
       DEF VerifyStep, VerifyStart, VerifyGone, VerifyFail, VerifyOk, VerifyAbort, FailConfig

LEMMA RemovalKeepsHistories ==
    ASSUME TypeOK, NEW c \in Configs, Cleanup(c) \/ Purge(c) \/ DeleteInstance(c)
    PROVE  SameHistories
  <1> DEFINE jobs == [j \in Jobs |-> [job[j] EXCEPT !.finished = @ \/ job[j].inst = c]]
  <1>1. job \in JobTable
    BY Tables
  <1>2. CASE job' = DetachInstance(job, c)
    BY <1>1, <1>2, ResetHistories DEF SameHistories
  <1>3. CASE job' = DetachInstance(jobs, c)
    <2>1. jobs \in JobTable /\ \A i \in Jobs : jobs[i].history = job[i].history
      BY <1>1 DEF JobTable, JobRecord
    <2>2. QED
      BY ZenonT(60), <1>3, <2>1, ResetHistories DEF SameHistories
  <1>4. QED
    BY <1>2, <1>3 DEF Cleanup, Purge, DeleteInstance

LEMMA JobStepKeepsHistories ==
    ASSUME TypeOK, NEW j \in Jobs,
           CreateJob(j) \/ CompleteJob(j) \/ TerminateJob(j) \/ \E m \in Miners : ReleaseJob(m, j)
    PROVE  SameHistories
  <1>1. job \in JobTable
    BY Tables
  <1>2. CASE \E m \in Miners : ReleaseJob(m, j)
    BY <1>1, <1>2, ResetHistories DEF SameHistories, ReleaseJob
  <1>3. CASE CreateJob(j)
    BY <1>1, <1>3 DEF SameHistories, CreateJob, JobTable, JobRecord
  <1>4. CASE FinishJob(j)
    BY <1>1, <1>4 DEF SameHistories, FinishJob, JobTable, JobRecord
  <1>5. QED
    BY <1>2, <1>3, <1>4 DEF CompleteJob, TerminateJob

\* The row of a job and its own configs, which HistoryCountsConfigs is about.
Recorded(j) ==
    /\ Len(job[j].history) = Cardinality(OwnConfigs(j))
    /\ \A c \in OwnConfigs(j) : \E i \in 1..Len(job[j].history) : job[j].history[i] = config[c].miner

LEMMA HistoryIsRecorded == HistoryCountsConfigs <=> \A j \in Jobs : Recorded(j)
  BY DEF HistoryCountsConfigs, Recorded, OwnConfigs

\* A job whose history and own configs stay as they are.
LEMMA StaysRecorded ==
    ASSUME NEW j \in Jobs, Recorded(j), job'[j].history = job[j].history,
           OwnConfigs(j)' = OwnConfigs(j),
           \A c \in OwnConfigs(j) : config'[c].miner = config[c].miner
    PROVE  Recorded(j)'
  BY DEF Recorded

LEMMA IssueRecords ==
    ASSUME Typed, HistoryCountsConfigs, NEW c \in Configs, IssueConfig(c)
    PROVE  HistoryCountsConfigs'
  <1>0. PICK j \in Jobs : j = config[c].job
    BY DEF Typed, Drawn, IssueConfig
  <1>1. /\ job \in JobTable /\ config \in ConfigTable /\ config[c].miner \in Miners
        /\ c \notin OwnConfigs(j) /\ config' = [config EXCEPT ![c].row = "row"]
        /\ job' = [job EXCEPT ![j].history = Append(@, config[c].miner)]
    BY <1>0, Tables DEF Typed, Drawn, IssueConfig, RecordAttempt, OwnConfigs
  <1>2. \A i \in Jobs \ {j} : job'[i].history = job[i].history
    BY <1>1 DEF JobTable, JobRecord
  <1>3. job'[j].history = Append(job[j].history, config[c].miner) /\ job[j].history \in Seq(Miners)
    BY <1>1 DEF JobTable, JobRecord
  <1>4. \A d \in Configs : config'[d].miner = config[d].miner
    BY <1>1 DEF ConfigTable, ConfigRecord
  <1>5. \A i \in Jobs \ {j} : OwnConfigs(i)' = OwnConfigs(i)
    BY <1>0, <1>1 DEF ConfigTable, ConfigRecord, OwnConfigs
  <1>6. OwnConfigs(j)' = OwnConfigs(j) \cup {c}
    BY <1>0, <1>1 DEF ConfigTable, ConfigRecord, OwnConfigs
  <1>7. ASSUME NEW i \in Jobs \ {j} PROVE Recorded(i)'
    BY <1>2, <1>4, <1>5, <1>7, HistoryIsRecorded, StaysRecorded DEF OwnConfigs
  <1>8. Recorded(j)'
    <2>1. /\ Len(job[j].history) = Cardinality(OwnConfigs(j)) /\ Len(job[j].history) \in Nat
          /\ \A d \in OwnConfigs(j) :
                \E i \in 1..Len(job[j].history) : job[j].history[i] = config[d].miner
      BY <1>1, <1>3, HistoryIsRecorded, LenProperties DEF Recorded
    <2>2. IsFiniteSet(OwnConfigs(j))
      BY FiniteAssumption, FS_Subset DEF OwnConfigs
    <2>3. Cardinality(OwnConfigs(j) \cup {c}) = Cardinality(OwnConfigs(j)) + 1
      BY <1>1, <2>2, FS_AddElement
    <2>4. /\ Len(job'[j].history) = Len(job[j].history) + 1
          /\ \A i \in 1..Len(job[j].history) : job'[j].history[i] = job[j].history[i]
          /\ job'[j].history[Len(job[j].history) + 1] = config[c].miner
      BY <1>1, <1>3, AppendProperties
    <2>5. ASSUME NEW d \in OwnConfigs(j) \cup {c}
          PROVE  \E i \in 1..Len(job'[j].history) : job'[j].history[i] = config'[d].miner
      <3>1. CASE d = c
        BY <1>1, <1>4, <2>1, <2>4, <3>1
      <3>2. CASE d # c
        <4>1. PICK i \in 1..Len(job[j].history) : job[j].history[i] = config[d].miner
          BY <2>1, <2>5, <3>2
        <4>2. i \in 1..Len(job'[j].history) /\ job'[j].history[i] = config'[d].miner
          BY <1>4, <2>1, <2>4, <2>5, <3>2, <4>1 DEF OwnConfigs
        <4>3. QED
          BY <4>2
      <3>3. QED
        BY <3>1, <3>2
    <2>6. /\ Len(job'[j].history) = Cardinality(OwnConfigs(j) \cup {c})
          /\ \A d \in OwnConfigs(j) \cup {c} :
                \E i \in 1..Len(job'[j].history) : job'[j].history[i] = config'[d].miner
      BY <2>1, <2>3, <2>4, <2>5
    <2>7. QED
      BY <1>6, <2>6 DEF Recorded
  <1>9. \A i \in Jobs : Recorded(i)'
    BY <1>7, <1>8
  <1>10. QED
    BY <1>9 DEF HistoryCountsConfigs, Recorded, OwnConfigs

LEMMA DeletionForgets ==
    ASSUME Typed, HistoryCountsConfigs, NEW j \in Jobs, DeleteJob(j)
    PROVE  HistoryCountsConfigs'
  <1>1. job \in JobTable /\ config \in ConfigTable /\ NoJob \notin Jobs
    BY Tables, NullAssumption DEF Typed
  <1>2. PICK kept : config' = [c \in Configs |->
            IF c \notin OwnConfigs(j) THEN config[c]
            ELSE [config[c] EXCEPT !.job = NoJob, !.row = IF c = kept THEN "row" ELSE "deleted"]]
    BY DEF DeleteJob
  <1>3. \A c \in OwnConfigs(j) : config'[c].job = NoJob
    BY <1>1, <1>2 DEF OwnConfigs, ConfigTable, ConfigRecord
  <1>4. \A c \in Configs \ OwnConfigs(j) : config'[c] = config[c]
    BY <1>2
  <1>5. OwnConfigs(j)' = {}
    BY <1>1, <1>3, <1>4 DEF OwnConfigs
  <1>6. \A i \in Jobs \ {j} : OwnConfigs(i)' = OwnConfigs(i)
    BY <1>1, <1>3, <1>4 DEF OwnConfigs
  <1>7. job'[j].history = <<>> /\ \A i \in Jobs \ {j} : job'[i].history = job[i].history
    BY <1>1 DEF DeleteJob, JobTable, JobRecord
  <1>8. Recorded(j)'
    BY <1>5, <1>7, FS_EmptySet DEF Recorded
  <1>9. ASSUME NEW i \in Jobs \ {j} PROVE Recorded(i)'
    <2>1. \A c \in OwnConfigs(i) : c \in Configs \ OwnConfigs(j)
      BY <1>9 DEF OwnConfigs
    <2>2. QED
      BY <1>4, <1>6, <1>7, <1>9, <2>1, HistoryIsRecorded, StaysRecorded
  <1>10. QED
    BY <1>8, <1>9 DEF HistoryCountsConfigs, Recorded, OwnConfigs

LEMMA HistoryStep ==
    ASSUME Typed, HistoryCountsConfigs, [Next]_vars PROVE HistoryCountsConfigs'
  <1>1. job \in JobTable /\ config \in ConfigTable
    BY Tables DEF Typed
  <1>2. ASSUME SameHistories, \A j \in Jobs : OwnConfigs(j)' = OwnConfigs(j),
               \A j \in Jobs : \A c \in OwnConfigs(j) : config'[c].miner = config[c].miner
        PROVE  HistoryCountsConfigs'
    <2>1. \A j \in Jobs : Recorded(j)'
      BY <1>2, HistoryIsRecorded, StaysRecorded DEF SameHistories
    <2>2. QED
      BY <2>1 DEF HistoryCountsConfigs, Recorded, OwnConfigs
  <1>3. ASSUME SameHistories, SameConfigs PROVE HistoryCountsConfigs'
    <2>1. /\ \A j \in Jobs : OwnConfigs(j)' = OwnConfigs(j)
          /\ \A j \in Jobs : \A c \in OwnConfigs(j) : config'[c].miner = config[c].miner
      BY <1>3 DEF SameConfigs, OwnConfigs
    <2>2. QED
      BY <1>2, <1>3, <2>1
  <1>4. ASSUME UNCHANGED config PROVE SameConfigs
    BY <1>4 DEF SameConfigs
  <1>5. ASSUME UNCHANGED job PROVE SameHistories
    BY <1>5 DEF SameHistories
  <1>6. ASSUME NEW c \in Configs, NEW m \in Miners, NEW j \in Jobs, RequestConfig(c, m, j)
        PROVE  HistoryCountsConfigs'
    <2>1. config[c].row = "unused" /\ UNCHANGED job
          /\ config' = [config EXCEPT ![c].row = "requested", ![c].miner = m, ![c].job = j]
      BY <1>6 DEF RequestConfig
    <2>2. config'[c].row = "requested" /\ \A d \in Configs \ {c} : config'[d] = config[d]
      BY <1>1, <2>1 DEF ConfigTable, ConfigRecord
    <2>3. QED
      BY <1>2, <1>5, <2>1, <2>2 DEF OwnConfigs
  <1>7. ASSUME NEW c \in Configs, IssueRefused(c) PROVE HistoryCountsConfigs'
    <2>1. config[c].row = "requested" /\ UNCHANGED job /\ config' = [config EXCEPT ![c] = Unused]
      BY <1>7 DEF IssueRefused
    <2>2. config'[c].row = "unused" /\ \A d \in Configs \ {c} : config'[d] = config[d]
      BY <1>1, <2>1 DEF ConfigTable, Unused
    <2>3. QED
      BY <1>2, <1>5, <2>1, <2>2 DEF OwnConfigs
  <1>8. CASE UNCHANGED vars
    BY <1>3, <1>4, <1>5, <1>8 DEF vars
  <1>9. ASSUME NEW r \in Requests, ClaimStep(r) \/ \E c \in Configs : ClaimRead(r, c)
        PROVE  HistoryCountsConfigs'
    BY <1>3, <1>4, <1>5, <1>9, ClaimKeepsConfigs, ClaimKeepsHistories DEF Typed, ClaimRead
  <1>10. ASSUME NEW c \in Configs,
                VerifyStart(c) \/ VerifyGone(c) \/ VerifyStep(c) \/ Activate(c)
         PROVE  HistoryCountsConfigs'
    BY <1>3, <1>4, <1>5, <1>10, VerifyKeepsConfigs, VerifyKeepsHistories DEF Typed, Activate
  <1>11. ASSUME NEW c \in Configs, Cleanup(c) \/ Purge(c) \/ DeleteInstance(c)
         PROVE  HistoryCountsConfigs'
    BY <1>3, <1>4, <1>11, RemovalKeepsHistories DEF Typed, Cleanup, Purge, DeleteInstance
  <1>12. ASSUME NEW j \in Jobs, \/ CreateJob(j) \/ CompleteJob(j) \/ TerminateJob(j)
                                \/ \E m \in Miners : ReleaseJob(m, j)
         PROVE  HistoryCountsConfigs'
    BY <1>3, <1>4, <1>12, JobStepKeepsHistories
       DEF Typed, CreateJob, CompleteJob, TerminateJob, FinishJob, ReleaseJob
  <1>13. QED
    BY <1>6, <1>7, <1>8, <1>9, <1>10, <1>11, <1>12, IssueRecords, DeletionForgets DEF Next

\* get_launch_config: a job's miner_history has one entry for each config that was
\* issued for the job and names its miner, however many calls overlap, are refused
\* or lose their job; so the fifteen places go to fifteen configs.
THEOREM HistoryIsOfConfigs == Spec => []HistoryCountsConfigs
<1>1. Init => HistoryCountsConfigs
  <2>1. ASSUME Init PROVE \A j \in Jobs : OwnConfigs(j) = {} /\ job[j].history = <<>>
    BY <2>1 DEF Init, OwnConfigs, Unused
  <2>2. Len(<<>>) = 0 /\ Cardinality({}) = 0
    BY FS_EmptySet
  <2>3. ASSUME Init, NEW j \in Jobs PROVE Recorded(j)
    BY <2>1, <2>2, <2>3 DEF Recorded
  <2>4. QED
    BY <2>3, HistoryIsRecorded
<1>2. Typed /\ HistoryCountsConfigs /\ [Next]_vars => HistoryCountsConfigs'
  BY HistoryStep
<1>3. QED
  BY <1>1, <1>2, TypedInductive, PTL DEF Spec


(***************************************************************************)
(* The abstract assignment.  Its variables depend on four columns of the   *)
(* jobs and three of the configs.                                          *)
(***************************************************************************)
Looks(t) == \A i \in Jobs : /\ job'[i].row = t[i].row /\ job'[i].miner = t[i].miner
                            /\ job'[i].inst = t[i].inst /\ job'[i].finished = t[i].finished

SameCard(c) == /\ config'[c].row = config[c].row /\ config'[c].job = config[c].job
               /\ config'[c].failed = config[c].failed

SameCards == \A c \in Configs : SameCard(c)

SlotStep == [Slots!Next]_(Slots!slots)

\* A config that was not issued has not failed, and a job that was not created
\* has no miner.
Fresh == /\ \A c \in Configs : config[c].row \in {"unused", "requested"} => ~config[c].failed
         /\ \A j \in Jobs : job[j].row = "unused" => job[j].miner = NoMiner

SameSlot(i) == /\ Phase(i)' = Phase(i) /\ job'[i].inst = job[i].inst
               /\ job'[i].finished = job[i].finished

LEMMA SameRowSameSlot ==
    ASSUME NEW i \in Jobs, job'[i].row = job[i].row, job'[i].miner = job[i].miner,
           job'[i].inst = job[i].inst, job'[i].finished = job[i].finished
    PROVE  SameSlot(i)
  BY DEF SameSlot, Phase

LEMMA SameCardsSameTickets ==
    ASSUME SameCards PROVE (\A c \in Configs : Ticket(c)' = Ticket(c)) /\ Spent' = Spent
  BY DEF SameCards, SameCard, Ticket, Spent

\* Nothing that the abstraction shows has changed.
LEMMA SlotsStutter == ASSUME Looks(job), SameCards PROVE SlotStep
  <1>1. \A i \in Jobs : SameSlot(i)
    BY SameRowSameSlot DEF Looks
  <1>2. UNCHANGED <<[j \in Jobs |-> Phase(j)], [j \in Jobs |-> job[j].inst],
                    {j \in Jobs : job[j].finished}>>
    BY <1>1 DEF SameSlot
  <1>3. UNCHANGED <<[c \in Configs |-> Ticket(c)], Spent>>
    BY SameCardsSameTickets
  <1>4. QED
    BY <1>2, <1>3 DEF SlotStep, Slots!slots

\* A stored job is put on offer, with the failure of some of its configs.
LEMMA SlotsGiveBack ==
    ASSUME NEW k \in Jobs, job[k].row = "row", Looks(ResetAssignment(k)), job \in JobTable,
           NEW failed \in SUBSET Configs, failed = {} \/ \E c \in Configs : failed = {c},
           \A c \in failed : Ticket(c) = k,
           \A c \in Configs : Ticket(c)' = Ticket(c), Spent' = Spent \cup failed
    PROVE  SlotStep
  <1>1. Phase(k) \in Slots!Open
    BY DEF Phase, Slots!Open
  <1>2. /\ job'[k].row = "row" /\ job'[k].miner = NoMiner /\ job'[k].inst = NoConfig
        /\ job'[k].finished = job[k].finished
    BY DEF Looks, ResetAssignment, JobTable, JobRecord
  <1>3. Phase(k)' = "offered"
    BY <1>2 DEF Phase
  <1>4. ASSUME NEW i \in Jobs \ {k} PROVE SameSlot(i)
    <2>1. ResetAssignment(k)[i] = job[i]
      BY <1>4 DEF ResetAssignment
    <2>2. QED
      BY <1>4, <2>1, SameRowSameSlot DEF Looks
  <1>5. Slots!GiveBack(k, failed)
    <2>1. [j \in Jobs |-> Phase(j)]' = [[j \in Jobs |-> Phase(j)] EXCEPT ![k] = "offered"]
      BY <1>3, <1>4 DEF SameSlot
    <2>2. [j \in Jobs |-> job[j].inst]' = [[j \in Jobs |-> job[j].inst] EXCEPT ![k] = NoConfig]
      BY <1>2, <1>4 DEF SameSlot
    <2>3. {j \in Jobs : job[j].finished}' = {j \in Jobs : job[j].finished}
      BY <1>2, <1>4 DEF SameSlot
    <2>4. [c \in Configs |-> Ticket(c)]' = [c \in Configs |-> Ticket(c)]
      OBVIOUS
    <2>5. \A c \in failed : [d \in Configs |-> Ticket(d)][c] = k
      OBVIOUS
    <2>6. [j \in Jobs |-> Phase(j)][k] \in Slots!Open
      BY <1>1
    <2>7. QED
      BY <2>1, <2>2, <2>3, <2>4, <2>5, <2>6 DEF Slots!GiveBack
  <1>6. QED
    BY <1>5 DEF SlotStep, Slots!Next



\* The trigger's update of a job, if the config has one.
LEMMA SlotsReset ==
    ASSUME AssignmentInv, NEW k, k \in Jobs => job[k].row = "row",
           Looks(ResetAssignment(k)), SameCards
    PROVE  SlotStep
  <1>1. CASE k \in Jobs
    <2>1. job \in JobTable /\ job[k].row = "row"
      BY <1>1, Tables DEF AssignmentInv, Typed
    <2>2. {} \in SUBSET Configs /\ Spent' = Spent \cup {} /\ \A c \in {} : Ticket(c) = k
      BY SameCardsSameTickets
    <2>3. \A c \in Configs : Ticket(c)' = Ticket(c)
      BY SameCardsSameTickets
    <2>4. QED
      BY ZenonT(60), <1>1, <2>1, <2>2, <2>3, SlotsGiveBack
  <1>2. CASE k \notin Jobs
    <2>1. Looks(job)
      BY <1>2 DEF Looks, ResetAssignment
    <2>2. QED
      BY <2>1, SlotsStutter
  <1>3. QED
    BY <1>1, <1>2

\* What the failure of a config writes.
LEMMA SlotsFail ==
    ASSUME AssignmentInv, NEW c \in Configs, config[c].row = "row",
           Looks(ResetAssignment(config[c].job)),
           config'[c].row = "row", config'[c].job = config[c].job, config'[c].failed,
           \A d \in Configs \ {c} : SameCard(d)
    PROVE  SlotStep
  <1>0. job \in JobTable /\ config[c].job \in Jobs \cup {NoJob} /\ config \in ConfigTable
    BY Tables DEF AssignmentInv, Typed, ConfigTable, ConfigRecord
  <1>1. CASE config[c].job \in Jobs
    <2>1. job[config[c].job].row = "row"
      BY <1>1 DEF AssignmentInv, StoredJob
    <2>2. Ticket(c) = config[c].job /\ \A d \in Configs : Ticket(d)' = Ticket(d)
      BY DEF Ticket, SameCard
    <2>3. Spent' = Spent \cup {c}
      BY DEF Spent, SameCard
    <2>4. {c} \in SUBSET Configs /\ \A d \in {c} : Ticket(d) = config[c].job
      BY <2>2
    <2>5. QED
      BY ZenonT(60), <1>0, <1>1, <2>1, <2>2, <2>3, <2>4, SlotsGiveBack
  <1>2. CASE config[c].job = NoJob
    <2>1. Looks(job)
      BY <1>2, NullAssumption DEF Looks, ResetAssignment
    <2>2. /\ c \in Spent /\ c \in Spent'
          /\ \A d \in Configs \ {c} : d \in Spent <=> d \in Spent'
      BY <1>2 DEF Spent, SameCard
    <2>3. Spent' = Spent /\ \A d \in Configs : Ticket(d)' = Ticket(d)
      BY <2>2 DEF Ticket, SameCard, Spent
    <2>4. \A i \in Jobs : SameSlot(i)
      BY <2>1, SameRowSameSlot DEF Looks
    <2>5. QED
      BY <2>3, <2>4 DEF SlotStep, SameSlot, Slots!slots
  <1>3. QED
    BY <1>0, <1>1, <1>2

\* A job loses its instance, ends, or both.
LEMMA SlotsLeave ==
    ASSUME NEW k \in Jobs, job[k].row = "row", SameCards,
           job'[k].row = "row", job'[k].miner = job[k].miner, job'[k].inst = NoConfig,
           job[k].finished => job'[k].finished, job'[k].finished \in BOOLEAN,
           \A i \in Jobs \ {k} : SameSlot(i)
    PROVE  SlotStep
  <1>1. /\ Phase(k) \in Slots!Open
        /\ Phase(k)' = IF Phase(k) = "held" THEN "left" ELSE Phase(k)
    BY DEF Phase, Slots!Open
  <1>2. Slots!Leave(k)
    <2>1. [j \in Jobs |-> Phase(j)]' =
              [[j \in Jobs |-> Phase(j)] EXCEPT ![k] = IF @ = "held" THEN "left" ELSE @]
      BY <1>1 DEF SameSlot
    <2>2. [j \in Jobs |-> job[j].inst]' = [[j \in Jobs |-> job[j].inst] EXCEPT ![k] = NoConfig]
      BY DEF SameSlot
    <2>3. {j \in Jobs : job[j].finished}' \in
              {{j \in Jobs : job[j].finished}, {j \in Jobs : job[j].finished} \cup {k}}
      <3>1. CASE job'[k].finished
        BY <3>1 DEF SameSlot
      <3>2. CASE ~job'[k].finished
        BY <3>2 DEF SameSlot
      <3>3. QED
        BY <3>1, <3>2
    <2>4. UNCHANGED <<[c \in Configs |-> Ticket(c)], Spent>>
      BY SameCardsSameTickets
    <2>5. [j \in Jobs |-> Phase(j)][k] \in Slots!Open
      BY <1>1
    <2>6. QED
      BY <2>1, <2>2, <2>3, <2>4, <2>5 DEF Slots!Leave
  <1>3. QED
    BY <1>2 DEF SlotStep, Slots!Next

LEMMA SlotsRemoval ==
    ASSUME AssignmentInv, NEW c \in Configs, Cleanup(c) \/ Purge(c) \/ DeleteInstance(c)
    PROVE  SlotStep
  <1> DEFINE ended == [j \in Jobs |-> [job[j] EXCEPT !.finished = @ \/ job[j].inst = c]]
  <1>0. job \in JobTable /\ ended \in JobTable
    BY Tables DEF AssignmentInv, Typed, JobTable, JobRecord
  <1>1. SameCards
    BY DEF Cleanup, Purge, DeleteInstance, SameCards, SameCard
  <1>2. PICK t \in JobTable : (t = job \/ t = ended) /\ job' = DetachInstance(t, c)
    BY <1>0 DEF Cleanup, Purge, DeleteInstance
  <1>3. \A i \in Jobs : /\ t[i].row = job[i].row /\ t[i].miner = job[i].miner /\ t[i].inst = job[i].inst
                        /\ job[i].inst # c => t[i].finished = job[i].finished
                        /\ job[i].finished => t[i].finished
    BY <1>0, <1>2 DEF JobTable, JobRecord
  <1>4. \A i \in Jobs : job[i].inst # c => /\ job'[i] = t[i]
    BY <1>2, <1>3 DEF DetachInstance
  <1>5. \A i \in Jobs : job[i].inst = c => /\ job'[i].row = t[i].row /\ job'[i].miner = t[i].miner
                                           /\ job'[i].inst = NoConfig /\ job'[i].finished = t[i].finished
    BY <1>2, <1>3 DEF DetachInstance, JobTable, JobRecord
  <1>6. CASE \A i \in Jobs : job[i].inst # c
    <2>1. Looks(job)
      BY <1>3, <1>4, <1>6 DEF Looks
    <2>2. QED
      BY <1>1, <2>1, SlotsStutter
  <1>7. ASSUME NEW k \in Jobs, job[k].inst = c PROVE SlotStep
    <2>1. c # NoConfig
      BY NullAssumption
    <2>2. job[k].row = "row"
      BY <1>7, <2>1 DEF AssignmentInv, AssignmentCoherent
    <2>3. \A i \in Jobs \ {k} : job[i].inst # c
      BY <1>7, <2>1, OneJob
    <2>4. \A i \in Jobs \ {k} : SameSlot(i)
      BY <1>3, <1>4, <2>3, SameRowSameSlot
    <2>5. t[k].finished \in BOOLEAN
      BY <1>2 DEF JobTable, JobRecord
    <2>6. QED
      BY <1>1, <1>3, <1>5, <1>7, <2>2, <2>4, <2>5, SlotsLeave
  <1>8. QED
    BY <1>6, <1>7



\* FailConfig and the flags it writes.
LEMMA SlotsFailConfig ==
    ASSUME AssignmentInv, NEW c \in Configs, NEW b, config[c].row = "row", FailConfig(c, b)
    PROVE  SlotStep
  <1>0. config \in ConfigTable
    BY Tables DEF AssignmentInv, Typed
  <1>1. config' = [config EXCEPT ![c].failed = TRUE, ![c].retrieved = b]
    BY DEF FailConfig
  <1>2. /\ config'[c].row = "row" /\ config'[c].job = config[c].job /\ config'[c].failed
        /\ \A d \in Configs \ {c} : SameCard(d)
    BY <1>0, <1>1 DEF ConfigTable, ConfigRecord, SameCard
  <1>3. Looks(ResetAssignment(config[c].job))
    BY DEF Looks, FailConfig
  <1>4. QED
    BY <1>2, <1>3, SlotsFail

\* The commit of a claim: its config takes its job.
LEMMA SlotsCommit ==
    ASSUME AssignmentInv, Reserved, NEW r \in Requests, ClaimCommit(r) PROVE SlotStep
  <1> DEFINE c == claim[r].config
             k == config[c].job
  <1>0. /\ job \in JobTable /\ config \in ConfigTable /\ c \in Configs
        /\ config[c].row = "row" /\ claim[r].pc = "locked"
    BY Tables DEF AssignmentInv, Typed, Busy, Held, ClaimCommit
  <1>1. config' = [config EXCEPT ![c].retrieved = TRUE]
    BY DEF ClaimCommit
  <1>2. SameCards
    BY <1>0, <1>1 DEF SameCards, SameCard, ConfigTable, ConfigRecord
  <1>3. k \in Jobs => job[k].row = "row"
    BY <1>0 DEF AssignmentInv, StoredJob
  <1>4. CASE k \notin Jobs
    BY <1>2, <1>4, SlotsStutter DEF ClaimCommit, Looks
  <1>5. CASE k \in Jobs /\ config[c].failed
    <2>1. Looks(ResetAssignment(k))
      BY <1>5 DEF ClaimCommit, Looks
    <2>2. QED
      BY <1>2, <1>3, <2>1, SlotsReset
  <1>6. ASSUME NEW j \in Jobs, j = k, NEW d \in Configs, d = c, ~config[d].failed PROVE SlotStep
    <2>1. job' = [job EXCEPT ![j].miner = config[d].miner, ![j].inst = d]
      BY <1>6 DEF ClaimCommit
    <2>2. job[j].miner = NoMiner /\ config[d].miner \in Miners /\ config[d].miner # NoMiner
      BY <1>0, <1>6, NullAssumption DEF Reserved, Owns, AssignmentInv, Typed, Drawn
    <2>3. /\ job'[j].row = "row" /\ job'[j].miner = config[d].miner /\ job'[j].inst = d
          /\ job'[j].finished = job[j].finished /\ \A i \in Jobs \ {j} : job'[i] = job[i]
      BY <1>0, <1>3, <1>6, <2>1 DEF JobTable, JobRecord
    <2>4. Phase(j) = "offered" /\ Phase(j)' = "held"
      BY <1>0, <1>3, <1>6, <2>2, <2>3, NullAssumption DEF Phase
    <2>5. \A i \in Jobs \ {j} : SameSlot(i)
      BY <2>3, SameRowSameSlot
    <2>6. \A i \in Jobs : job[i].inst # d
      BY <1>0, <1>6, JobInstance, NullAssumption DEF ClaimCommit
    <2>7. Ticket(d) = j /\ d \notin Spent
      BY <1>0, <1>6, NullAssumption DEF Ticket, Spent
    <2>8. Slots!Take(d, j)
      <3>1. [i \in Jobs |-> Phase(i)]' = [[i \in Jobs |-> Phase(i)] EXCEPT ![j] = "held"]
        BY <2>4, <2>5 DEF SameSlot
      <3>2. [i \in Jobs |-> job[i].inst]' = [[i \in Jobs |-> job[i].inst] EXCEPT ![j] = d]
        BY <2>3
      <3>3. {i \in Jobs : job[i].finished}' = {i \in Jobs : job[i].finished}
        BY <2>3
      <3>4. UNCHANGED <<[e \in Configs |-> Ticket(e)], Spent>>
        BY <1>2, SameCardsSameTickets
      <3>5. /\ [i \in Jobs |-> Phase(i)][j] = "offered" /\ [e \in Configs |-> Ticket(e)][d] = j
            /\ \A i \in Jobs : [h \in Jobs |-> job[h].inst][i] # d
        BY <2>4, <2>6, <2>7
      <3>6. QED
        BY <2>7, <3>1, <3>2, <3>3, <3>4, <3>5 DEF Slots!Take
    <2>9. QED
      BY <2>8 DEF SlotStep, Slots!Next
  <1>7. QED
    BY <1>0, <1>4, <1>5, <1>6

LEMMA SlotsClaim ==
    ASSUME AssignmentInv, Reserved, NEW r \in Requests, ClaimStep(r) PROVE SlotStep
  <1> DEFINE c == claim[r].config
  <1>0. /\ claim[r].pc # "idle" => c \in Configs
        /\ claim[r].pc \in {"checking", "locked"} => config[c].row = "row"
    BY DEF AssignmentInv, Typed, Busy, Held
  <1>1. CASE UNCHANGED <<job, config>>
    BY <1>1, SlotsStutter DEF Looks, SameCards, SameCard
  <1>2. CASE ClaimEnvFail(r) \/ ClaimJobTaken(r)
    BY <1>0, <1>2, SlotsFailConfig DEF ClaimEnvFail, ClaimJobTaken
  <1>3. CASE ClaimNodesRecord(r) /\ config[c].row = "row"
    BY <1>0, <1>3, SlotsFailConfig DEF ClaimNodesRecord
  <1>4. CASE ClaimStamp(r) /\ config[c].row = "row" /\ config[c].failed
    <2>1. Looks(ResetAssignment(config[c].job)) /\ SameCards
      BY <1>4 DEF ClaimStamp, Looks, SameCards, SameCard
    <2>2. c \in Configs
      BY <1>0, <1>4 DEF ClaimStamp
    <2>3. config[c].job \in Jobs => job[config[c].job].row = "row"
      BY <1>4, <2>2 DEF AssignmentInv, StoredJob
    <2>4. QED
      BY <2>1, <2>3, SlotsReset
  <1>5. QED
    BY <1>1, <1>2, <1>3, <1>4, SlotsCommit
       DEF ClaimStep, ClaimAcquire, ClaimJobWon, ClaimNodesBad, ClaimNodesRecord, ClaimStamp, ClaimAbort

LEMMA SlotsVerify ==
    ASSUME AssignmentInv, NEW c \in Configs, VerifyStart(c) \/ VerifyGone(c) \/ VerifyStep(c)
    PROVE  SlotStep
  <1>0. job \in JobTable /\ config \in ConfigTable /\ ResetAssignment(config[c].job) \in JobTable
    BY Tables, ResetType DEF AssignmentInv, Typed
  <1>1. CASE VerifyStart(c) \/ VerifyAbort(c)
    BY <1>1, SlotsStutter DEF VerifyStart, VerifyAbort, Looks, SameCards, SameCard
  <1>2. CASE VerifyGone(c)
    BY <1>2, SlotsFailConfig DEF VerifyGone
  <1>3. CASE VerifyFail(c)
    <2>1. config[c].row = "row" /\ config' = [config EXCEPT ![c].failed = TRUE]
      BY <1>3 DEF VerifyFail
    <2>2. /\ config'[c].row = "row" /\ config'[c].job = config[c].job /\ config'[c].failed
          /\ \A d \in Configs \ {c} : SameCard(d)
      BY <1>0, <2>1 DEF ConfigTable, ConfigRecord, SameCard
    <2>3. \A i \in Jobs : ResetAssignment(config[c].job)[i].inst # c
      <3>1. \A i \in Jobs : job[i].inst = c => config[c].job = i
        BY NullAssumption DEF AssignmentInv, AssignmentCoherent
      <3>2. ASSUME NEW i \in Jobs, i = config[c].job
            PROVE  ResetAssignment(config[c].job)[i].inst = NoConfig
        BY <1>0, <3>2 DEF ResetAssignment, JobTable, JobRecord
      <3>3. ASSUME NEW i \in Jobs, i # config[c].job
            PROVE  ResetAssignment(config[c].job)[i] = job[i]
        BY <3>3 DEF ResetAssignment
      <3>4. QED
        BY <3>1, <3>2, <3>3, NullAssumption
    <2>4. \A i \in Jobs : job'[i] = ResetAssignment(config[c].job)[i]
      BY <1>3, <2>3 DEF VerifyFail, DetachInstance
    <2>5. QED
      BY <2>1, <2>2, <2>4, SlotsFail DEF Looks
  <1>4. CASE VerifyOk(c)
    <2>1. config' = [config EXCEPT ![c].verified = TRUE, ![c].token = (put[c].job \in Jobs)]
      BY <1>4 DEF VerifyOk
    <2>2. SameCards
      BY <1>0, <2>1 DEF SameCards, SameCard, ConfigTable, ConfigRecord
    <2>3. PICK t \in JobTable :
            /\ t = IF config[c].failed THEN ResetAssignment(config[c].job) ELSE job
            /\ job' = t \/ job' = [t EXCEPT ![put[c].job].started = TRUE]
      BY <1>0, <1>4 DEF VerifyOk, StartJob
    <2>4. Looks(t)
      BY <2>3 DEF Looks, JobTable, JobRecord
    <2>5. config[c].job \in Jobs => job[config[c].job].row = "row"
      BY <1>4 DEF VerifyOk, AssignmentInv, StoredJob
    <2>6. QED
      BY <2>2, <2>3, <2>4, <2>5, SlotsStutter, SlotsReset
  <1>5. QED
    BY <1>1, <1>2, <1>3, <1>4 DEF VerifyStep



\* A job is created.
LEMMA SlotsCreate == ASSUME AssignmentInv, Fresh, NEW k \in Jobs, CreateJob(k) PROVE SlotStep
  <1>0. job \in JobTable
    BY Tables DEF AssignmentInv, Typed
  <1>1. SameCards
    BY DEF CreateJob, SameCards, SameCard
  <1>2. /\ job'[k].row = "row" /\ job'[k].miner = job[k].miner /\ job'[k].inst = job[k].inst
        /\ job'[k].finished = job[k].finished /\ \A i \in Jobs \ {k} : job'[i] = job[i]
    BY <1>0 DEF CreateJob, JobTable, JobRecord
  <1>3. Phase(k) = "none" /\ Phase(k)' = "offered"
    BY <1>2 DEF Fresh, CreateJob, Phase
  <1>4. \A i \in Jobs \ {k} : SameSlot(i)
    BY <1>2, SameRowSameSlot
  <1>5. Slots!Offer(k)
    <2>1. [j \in Jobs |-> Phase(j)]' = [[j \in Jobs |-> Phase(j)] EXCEPT ![k] = "offered"]
      BY <1>3, <1>4 DEF SameSlot
    <2>2. UNCHANGED <<[j \in Jobs |-> job[j].inst], {j \in Jobs : job[j].finished}>>
      BY <1>2
    <2>3. UNCHANGED <<[c \in Configs |-> Ticket(c)], Spent>>
      BY <1>1, SameCardsSameTickets
    <2>4. [j \in Jobs |-> Phase(j)][k] = "none"
      BY <1>3
    <2>5. QED
      BY <2>1, <2>2, <2>3, <2>4 DEF Slots!Offer
  <1>6. QED
    BY <1>5 DEF SlotStep, Slots!Next

\* It ends, or is given back.
LEMMA SlotsEnd ==
    ASSUME AssignmentInv, NEW k \in Jobs, FinishJob(k) \/ \E m \in Miners : ReleaseJob(m, k)
    PROVE  SlotStep
  <1>0. job \in JobTable
    BY Tables DEF AssignmentInv, Typed
  <1>1. SameCards
    BY DEF FinishJob, ReleaseJob, SameCards, SameCard
  <1>2. CASE FinishJob(k)
    <2>1. job[k].row = "row" /\ job' = [job EXCEPT ![k].finished = TRUE, ![k].inst = NoConfig]
      BY <1>2 DEF FinishJob
    <2>2. /\ job'[k].row = "row" /\ job'[k].miner = job[k].miner /\ job'[k].inst = NoConfig
          /\ job'[k].finished = TRUE /\ \A i \in Jobs \ {k} : job'[i] = job[i]
      BY <1>0, <2>1 DEF JobTable, JobRecord
    <2>3. QED
      BY <1>1, <2>1, <2>2, SameRowSameSlot, SlotsLeave
  <1>3. CASE \E m \in Miners : ReleaseJob(m, k)
    <2>1. job[k].row = "row" /\ Looks(ResetAssignment(k))
      BY <1>3 DEF ReleaseJob, Looks
    <2>2. QED
      BY <1>1, <2>1, SlotsReset
  <1>4. QED
    BY <1>2, <1>3

\* A job is deleted with its tickets.
LEMMA SlotsDelete == ASSUME AssignmentInv, NEW k \in Jobs, DeleteJob(k) PROVE SlotStep
  <1>0. job \in JobTable /\ config \in ConfigTable /\ job[k].row = "row" /\ NoJob \notin Jobs
    BY Tables, NullAssumption DEF AssignmentInv, Typed, DeleteJob
  <1>1. job' = [job EXCEPT ![k] = [@ EXCEPT !.row = "deleted", !.miner = NoMiner,
                                            !.inst = NoConfig, !.history = <<>>]]
    BY DEF DeleteJob
  <1>2. /\ job'[k].row = "deleted" /\ job'[k].inst = NoConfig /\ job'[k].finished = job[k].finished
        /\ \A i \in Jobs \ {k} : job'[i] = job[i]
    BY <1>0, <1>1 DEF JobTable, JobRecord
  <1>3. PICK kept : config' = [c \in Configs |->
            IF c \notin OwnConfigs(k) THEN config[c]
            ELSE [config[c] EXCEPT !.job = NoJob, !.row = IF c = kept THEN "row" ELSE "deleted"]]
    BY DEF DeleteJob
  <1>4. \A c \in OwnConfigs(k) : config'[c].job = NoJob /\ config'[c].row \in {"row", "deleted"}
    BY <1>0, <1>3 DEF ConfigTable, ConfigRecord, OwnConfigs
  <1>5. \A c \in Configs \ OwnConfigs(k) : config'[c] = config[c]
    BY <1>3
  <1>6. OwnConfigs(k) = {c \in Configs : Ticket(c) = k}
    BY <1>0 DEF OwnConfigs, Ticket
  <1>7. ASSUME NEW c \in Configs PROVE Ticket(c)' = IF Ticket(c) = k THEN NoJob ELSE Ticket(c)
    BY <1>4, <1>5, <1>6 DEF Ticket
  <1>8. Spent' = Spent \cup OwnConfigs(k)
    BY <1>4, <1>5 DEF Spent, OwnConfigs
  <1>9. Phase(k) \in Slots!Open /\ Phase(k)' = "gone" /\ \A i \in Jobs \ {k} : SameSlot(i)
    BY <1>0, <1>2, SameRowSameSlot DEF Phase, Slots!Open
  <1>10. Slots!Drop(k)
    <2>1. [j \in Jobs |-> Phase(j)]' = [[j \in Jobs |-> Phase(j)] EXCEPT ![k] = "gone"]
      BY <1>9 DEF SameSlot
    <2>2. [j \in Jobs |-> job[j].inst]' = [[j \in Jobs |-> job[j].inst] EXCEPT ![k] = NoConfig]
      BY <1>2
    <2>3. {j \in Jobs : job[j].finished}' = {j \in Jobs : job[j].finished}
      BY <1>2
    <2>4. [c \in Configs |-> Ticket(c)]' =
              [c \in Configs |-> IF [d \in Configs |-> Ticket(d)][c] = k THEN NoJob
                                 ELSE [d \in Configs |-> Ticket(d)][c]]
      BY <1>7
    <2>5. Spent' = Spent \cup {c \in Configs : [d \in Configs |-> Ticket(d)][c] = k}
      BY <1>6, <1>8
    <2>6. [j \in Jobs |-> Phase(j)][k] \in Slots!Open
      BY <1>9
    <2>7. QED
      BY <2>1, <2>2, <2>3, <2>4, <2>5, <2>6 DEF Slots!Drop
  <1>11. QED
    BY <1>10 DEF SlotStep, Slots!Next

\* A config is drawn, issued or refused.
LEMMA SlotsIssue ==
    ASSUME AssignmentInv, Fresh, NEW c \in Configs,
           \/ IssueConfig(c) \/ IssueRefused(c)
           \/ \E m \in Miners, j \in Jobs : RequestConfig(c, m, j)
    PROVE  SlotStep
  <1>0. job \in JobTable /\ config \in ConfigTable /\ ~config[c].failed
    BY Tables DEF AssignmentInv, Typed, Fresh, IssueConfig, IssueRefused, RequestConfig
  <1>1. CASE IssueRefused(c) \/ \E m \in Miners, j \in Jobs : RequestConfig(c, m, j)
    <2>1. /\ UNCHANGED job /\ \A d \in Configs \ {c} : config'[d] = config[d]
          /\ config[c].row \in {"unused", "requested"} /\ config'[c].row \in {"unused", "requested"}
          /\ ~config'[c].failed
      <3>1. CASE IssueRefused(c)
        BY <1>0, <3>1 DEF IssueRefused, Unused, ConfigTable
      <3>2. ASSUME NEW m \in Miners, NEW j \in Jobs, RequestConfig(c, m, j)
            PROVE  /\ UNCHANGED job /\ \A d \in Configs \ {c} : config'[d] = config[d]
                   /\ config[c].row = "unused" /\ config'[c].row = "requested"
                   /\ config'[c].failed = config[c].failed
        <4>1. /\ UNCHANGED job /\ config[c].row = "unused"
              /\ config' = [config EXCEPT ![c].row = "requested", ![c].miner = m, ![c].job = j]
          BY <3>2 DEF RequestConfig
        <4>2. \A d \in Configs \ {c} : config'[d] = config[d]
          BY <1>0, <4>1 DEF ConfigTable
        <4>3. config'[c].row = "requested"
          BY <1>0, <4>1 DEF ConfigTable, ConfigRecord
        <4>4. config'[c].failed = config[c].failed
          BY <1>0, <4>1 DEF ConfigTable, ConfigRecord
        <4>5. QED
          BY <4>1, <4>2, <4>3, <4>4
      <3>3. QED
        BY <1>0, <1>1, <3>1, <3>2
    <2>2. (\A d \in Configs : Ticket(d)' = Ticket(d)) /\ Spent' = Spent
      BY <1>0, <2>1 DEF Ticket, Spent
    <2>3. \A i \in Jobs : SameSlot(i)
      BY <2>1, SameRowSameSlot
    <2>4. QED
      BY <2>2, <2>3 DEF SlotStep, SameSlot, Slots!slots
  <1>2. ASSUME IssueConfig(c), NEW j \in Jobs, j = config[c].job PROVE SlotStep
    <2>1. /\ config' = [config EXCEPT ![c].row = "row"] /\ config[c].row = "requested"
          /\ job' = [job EXCEPT ![j].history = Append(@, config[c].miner)] /\ job[j].row = "row"
      BY <1>2 DEF IssueConfig, RecordAttempt
    <2>2. Looks(job)
      BY <1>0, <2>1 DEF Looks, JobTable, JobRecord
    <2>3. /\ config'[c].row = "row" /\ config'[c].job = j /\ ~config'[c].failed
          /\ \A d \in Configs \ {c} : config'[d] = config[d]
      BY <1>0, <1>2, <2>1 DEF ConfigTable, ConfigRecord
    <2>4. Ticket(c) = NoJob /\ Ticket(c)' = j /\ c \notin Spent /\ Spent' = Spent
      BY <1>0, <2>1, <2>3, NullAssumption DEF Ticket, Spent
    <2>5. \A d \in Configs \ {c} : Ticket(d)' = Ticket(d)
      BY <2>3 DEF Ticket
    <2>6. Phase(j) \in Slots!Open /\ \A i \in Jobs : SameSlot(i)
      BY <2>1, <2>2, SameRowSameSlot DEF Phase, Slots!Open, Looks
    <2>7. Slots!Issue(c, j)
      <3>1. [d \in Configs |-> Ticket(d)]' = [[d \in Configs |-> Ticket(d)] EXCEPT ![c] = j]
        BY <2>4, <2>5
      <3>2. UNCHANGED <<[i \in Jobs |-> Phase(i)], [i \in Jobs |-> job[i].inst],
                        {i \in Jobs : job[i].finished}>>
        BY <2>6 DEF SameSlot
      <3>3. [d \in Configs |-> Ticket(d)][c] = NoJob /\ [i \in Jobs |-> Phase(i)][j] \in Slots!Open
        BY <2>4, <2>6
      <3>4. QED
        BY <2>4, <3>1, <3>2, <3>3 DEF Slots!Issue
    <2>8. QED
      BY <2>7 DEF SlotStep, Slots!Next
  <1>3. IssueConfig(c) => config[c].job \in Jobs
    BY DEF IssueConfig, AssignmentInv, Typed, Drawn
  <1>4. QED
    BY <1>1, <1>2, <1>3



\* Every step but the creation of a job.
LEMMA SlotsOther ==
    ASSUME AssignmentInv, Reserved, Fresh, [Next]_vars, \A j \in Jobs : ~CreateJob(j)
    PROVE  SlotStep
  <1>1. ASSUME UNCHANGED <<job, config>> PROVE SlotStep
    BY <1>1, SlotsStutter DEF Looks, SameCards, SameCard
  <1>2. ASSUME NEW j \in Jobs, \/ CompleteJob(j) \/ TerminateJob(j) \/ DeleteJob(j)
                               \/ \E m \in Miners : ReleaseJob(m, j)
        PROVE  SlotStep
    BY <1>2, SlotsEnd, SlotsDelete DEF CompleteJob, TerminateJob
  <1>3. ASSUME NEW c \in Configs, \/ IssueConfig(c) \/ IssueRefused(c)
                                  \/ \E m \in Miners, j \in Jobs : RequestConfig(c, m, j)
        PROVE  SlotStep
    BY <1>3, SlotsIssue
  <1>4. ASSUME NEW c \in Configs, VerifyStart(c) \/ VerifyGone(c) \/ VerifyStep(c) PROVE SlotStep
    BY <1>4, SlotsVerify
  <1>5. ASSUME NEW c \in Configs, Activate(c) \/ Cleanup(c) \/ Purge(c) \/ DeleteInstance(c)
        PROVE  SlotStep
    BY <1>1, <1>5, SlotsRemoval DEF Activate
  <1>6. ASSUME NEW r \in Requests, ClaimStep(r) \/ \E c \in Configs : ClaimRead(r, c) PROVE SlotStep
    BY <1>1, <1>6, SlotsClaim DEF ClaimRead
  <1>7. QED
    BY <1>1, <1>2, <1>3, <1>4, <1>5, <1>6 DEF Next, vars

\* The abstraction shows which jobs were not created and which configs not issued.
LEMMA NoneStays ==
    ASSUME SlotStep, NEW j \in Jobs, job'[j].row = "unused" PROVE job[j].row = "unused"
  <1>1. Phase(j)' = "none"
    BY DEF Phase
  <1>2. Phase(j) = "none"
    <2> DEFINE p == [i \in Jobs |-> Phase(i)]
    <2>1. p'[j] = "none"
      BY <1>1
    <2>2. p' = p \/ \E k \in Jobs, v \in Slots!Open \cup {"gone"} : p' = [p EXCEPT ![k] = v]
      <3>1. CASE UNCHANGED Slots!slots
        BY <3>1 DEF Slots!slots
      <3>2. CASE \E k \in Jobs : Slots!Leave(k)
        BY <3>2 DEF Slots!Leave, Slots!Open
      <3>3. CASE \E k \in Jobs : Slots!Offer(k) \/ Slots!Drop(k) \/ \E f : Slots!GiveBack(k, f)
        BY <3>3 DEF Slots!Offer, Slots!Drop, Slots!GiveBack, Slots!Open
      <3>4. CASE \E k \in Jobs, c \in Configs : Slots!Issue(c, k) \/ Slots!Take(c, k)
        BY <3>4 DEF Slots!Issue, Slots!Take, Slots!Open
      <3>5. QED
        BY <3>1, <3>2, <3>3, <3>4 DEF SlotStep, Slots!Next
    <2>3. p[j] = "none"
      BY <2>1, <2>2 DEF Slots!Open
    <2>4. QED
      BY <2>3
  <1>3. QED
    BY <1>2 DEF Phase

\* A failure is recorded on a stored config, and no config becomes fresh again.
FreshConfigs == \A c \in Configs : config[c].row \in {"unused", "requested"} => ~config[c].failed

LEMMA FreshFails ==
    ASSUME TypeOK, FreshConfigs, NEW c \in Configs, NEW b, config[c].row = "row", FailConfig(c, b)
    PROVE  FreshConfigs'
  <1>1. config \in ConfigTable /\ config' = [config EXCEPT ![c].failed = TRUE, ![c].retrieved = b]
    BY Tables DEF FailConfig
  <1>2. config'[c].row = "row" /\ \A d \in Configs \ {c} : config'[d] = config[d]
    BY <1>1 DEF ConfigTable, ConfigRecord
  <1>3. QED
    BY <1>2 DEF FreshConfigs

LEMMA FreshConfigStep ==
    ASSUME AssignmentInv, FreshConfigs, [Next]_vars PROVE FreshConfigs'
  <1>0. TypeOK /\ Busy /\ Held /\ config \in ConfigTable
    BY Tables DEF AssignmentInv, Typed
  <1>1. ASSUME UNCHANGED config PROVE FreshConfigs'
    BY <1>1 DEF FreshConfigs
  <1>2. ASSUME NEW r \in Requests, ClaimStep(r) PROVE FreshConfigs'
    <2>1. CASE ClaimEnvFail(r) \/ ClaimJobTaken(r)
      BY <1>0, <2>1, FreshFails DEF ClaimEnvFail, ClaimJobTaken, Busy, Held
    <2>2. CASE ClaimNodesRecord(r) /\ config[claim[r].config].row = "row"
      BY <1>0, <2>2, FreshFails DEF ClaimNodesRecord, Busy
    <2>3. CASE ClaimCommit(r)
      BY <1>0, <2>3 DEF ClaimCommit, FreshConfigs, ConfigTable, ConfigRecord
    <2>4. QED
      BY <1>1, <1>2, <2>1, <2>2, <2>3
         DEF ClaimStep, ClaimAcquire, ClaimJobWon, ClaimNodesBad, ClaimNodesRecord, ClaimStamp,
             ClaimAbort
  <1>3. ASSUME NEW c \in Configs, VerifyStart(c) \/ VerifyGone(c) \/ VerifyStep(c) PROVE FreshConfigs'
    <2>1. CASE VerifyGone(c)
      BY <1>0, <2>1, FreshFails DEF VerifyGone
    <2>2. CASE VerifyFail(c)
      <3>1. config[c].row = "row" /\ config' = [config EXCEPT ![c].failed = TRUE]
        BY <2>2 DEF VerifyFail
      <3>2. config'[c].row = "row" /\ \A d \in Configs \ {c} : config'[d] = config[d]
        BY <1>0, <3>1 DEF ConfigTable, ConfigRecord
      <3>3. QED
        BY <3>2 DEF FreshConfigs
    <2>3. CASE VerifyOk(c)
      <3>1. config' = [config EXCEPT ![c].verified = TRUE, ![c].token = (put[c].job \in Jobs)]
        BY <2>3 DEF VerifyOk
      <3>2. \A d \in Configs : config'[d].row = config[d].row /\ config'[d].failed = config[d].failed
        BY <1>0, <3>1 DEF ConfigTable, ConfigRecord
      <3>3. QED
        BY <3>2 DEF FreshConfigs
    <2>4. QED
      BY <1>1, <1>3, <2>1, <2>2, <2>3 DEF VerifyStep, VerifyStart, VerifyAbort
  <1>4. ASSUME NEW c \in Configs, IssueConfig(c) \/ IssueRefused(c) PROVE FreshConfigs'
    BY <1>0, <1>4 DEF IssueConfig, IssueRefused, Unused, FreshConfigs, ConfigTable, ConfigRecord
  <1>5. ASSUME NEW c \in Configs, NEW m \in Miners, NEW j \in Jobs, RequestConfig(c, m, j)
        PROVE  FreshConfigs'
    <2>1. /\ config[c].row = "unused"
          /\ config' = [config EXCEPT ![c].row = "requested", ![c].miner = m, ![c].job = j]
      BY <1>5 DEF RequestConfig
    <2>2. \A d \in Configs \ {c} : config'[d] = config[d]
      BY <1>0, <2>1 DEF ConfigTable
    <2>3. config'[c].failed = config[c].failed
      BY <1>0, <2>1 DEF ConfigTable, ConfigRecord
    <2>4. QED
      BY <2>1, <2>2, <2>3 DEF FreshConfigs
  <1>6. ASSUME NEW j \in Jobs, DeleteJob(j) PROVE FreshConfigs'
    <2>1. PICK kept : config' = [c \in Configs |->
            IF c \notin OwnConfigs(j) THEN config[c]
            ELSE [config[c] EXCEPT !.job = NoJob, !.row = IF c = kept THEN "row" ELSE "deleted"]]
      BY <1>6 DEF DeleteJob
    <2>2. QED
      BY <1>0, <2>1 DEF FreshConfigs, ConfigTable, ConfigRecord
  <1>7. QED
    BY <1>1, <1>2, <1>3, <1>4, <1>5, <1>6
       DEF Next, vars, CreateJob, ClaimRead, Activate, Cleanup, Purge, DeleteInstance,
           CompleteJob, TerminateJob, FinishJob, ReleaseJob

LEMMA FreshStep == ASSUME AssignmentInv, Reserved, Fresh, [Next]_vars PROVE Fresh'
  <1>0. job \in JobTable
    BY Tables DEF AssignmentInv, Typed
  <1>1. FreshConfigs'
    BY FreshConfigStep DEF Fresh, FreshConfigs
  <1>2. ASSUME NEW j \in Jobs, job'[j].row = "unused" PROVE job'[j].miner = NoMiner
    <2>1. CASE \E k \in Jobs : CreateJob(k)
      <3>1. PICK k \in Jobs : job[k].row = "unused" /\ job' = [job EXCEPT ![k].row = "row"]
        BY <2>1 DEF CreateJob
      <3>2. j # k /\ job'[j] = job[j]
        BY <1>0, <1>2, <3>1 DEF JobTable, JobRecord
      <3>3. QED
        BY <1>2, <3>2 DEF Fresh
    <2>2. CASE \A k \in Jobs : ~CreateJob(k)
      <3>1. job[j].row = "unused" /\ job[j].miner = NoMiner
        BY <1>2, <2>2, SlotsOther, NoneStays DEF Fresh
      <3>2. CASE \A r \in Requests : ~ClaimCommit(r)
        BY <3>1, <3>2, MinerStep
      <3>3. ASSUME NEW r \in Requests, ClaimCommit(r) PROVE job'[j].miner = NoMiner
        <4>1. claim[r].config \in Configs /\ config[claim[r].config].row = "row"
          BY <3>3 DEF ClaimCommit, AssignmentInv, Typed, Busy, Held
        <4>2. config[claim[r].config].job # j
          BY <3>1, <4>1 DEF AssignmentInv, StoredJob
        <4>3. job'[j] = job[j]
          BY <1>0, <3>3, <4>2 DEF ClaimCommit, ResetAssignment, JobTable
        <4>4. QED
          BY <3>1, <4>3
      <3>4. QED
        BY <3>2, <3>3
    <2>3. QED
      BY <2>1, <2>2
  <1>3. QED
    BY <1>1, <1>2 DEF Fresh, FreshConfigs

LEMMA SlotsInit == Init => Slots!Init
  <1> SUFFICES ASSUME Init PROVE Slots!Init
    OBVIOUS
  <1>1. \A j \in Jobs : Phase(j) = "none" /\ job[j].inst = NoConfig /\ ~job[j].finished
    BY DEF Init, Phase
  <1>2. \A c \in Configs : Ticket(c) = NoJob /\ c \notin Spent
    BY DEF Init, Ticket, Spent, Unused
  <1>3. [j \in Jobs |-> Phase(j)] = [j \in Jobs |-> "none"]
        /\ [j \in Jobs |-> job[j].inst] = [j \in Jobs |-> NoConfig]
        /\ [c \in Configs |-> Ticket(c)] = [c \in Configs |-> NoJob]
    BY <1>1, <1>2
  <1>4. {j \in Jobs : job[j].finished} = {} /\ Spent = {}
    BY <1>1, <1>2 DEF Spent
  <1>5. QED
    BY <1>3, <1>4 DEF Slots!Init

\* JobClaim implements Assignment: of all the transactions of claims and
\* verifications, deletions, failures and the trigger, each that changes an
\* assignment is one step of one job, and takes it only with a config of its
\* own that was not spent, when the job was on offer.
THEOREM ImplementsAssignment == Spec => AssignedInTurn
<1>1. Init => Reserved /\ Fresh
  BY DEF Init, Reserved, Owns, Idle, Fresh, Unused
<1>2. AssignmentInv /\ Reserved /\ Fresh /\ [Next]_vars => (Reserved /\ Fresh)'
  BY ReservedStep, FreshStep
<1>3. AssignmentInv /\ Reserved /\ Fresh /\ [Next]_vars => [Slots!Next]_(Slots!slots)
  BY SlotsCreate, SlotsOther DEF SlotStep
<1>4. QED
  BY <1>1, <1>2, <1>3, SlotsInit, AssignmentInductive, PTL DEF Spec, AssignedInTurn, Slots!Spec

=============================================================================
