----------------------------- MODULE Watchtower -----------------------------
(***************************************************************************)
(* check_chute for one chute of the standard template vllm: the dumps, the *)
(* ping, the command and the weights of its instances are checked, hard    *)
(* failures are purged, soft failures counted and purged at the second.    *)
(* Beside it the loop procs_check, which purges on its own.                *)
(*                                                                         *)
(* What the instances answer to one pass is chosen in one step: nothing    *)
(* else is read between an answer and the end of the pass.  Each purge is  *)
(* a step.                                                                 *)
(***************************************************************************)
EXTENDS Naturals, FiniteSets

CONSTANTS Instances,
          InstanceMiner,    \* the miner of each
          Sound,            \* instances that always answer what their version should
          Pids,             \* process ids of the model server
          NoPid, NoDump,
          MaxVersion        \* bound: number of deployments

ASSUME InstancesAssumption == Sound \subseteq Instances /\ IsFiniteSet(Instances)
ASSUME PidAssumption == NoPid \notin Pids /\ Pids # {}
ASSUME MaxVersionAssumption == MaxVersion \in Nat

VARIABLES deployed,    \* chutes.version, and whether the chute has a rolling update
          served,      \* the instances, verified and active
          down,        \* those that will never answer again
          memory,      \* what redis and memcache remember of each
          round        \* check_chute in progress

watchVars == <<deployed, served, down, memory, round>>

ChuteVersions == 0 .. MaxVersion
Phases == {"idle", "chute", "judge", "pings", "commands", "index.json", "config.json",
           "weights", "hard", "soft"}
\* bound: ping, index.json and config.json count an instance three times.
Counts == 0 .. 3

\* first, again: the instances as loaded before the dumps and before the
\* weights.  left: to be purged.  hard, list: the instances in hard_failed, and
\* whether a list is among them.  soft: how often soft_failed holds each.
\* failed: the instances in hard or soft.  files: the weight map is known.
\* History: overtaken by a deployment.
Round == [phase : Phases, version : ChuteVersions, first : SUBSET Instances,
          again : SUBSET Instances, left : SUBSET Instances, list : BOOLEAN,
          soft : [Instances -> Counts], failed : SUBSET Instances, files : BOOLEAN,
          overtaken : BOOLEAN]
\* fails: watchtower:fail:{id}.  pid: sglangpid:{id}.  skip: procskip:{id}.
Memory == [fails : Counts, pid : Pids \cup {NoPid}, skip : BOOLEAN]

Idle == [phase |-> "idle", version |-> 0, first |-> {}, again |-> {}, left |-> {},
         list |-> FALSE, soft |-> [i \in Instances |-> 0], failed |-> {}, files |-> FALSE,
         overtaken |-> FALSE]

WatchInit ==
    /\ deployed = [version |-> 0, rolling |-> FALSE]
    /\ served = [i \in Instances |-> [stage |-> "new", version |-> 0]]
    /\ down = {}
    /\ memory = [i \in Instances |-> [fails |-> 0, pid |-> NoPid, skip |-> FALSE]]
    /\ round = Idle

Up == {i \in Instances : served[i].stage = "up"}
Purged(i) == served' = [served EXCEPT ![i].stage = IF @ = "up" THEN "gone" ELSE @]

-----------------------------------------------------------------------------
(* The instances and the chute. *)

\* Verified and activated, at the version the chute has.
Appears(i) ==
    /\ served[i].stage = "new"
    /\ served' = [served EXCEPT ![i] = [stage |-> "up", version |-> deployed.version]]
    /\ UNCHANGED <<deployed, down, memory, round>>

Breaks(i) ==
    /\ i \in Up \ (Sound \cup down)
    /\ down' = down \cup {i}
    /\ UNCHANGED <<deployed, served, memory, round>>

\* A deployment with its rolling update (see Rollout), and the update's end.
Deploys ==
    /\ deployed.version < MaxVersion
    /\ deployed' = [version |-> deployed.version + 1, rolling |-> TRUE]
    /\ round' = [round EXCEPT !.overtaken = round.phase # "idle"]
    /\ UNCHANGED <<served, down, memory>>

UpdateEnds ==
    /\ deployed.rolling
    /\ deployed' = [deployed EXCEPT !.rolling = FALSE]
    /\ UNCHANGED <<served, down, memory, round>>

\* The hour of the soft failures is over.
FailsExpire(i) ==
    /\ memory[i].fails > 0
    /\ memory' = [memory EXCEPT ![i].fails = 0]
    /\ UNCHANGED <<deployed, served, down, round>>

-----------------------------------------------------------------------------
(* check_chute: the dumps. *)

\* Mutant: a rolling update is no reason to skip the chute.
AnyChute == TRUE
\* A chute with a rolling update is left alone.
Checkable == ~deployed.rolling

LoadsChute ==
    /\ round.phase = "idle"
    /\ Checkable
    /\ round' = [Idle EXCEPT !.phase = "chute", !.version = deployed.version]
    /\ UNCHANGED <<deployed, served, down, memory>>

\* What is_kubernetes_env, check_sglang and verify_expected_command look at.
Dump == [kubernetes : BOOLEAN, sglang : Pids \cup {NoPid}, command : BOOLEAN]

\* Failures of all kinds make the dump a missing one.
CanDump(i, d) ==
    /\ i \in down => d = NoDump
    /\ i \in Sound /\ d # NoDump => /\ d.kubernetes
                                    /\ d.sglang = CHOOSE p \in Pids : TRUE
                                    /\ served[i].version = round.version => d.command

\* A model server has to be there, and to be the one that was there before.
SglangOk(i, d) == d.sglang # NoPid /\ memory[i].pid \in {NoPid, d.sglang}

BadEnv(i, d) == \/ ~d.kubernetes
                \/ ~SglangOk(i, d)
                \/ ~d.command

\* The instances are loaded, their dumps fetched and judged, whatever was found
\* in them before; a dump that is missing is skipped.
Dumps ==
    /\ round.phase = "chute"
    /\ \E dump \in [Up -> Dump \cup {NoDump}] :
         LET here == {i \in Up : dump[i] # NoDump}
         IN  /\ \A i \in Up : CanDump(i, dump[i])
             /\ memory' = [i \in Instances |->
                    IF i \in here /\ memory[i].pid = NoPid
                    THEN [memory[i] EXCEPT !.pid = dump[i].sglang]
                    ELSE memory[i]]
             /\ round' = [round EXCEPT !.phase = "judge", !.first = Up,
                              !.left = {i \in here : BadEnv(i, dump[i])}]
    /\ UNCHANGED <<deployed, served, down>>

PurgesBadEnv(i) ==
    /\ round.phase = "judge"
    /\ i \in round.left
    /\ Purged(i)
    /\ round' = [round EXCEPT !.left = @ \ {i}, !.first = @ \ {i}]
    /\ UNCHANGED <<deployed, down, memory>>

-----------------------------------------------------------------------------
(* check_chute: ping and command. *)

\* soft is what soft_failed is extended by.
Fails(r, hard, soft) ==
    [r EXCEPT !.soft = [i \in Instances |-> IF i \in soft THEN @[i] + 1 ELSE @[i]],
              !.left = @ \cup hard,
              !.failed = @ \cup hard \cup soft]

\* Who fails the ping is not asked anything else, until the weights.
Pings ==
    /\ round.phase = "judge"
    /\ round.left = {}
    /\ \E lost \in SUBSET (round.first \ Sound) :
         /\ round.first \cap down \subseteq lost
         /\ round' = [Fails(round, {}, lost) EXCEPT !.phase = "pings", !.first = @ \ lost]
    /\ UNCHANGED <<deployed, served, down, memory>>

\* Another command line or other code than the chute's is a hard failure, a
\* request that raises is a soft one.
Commands ==
    /\ round.phase = "pings"
    /\ \E raised \in SUBSET (round.first \ Sound) :
       \E other \in SUBSET (round.first \ raised) :
         /\ round.first \cap down \subseteq raised
         /\ \A i \in round.first \ raised :
              IF served[i].version # round.version THEN i \in other
                                                   ELSE i \in Sound => i \notin other
         /\ round' = [Fails(round, other, raised) EXCEPT
                          !.phase = "commands", !.first = @ \ (raised \cup other)]
    /\ UNCHANGED <<deployed, served, down, memory>>

-----------------------------------------------------------------------------
(* check_chute: weights. *)

\* check_llm_weights loads the instances of the chute once more: those that have
\* failed, and those that have appeared since, are among them.
Reloads ==
    /\ round.phase = "commands"
    /\ round' = IF round.first = {} \/ Up = {}
                THEN [round EXCEPT !.phase = "hard"]
                ELSE [round EXCEPT !.phase = "index.json", !.again = Up, !.failed = {}]
    /\ UNCHANGED <<deployed, served, down, memory>>

\* do_slurp: a digest and whether it took too long, a 404, or an exception.
Answers == [digest : {"a", "b"}, slow : BOOLEAN]
           \cup [digest : {"missing", "error"}, slow : {FALSE}]

\* The revision of another version may not be there.
CanAnswer(i, a) ==
    /\ i \in down => a.digest = "error"
    /\ i \in Sound => \/ a = [digest |-> "a", slow |-> FALSE]
                      \/ a.digest = "missing" /\ served[i].version # round.version

\* Everybody who answered has one digest, and they are two miners at least.
Consensus(S, ans, wrong) ==
    /\ Cardinality({ans[i].digest : i \in S} \cap {"a", "b"}) = 1
    /\ Cardinality({InstanceMiner[i] : i \in wrong}) >= 2

\* hf is huggingface's digest, "c" is nobody's.  The list of the incorrect is
\* appended to hard_failed as one element: what is appended after it will not
\* be reached.  (`remaining` compares instances with a list, and is never empty.)
\* An answer that is late counts once more, unless a wrong one is excused.
FileCheck(S, ans, hf, excused, next) ==
    LET missing == {i \in S : ans[i].digest = "missing"}
        errors == {i \in S : ans[i].digest = "error"}
        wrong == {i \in S : ans[i].digest \in {"a", "b"} \ {hf}}
        slow == {i \in S : ans[i].slow} \ IF excused THEN wrong ELSE {}
        before == Fails(round, missing, errors \cup slow)
    IN  [before EXCEPT
            !.phase = next,
            !.left = IF round.list THEN round.left ELSE @,
            !.list = @ \/ (wrong # {} /\ ~Consensus(S, ans, wrong))]

\* get_hf_content may fail, and the file goes unchecked; without the index there
\* is no weight map.
ChecksFile(file, next) ==
    /\ round.phase = file
    /\ \/ round' = [round EXCEPT !.phase = next]
       \/ \E ans \in [round.again -> Answers], hf \in {"a", "c"} :
            /\ \A i \in round.again : CanAnswer(i, ans[i])
            /\ round' = [FileCheck(round.again, ans, hf, FALSE, next) EXCEPT
                            !.files = @ \/ file = "index.json"]
    /\ UNCHANGED <<deployed, served, down, memory>>

\* A part of one of the weight files, for those that have not failed so far; one
\* in the wrong is not excluded, as its list is not it.
ChecksWeights ==
    /\ round.phase = "weights"
    /\ LET left == round.again \ round.failed
       IN  IF ~round.files \/ left = {}
           THEN round' = [round EXCEPT !.phase = "hard"]
           ELSE \E ans \in [left -> Answers], hf \in {"a", "c"} :
                  /\ \A i \in left : CanAnswer(i, ans[i])
                  /\ round' = FileCheck(left, ans, hf, TRUE, "hard")
    /\ UNCHANGED <<deployed, served, down, memory>>

-----------------------------------------------------------------------------
(* check_chute: the end. *)

PurgesHard(i) ==
    /\ round.phase = "hard"
    /\ i \in round.left
    /\ Purged(i)
    /\ round' = [round EXCEPT !.left = @ \ {i}]
    /\ UNCHANGED <<deployed, down, memory>>

CountsStart ==
    /\ round.phase = "hard"
    /\ round.left = {}
    /\ ~round.list
    /\ round' = [round EXCEPT !.phase = "soft"]
    /\ UNCHANGED <<deployed, served, down, memory>>

\* Mutant: the key is set to zero each time.
CountsFromZero(n) == 1
\* The counter is not reset by success, only by its expiry.
CountsOn(n) == IF n = 3 THEN 3 ELSE n + 1

\* increment_soft_fail, for each time the instance is in the list.
CountsSoft(i) ==
    /\ round.phase = "soft"
    /\ round.soft[i] > 0
    /\ memory' = [memory EXCEPT ![i].fails = CountsOn(@)]
    /\ IF memory'[i].fails >= 2 THEN Purged(i) ELSE UNCHANGED served
    /\ round' = [round EXCEPT !.soft[i] = @ - 1]
    /\ UNCHANGED <<deployed, down>>

Counted == round.phase = "soft" /\ \A i \in Instances : round.soft[i] = 0

\* last_verified_at of the others is set, which nobody asks for.
Finishes ==
    /\ Counted
    /\ round' = Idle
    /\ UNCHANGED <<deployed, served, down, memory>>

\* A list has no instance_id: the exception goes through check_all_chutes and
\* main, and the watchtower is started again.
DiesOfList ==
    /\ round.phase = "hard"
    /\ round.left = {}
    /\ round.list
    /\ round' = Idle
    /\ UNCHANGED <<deployed, served, down, memory>>

\* The process is stopped, or fails at a request or a query.
Dies ==
    /\ round.phase # "idle"
    /\ ~Counted
    /\ round' = Idle
    /\ UNCHANGED <<deployed, served, down, memory>>

-----------------------------------------------------------------------------
(* procs_check. *)

\* A request that raises shows nothing; a good answer is remembered.
ProcsCheck(i) ==
    /\ i \in Up \ down
    /\ ~memory[i].skip
    /\ \/ /\ memory' = [memory EXCEPT ![i].skip = TRUE]
          /\ UNCHANGED served
       \/ /\ i \notin Sound
          /\ Purged(i)
          /\ UNCHANGED memory
    /\ UNCHANGED <<deployed, down, round>>

-----------------------------------------------------------------------------
RoundNext == \/ LoadsChute \/ Dumps \/ Pings \/ Commands \/ Reloads
             \/ ChecksFile("index.json", "config.json")
             \/ ChecksFile("config.json", "weights")
             \/ ChecksWeights \/ CountsStart \/ Finishes
             \/ \E i \in Instances : PurgesBadEnv(i) \/ PurgesHard(i) \/ CountsSoft(i)

WatchNext == \/ RoundNext \/ DiesOfList \/ Dies \/ Deploys \/ UpdateEnds
             \/ \E i \in Instances : Appears(i) \/ Breaks(i) \/ FailsExpire(i) \/ ProcsCheck(i)

WatchSpec == WatchInit /\ [][WatchNext]_watchVars

\* Rounds go on while the watchtower runs, and updates come to an end
\* (see Rollout); procs_check is owed nothing.
WatchFairSpec == WatchSpec /\ WF_watchVars(RoundNext \/ DiesOfList) /\ WF_watchVars(UpdateEnds)

-----------------------------------------------------------------------------
(* Properties. *)

WatchPurges(i) == served[i].stage = "up" /\ served'[i].stage = "gone"

\* An instance that answers as it should is not purged, whatever the others
\* answer or huggingface says, and while a rolling update of its chute goes on
\* an old one is left to it: check_chute skips such a chute.  The exceptions are
\* an update that has ended without the instance, and a deployment during the
\* round, which judges by the chute it loaded at its start.
SoundKept ==
    [][\A i \in Sound : WatchPurges(i) =>
          \/ round.overtaken
          \/ served[i].version # deployed.version /\ ~deployed.rolling]_watchVars

\* The counters expire, or a round is cut short.
Disturbed == \/ DiesOfList \/ Dies
             \/ \E i \in Instances : FailsExpire(i)

\* An instance that does not answer any more is removed in the end, whatever the
\* others do: every pass counts its failure.  Not so if for ever counters
\* expire between the rounds, or rounds die: a list in hard_failed, which one
\* instance with wrong weights is enough for, ends every round before the count.
DeadGoes ==
    <>[][~Disturbed]_watchVars => \A i \in Instances : (i \in down) ~> (i \notin Up)
=============================================================================
