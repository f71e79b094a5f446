-------------------------- MODULE WatchtowerProofs --------------------------
(***************************************************************************)
(* Proofs about Watchtower: whom its rounds may purge, for any number of   *)
(* instances, of miners and of deployments.                                *)
(***************************************************************************)
EXTENDS Watchtower, TLAPS

\* A round in progress; how often an instance is in soft_failed does not matter.
RoundRecord == [phase : Phases, version : ChuteVersions, first : SUBSET Instances,
                again : SUBSET Instances, left : SUBSET Instances, list : BOOLEAN,
                soft : [Instances -> Nat], failed : SUBSET Instances, files : BOOLEAN,
                overtaken : BOOLEAN]
ServedRecord == [stage : {"new", "up", "gone"}, version : ChuteVersions]

WatchTypes == /\ deployed \in [version : ChuteVersions, rolling : BOOLEAN]
              /\ served \in [Instances -> ServedRecord]
              /\ memory \in [Instances -> Memory]
              /\ round \in RoundRecord

\* The process of the model server that a sound instance shows in every dump.
ItsPid == CHOOSE p \in Pids : TRUE

\* What is remembered of a sound instance will be found in it again.
Remembered == \A i \in Sound : memory[i].pid \in {NoPid, ItsPid}

\* An instance that appears during a round has not been judged by it.
Unjudged == \A i \in Instances : served[i].stage = "new" =>
                i \notin round.first \cup round.again \cup round.left /\ round.soft[i] = 0

\* A round that no deployment overtook has loaded the chute as it is, and holds
\* nothing against a sound instance of that version.
Trusted == (round.phase # "idle" /\ ~round.overtaken) =>
               /\ round.version = deployed.version /\ ~deployed.rolling
               /\ \A i \in Sound : served[i].version = round.version =>
                      i \notin round.left /\ round.soft[i] = 0

WatchInv == WatchTypes /\ Remembered /\ Unjudged /\ Trusted

-----------------------------------------------------------------------------
LEMMA IdleRecord == Idle \in RoundRecord /\ Idle.phase = "idle"
  BY MaxVersionAssumption DEF Idle, RoundRecord, Phases, ChuteVersions

LEMMA WatchStart == WatchInit => WatchInv
  <1> SUFFICES ASSUME WatchInit PROVE WatchInv
    OBVIOUS
  <1>1. 0 \in ChuteVersions
    BY MaxVersionAssumption DEF ChuteVersions
  <1>2. WatchTypes
    BY <1>1, IdleRecord DEF WatchInit, WatchTypes, ServedRecord, Memory, Counts
  <1>3. Remembered
    BY InstancesAssumption DEF WatchInit, Remembered
  <1>4. Unjudged /\ Trusted
    BY DEF WatchInit, Unjudged, Trusted, Idle
  <1>5. QED
    BY <1>2, <1>3, <1>4 DEF WatchInv

LEMMA Fields ==
  ASSUME WatchTypes
  PROVE  /\ round.phase \in Phases /\ round.version \in ChuteVersions
         /\ round.first \in SUBSET Instances /\ round.again \in SUBSET Instances
         /\ round.left \in SUBSET Instances /\ round.list \in BOOLEAN
         /\ round.soft \in [Instances -> Nat] /\ round.failed \in SUBSET Instances
         /\ round.files \in BOOLEAN /\ round.overtaken \in BOOLEAN
         /\ Up \subseteq Instances
  BY DEF WatchTypes, RoundRecord, Up

\* The failures of a check are added to those that are there.
Extends(new, r, hard, soft) ==
    /\ new \in RoundRecord
    /\ new.left = r.left \cup hard
    /\ new.first = r.first /\ new.again = r.again
    /\ new.version = r.version /\ new.overtaken = r.overtaken
    /\ \A i \in Instances : i \notin soft => new.soft[i] = r.soft[i]

LEMMA FailsRecord ==
  ASSUME NEW r \in RoundRecord, NEW hard \in SUBSET Instances, NEW soft \in SUBSET Instances
  PROVE  Extends(Fails(r, hard, soft), r, hard, soft)
  <1> DEFINE counts == [i \in Instances |-> IF i \in soft THEN r.soft[i] + 1 ELSE r.soft[i]]
  <1>1. counts \in [Instances -> Nat] /\ \A i \in Instances : i \notin soft => counts[i] = r.soft[i]
    BY DEF RoundRecord
  <1>2. Fails(r, hard, soft) = [r EXCEPT !.soft = counts, !.left = r.left \cup hard,
                                         !.failed = r.failed \cup hard \cup soft]
    BY DEF Fails, RoundRecord
  <1> HIDE DEF counts
  <1>3. /\ r.left \cup hard \in SUBSET Instances
        /\ r.failed \cup hard \cup soft \in SUBSET Instances
    BY DEF RoundRecord
  <1>4. QED
    BY <1>1, <1>2, <1>3 DEF RoundRecord, Extends

-----------------------------------------------------------------------------
(* A step of the round: it may ask the instances that are up, and fail any   *)
(* of those it asked but the sound ones of its version.                      *)

Judges ==
    /\ round.phase # "idle"
    /\ round'.version = round.version /\ round'.overtaken = round.overtaken
    /\ \A i \in Instances : i \in round'.first \cup round'.again \cup round'.left \/ round'.soft[i] # 0
           => i \in round.first \cup round.again \cup round.left \cup Up \/ round.soft[i] # 0
    /\ \A i \in Sound : served[i].version = round.version =>
           (i \in round'.left => i \in round.left) /\ (round.soft[i] = 0 => round'.soft[i] = 0)

LEMMA JudgesFairly ==
  ASSUME WatchInv, Judges, round' \in RoundRecord, UNCHANGED deployed,
         memory' \in [Instances -> Memory], Remembered',
         served' \in [Instances -> ServedRecord],
         \A i \in Instances : /\ served'[i].version = served[i].version
                              /\ served'[i].stage = "new" => served[i].stage = "new"
  PROVE  WatchInv'
  <1>1. WatchTypes'
    BY DEF WatchInv, WatchTypes
  <1>2. Unjudged'
    BY DEF WatchInv, Unjudged, Judges, Up
  <1>3. Trusted'
    BY InstancesAssumption DEF WatchInv, Trusted, Judges
  <1>4. QED
    BY <1>1, <1>2, <1>3 DEF WatchInv

\* The same, of a step that leaves the instances and what is known of them.
LEMMA AsksFairly ==
  ASSUME WatchInv, Judges, round' \in RoundRecord, UNCHANGED <<deployed, served, memory>>
  PROVE  WatchInv'
  <1>1. Remembered' /\ memory' \in [Instances -> Memory] /\ served' \in [Instances -> ServedRecord]
    BY DEF WatchInv, WatchTypes, Remembered
  <1>2. QED
    BY <1>1, JudgesFairly

\* A round that is over, or another one, judges nobody.
LEMMA StartsAnew ==
  ASSUME WatchInv, round' \in RoundRecord, UNCHANGED <<deployed, served, memory>>,
         round'.first = {}, round'.again = {}, round'.left = {},
         \A i \in Instances : round'.soft[i] = 0,
         round'.phase # "idle" => round'.version = deployed.version /\ ~deployed.rolling
  PROVE  WatchInv'
  BY InstancesAssumption DEF WatchInv, WatchTypes, Remembered, Unjudged, Trusted

LEMMA PurgedTypes ==
  ASSUME WatchInv, NEW i \in Instances, Purged(i) \/ UNCHANGED served
  PROVE  /\ served' \in [Instances -> ServedRecord]
         /\ \A j \in Instances : /\ served'[j].version = served[j].version
                                 /\ served'[j].stage = "new" => served[j].stage = "new"
                                 /\ j # i => served'[j] = served[j]
  <1>1. served \in [Instances -> ServedRecord] /\ served[i] \in ServedRecord
    BY DEF WatchInv, WatchTypes
  <1>2. CASE Purged(i)
    <2> DEFINE stage == IF served[i].stage = "up" THEN "gone" ELSE served[i].stage
    <2>1. stage \in {"new", "up", "gone"} /\ (stage = "new" => served[i].stage = "new")
      BY <1>1 DEF ServedRecord
    <2>2. served' = [served EXCEPT ![i].stage = stage]
      BY <1>1, <1>2 DEF Purged
    <2> HIDE DEF stage
    <2> DEFINE new == [served[i] EXCEPT !.stage = stage]
    <2>3. new \in ServedRecord /\ new.stage = stage /\ new.version = served[i].version
      BY <1>1, <2>1 DEF ServedRecord
    <2>4. served' = [served EXCEPT ![i] = new]
      BY <1>1, <2>2
    <2> HIDE DEF new
    <2>5. QED
      BY <1>1, <2>1, <2>3, <2>4
  <1>3. QED
    BY <1>1, <1>2

-----------------------------------------------------------------------------
(* The steps of the round. *)

LEMMA LoadsFairly == ASSUME WatchInv, LoadsChute PROVE WatchInv'
  <1> DEFINE new == [Idle EXCEPT !.phase = "chute", !.version = deployed.version]
  <1>1. deployed.version \in ChuteVersions
    BY DEF WatchInv, WatchTypes
  <1>2. new \in RoundRecord /\ new.version = deployed.version
    BY <1>1, IdleRecord DEF RoundRecord, Phases
  <1>3. /\ new.first = {} /\ new.again = {} /\ new.left = {}
        /\ \A i \in Instances : new.soft[i] = 0
    BY DEF Idle
  <1>4. round' = new /\ ~deployed.rolling /\ UNCHANGED <<deployed, served, memory>>
    BY DEF LoadsChute, Checkable
  <1> HIDE DEF new
  <1>5. QED
    BY <1>2, <1>3, <1>4, StartsAnew

\* A sound instance shows the process it showed before, and the command of its version.
LEMMA DumpsFairly == ASSUME WatchInv, Dumps PROVE WatchInv'
  <1>1. PICK dump \in [Up -> Dump \cup {NoDump}] :
            /\ \A i \in Up : CanDump(i, dump[i])
            /\ memory' = [i \in Instances |->
                   IF i \in {j \in Up : dump[j] # NoDump} /\ memory[i].pid = NoPid
                   THEN [memory[i] EXCEPT !.pid = dump[i].sglang]
                   ELSE memory[i]]
            /\ round' = [round EXCEPT !.phase = "judge", !.first = Up,
                             !.left = {i \in {j \in Up : dump[j] # NoDump} : BadEnv(i, dump[i])}]
    BY DEF Dumps
  <1>2. /\ round.phase = "chute" /\ UNCHANGED <<deployed, served>> /\ Up \subseteq Instances
        /\ memory \in [Instances -> Memory] /\ round \in RoundRecord
    BY Fields DEF WatchInv, WatchTypes, Dumps
  <1> DEFINE left == {i \in {j \in Up : dump[j] # NoDump} : BadEnv(i, dump[i])}
  <1>3. ASSUME NEW i \in Up, dump[i] # NoDump
        PROVE  dump[i] \in Dump /\ dump[i].sglang \in Pids \cup {NoPid}
    BY <1>3 DEF Dump
  <1>4. ASSUME NEW i \in Sound, i \in Up, dump[i] # NoDump
        PROVE  /\ dump[i].sglang = ItsPid /\ dump[i].kubernetes
               /\ served[i].version = round.version => dump[i].command
    BY <1>1, <1>4 DEF CanDump, ItsPid
  <1>5. ItsPid \in Pids /\ ItsPid # NoPid
    BY PidAssumption DEF ItsPid
  <1>6. ASSUME NEW i \in Sound, served[i].version = round.version PROVE i \notin left
    <2>1. memory[i].pid \in {NoPid, ItsPid}
      BY DEF WatchInv, Remembered
    <2>2. QED
      BY <1>4, <1>5, <1>6, <2>1 DEF BadEnv, SglangOk
  <1>7. left \subseteq Up
    OBVIOUS
  <1>8. memory' \in [Instances -> Memory]
    <2>1. ASSUME NEW i \in Instances PROVE memory'[i] \in Memory
      <3>1. CASE i \in Up /\ dump[i] # NoDump /\ memory[i].pid = NoPid
        <4>1. memory'[i] = [memory[i] EXCEPT !.pid = dump[i].sglang]
          BY <1>1, <3>1
        <4>2. dump[i].sglang \in Pids \cup {NoPid} /\ memory[i] \in Memory
          BY <1>2, <1>3, <3>1
        <4>3. QED
          BY <4>1, <4>2 DEF Memory
      <3>2. CASE ~(i \in Up /\ dump[i] # NoDump /\ memory[i].pid = NoPid)
        BY <1>1, <1>2, <3>2
      <3>3. QED
        BY <3>1, <3>2
    <2>2. QED
      BY <1>1, <2>1
  <1>9. Remembered'
    <2>1. ASSUME NEW i \in Sound PROVE memory'[i].pid \in {NoPid, ItsPid}
      <3>1. i \in Instances /\ memory[i].pid \in {NoPid, ItsPid} /\ memory[i] \in Memory
        BY <1>2, InstancesAssumption DEF WatchInv, Remembered
      <3>2. CASE i \in Up /\ dump[i] # NoDump /\ memory[i].pid = NoPid
        <4>1. memory'[i] = [memory[i] EXCEPT !.pid = dump[i].sglang]
          BY <1>1, <3>1, <3>2
        <4>2. QED
          BY <1>4, <3>1, <3>2, <4>1 DEF Memory
      <3>3. CASE ~(i \in Up /\ dump[i] # NoDump /\ memory[i].pid = NoPid)
        BY <1>1, <3>1, <3>3
      <3>4. QED
        BY <3>2, <3>3
    <2>2. QED
      BY <2>1 DEF Remembered, ItsPid
  <1>10. round' = [round EXCEPT !.phase = "judge", !.first = Up, !.left = left]
    BY <1>1
  <1> HIDE DEF left
  <1>11. round' \in RoundRecord /\ Judges
    BY <1>2, <1>6, <1>7, <1>10 DEF RoundRecord, Phases, Judges
  <1>12. /\ served' \in [Instances -> ServedRecord]
         /\ \A i \in Instances : /\ served'[i].version = served[i].version
                                 /\ served'[i].stage = "new" => served[i].stage = "new"
    BY <1>2 DEF WatchInv, WatchTypes
  <1>13. QED
    BY <1>2, <1>8, <1>9, <1>11, <1>12, JudgesFairly

LEMMA PingsFairly == ASSUME WatchInv, Pings PROVE WatchInv'
  <1>1. PICK lost \in SUBSET (round.first \ Sound) :
            round' = [Fails(round, {}, lost) EXCEPT !.phase = "pings", !.first = @ \ lost]
    BY DEF Pings
  <1>2. /\ round.phase = "judge" /\ UNCHANGED <<deployed, served, memory>>
        /\ round \in RoundRecord /\ lost \in SUBSET Instances
    BY Fields DEF WatchInv, WatchTypes, Pings
  <1> DEFINE mid == Fails(round, {}, lost)
  <1>3. Extends(mid, round, {}, lost)
    BY <1>2, FailsRecord
  <1>4. round' = [mid EXCEPT !.phase = "pings", !.first = mid.first \ lost]
    BY <1>1, <1>3 DEF RoundRecord, Extends
  <1> HIDE DEF mid
  <1>5. round' \in RoundRecord /\ round'.soft = mid.soft /\ round'.left = round.left
        /\ round'.first \subseteq round.first /\ round'.again = round.again
        /\ round'.version = round.version /\ round'.overtaken = round.overtaken
    BY <1>3, <1>4 DEF RoundRecord, Phases, Extends
  <1>6. Judges
    BY <1>1, <1>2, <1>3, <1>5, InstancesAssumption DEF Judges, Extends
  <1>7. QED
    BY <1>2, <1>5, <1>6, AsksFairly

LEMMA CommandsFairly == ASSUME WatchInv, Commands PROVE WatchInv'
  <1>0. PICK raised \in SUBSET (round.first \ Sound) :
            \E other \in SUBSET (round.first \ raised) :
                /\ \A i \in round.first \ raised :
                       IF served[i].version # round.version THEN i \in other
                                                            ELSE i \in Sound => i \notin other
                /\ round' = [Fails(round, other, raised) EXCEPT
                                !.phase = "commands", !.first = @ \ (raised \cup other)]
    BY DEF Commands
  <1>1. PICK other \in SUBSET (round.first \ raised) :
            /\ \A i \in round.first \ raised :
                   IF served[i].version # round.version THEN i \in other
                                                        ELSE i \in Sound => i \notin other
            /\ round' = [Fails(round, other, raised) EXCEPT
                            !.phase = "commands", !.first = @ \ (raised \cup other)]
    BY <1>0
  <1>2. /\ round.phase = "pings" /\ UNCHANGED <<deployed, served, memory>>
        /\ round \in RoundRecord /\ raised \in SUBSET Instances /\ other \in SUBSET Instances
    BY Fields DEF WatchInv, WatchTypes, Commands
  <1> DEFINE mid == Fails(round, other, raised)
  <1>3. Extends(mid, round, other, raised)
    BY <1>2, FailsRecord
  <1>4. round' = [mid EXCEPT !.phase = "commands", !.first = mid.first \ (raised \cup other)]
    BY <1>1, <1>3 DEF RoundRecord, Extends
  <1> HIDE DEF mid
  <1>5. round' \in RoundRecord /\ round'.soft = mid.soft /\ round'.left = round.left \cup other
        /\ round'.first \subseteq round.first /\ round'.again = round.again
        /\ round'.version = round.version /\ round'.overtaken = round.overtaken
    BY <1>3, <1>4 DEF RoundRecord, Phases, Extends
  <1>6. \A i \in Sound : served[i].version = round.version => i \notin other /\ i \notin raised
    BY <1>1
  <1>7. Judges
    BY <1>1, <1>2, <1>3, <1>5, <1>6, InstancesAssumption DEF Judges, Extends
  <1>8. QED
    BY <1>2, <1>5, <1>7, AsksFairly

LEMMA ReloadsFairly == ASSUME WatchInv, Reloads PROVE WatchInv'
  <1>1. /\ round.phase = "commands" /\ UNCHANGED <<deployed, served, memory>>
        /\ round \in RoundRecord /\ Up \subseteq Instances
    BY Fields DEF WatchInv, WatchTypes, Reloads
  <1>2. \/ round' = [round EXCEPT !.phase = "hard"]
        \/ round' = [round EXCEPT !.phase = "index.json", !.again = Up, !.failed = {}]
    BY DEF Reloads
  <1>3. round' \in RoundRecord
    BY <1>1, <1>2 DEF RoundRecord, Phases
  <1>4. Judges
    BY <1>1, <1>2 DEF Judges, RoundRecord
  <1>5. QED
    BY <1>1, <1>3, <1>4, AsksFairly

\* A sound instance has the file of its version, and answers in time.
LEMMA ChecksRecord ==
  ASSUME WatchInv, NEW S \in SUBSET round.again, NEW ans \in [S -> Answers], NEW hf,
         NEW excused \in BOOLEAN, NEW next \in Phases,
         \A i \in S : CanAnswer(i, ans[i])
  PROVE  LET new == FileCheck(S, ans, hf, excused, next)
         IN  /\ new \in RoundRecord
             /\ new.first = round.first /\ new.again = round.again
             /\ new.version = round.version /\ new.overtaken = round.overtaken
             /\ new.left \subseteq round.left \cup S
             /\ \A i \in Instances : i \notin S => new.soft[i] = round.soft[i]
             /\ \A i \in Sound : served[i].version = round.version =>
                    /\ i \in new.left => i \in round.left
                    /\ new.soft[i] = round.soft[i]
  <1>1. round \in RoundRecord /\ S \subseteq Instances /\ round.left \in SUBSET Instances
    BY Fields DEF WatchInv, WatchTypes
  <1> DEFINE missing == {i \in S : ans[i].digest = "missing"}
             errors == {i \in S : ans[i].digest = "error"}
             wrong == {i \in S : ans[i].digest \in {"a", "b"} \ {hf}}
             slow == {i \in S : ans[i].slow} \ IF excused THEN wrong ELSE {}
             before == Fails(round, missing, errors \cup slow)
             left == IF round.list THEN round.left ELSE before.left
             list == before.list \/ (wrong # {} /\ ~Consensus(S, ans, wrong))
  <1>2. missing \in SUBSET Instances /\ errors \cup slow \in SUBSET Instances
    BY <1>1
  <1>3. ASSUME NEW i \in Sound, served[i].version = round.version
        PROVE  i \notin missing /\ i \notin errors \cup slow
    <2>1. CASE i \in S
      <3>1. ans[i] = [digest |-> "a", slow |-> FALSE]
        BY <1>3, <2>1 DEF CanAnswer
      <3>2. QED
        BY <3>1
    <2>2. CASE i \notin S
      BY <2>2
    <2>3. QED
      BY <2>1, <2>2
  <1>4. missing \subseteq S /\ errors \cup slow \subseteq S
    OBVIOUS
  <1>5. FileCheck(S, ans, hf, excused, next) =
            [before EXCEPT !.phase = next, !.left = left,
                           !.list = before.list \/ (wrong # {} /\ ~Consensus(S, ans, wrong))]
    <2>1. before \in RoundRecord
      BY <1>1, <1>2, FailsRecord DEF Extends
    <2>2. QED
      BY <2>1 DEF FileCheck, RoundRecord
  <1>6. Extends(before, round, missing, errors \cup slow)
    BY <1>1, <1>2, FailsRecord
  <1>7. list \in BOOLEAN
    OBVIOUS
  <1> HIDE DEF before, list, missing, errors, slow
  <1>8. left \in SUBSET Instances /\ left \subseteq round.left \cup missing
    BY <1>1, <1>2, <1>6 DEF Extends
  <1>9. QED
    BY <1>3, <1>4, <1>5, <1>6, <1>7, <1>8, InstancesAssumption DEF RoundRecord, Extends


LEMMA ChecksFairly ==
  ASSUME WatchInv, \/ ChecksFile("index.json", "config.json")
                   \/ ChecksFile("config.json", "weights")
                   \/ ChecksWeights
  PROVE  WatchInv'
  <1>1. /\ round.phase # "idle" /\ UNCHANGED <<deployed, served, memory>> /\ round \in RoundRecord
        /\ round.again \in SUBSET Instances
    BY Fields DEF WatchInv, WatchTypes, ChecksFile, ChecksWeights
  <1>2. ASSUME NEW next \in Phases, round' = [round EXCEPT !.phase = next] PROVE WatchInv'
    <2>1. round' \in RoundRecord /\ Judges
      BY <1>1, <1>2 DEF RoundRecord, Judges
    <2>2. QED
      BY <1>1, <2>1, AsksFairly
  <1>3. ASSUME NEW S \in SUBSET round.again, NEW ans \in [S -> Answers], NEW hf,
               NEW excused \in BOOLEAN, NEW next \in Phases, NEW files \in BOOLEAN,
               \A i \in S : CanAnswer(i, ans[i]),
               \/ round' = FileCheck(S, ans, hf, excused, next)
               \/ round' = [FileCheck(S, ans, hf, excused, next) EXCEPT !.files = files]
        PROVE  WatchInv'
    <2> DEFINE new == FileCheck(S, ans, hf, excused, next)
    <2>1. /\ new \in RoundRecord
          /\ new.first = round.first /\ new.again = round.again
          /\ new.version = round.version /\ new.overtaken = round.overtaken
          /\ new.left \subseteq round.left \cup S
          /\ \A i \in Instances : i \notin S => new.soft[i] = round.soft[i]
          /\ \A i \in Sound : served[i].version = round.version =>
                 /\ i \in new.left => i \in round.left
                 /\ new.soft[i] = round.soft[i]
      BY <1>3, ChecksRecord
    <2>2. round' = new \/ round' = [new EXCEPT !.files = files]
      BY <1>3
    <2> HIDE DEF new
    <2>3. /\ round' \in RoundRecord
          /\ round'.first = new.first /\ round'.again = new.again /\ round'.left = new.left
          /\ round'.version = new.version /\ round'.overtaken = new.overtaken
          /\ round'.soft = new.soft
      BY <2>1, <2>2 DEF RoundRecord
    <2>4. Judges
      BY <1>1, <2>1, <2>3 DEF Judges
    <2>5. QED
      BY <1>1, <2>3, <2>4, AsksFairly
  <1>4. ASSUME NEW file \in {"index.json", "config.json"}, NEW next \in {"config.json", "weights"},
               ChecksFile(file, next)
        PROVE  WatchInv'
    <2>1. CASE round' = [round EXCEPT !.phase = next]
      BY <1>2, <2>1 DEF Phases
    <2>2. ASSUME NEW ans \in [round.again -> Answers], NEW hf \in {"a", "c"},
                 \A i \in round.again : CanAnswer(i, ans[i]),
                 round' = [FileCheck(round.again, ans, hf, FALSE, next) EXCEPT
                              !.files = @ \/ file = "index.json"]
          PROVE  WatchInv'
      <3> DEFINE files == FileCheck(round.again, ans, hf, FALSE, next).files \/ file = "index.json"
      <3>1. next \in Phases /\ files \in BOOLEAN
        BY DEF Phases
      <3>2. FileCheck(round.again, ans, hf, FALSE, next) \in RoundRecord
        BY <2>2, <3>1, ChecksRecord
      <3>3. round' = [FileCheck(round.again, ans, hf, FALSE, next) EXCEPT !.files = files]
        BY <2>2, <3>2 DEF RoundRecord
      <3> HIDE DEF files
      <3>4. QED
        BY ZenonT(60), <1>3, <2>2, <3>1, <3>3
    <2>3. QED
      BY <1>4, <2>1, <2>2 DEF ChecksFile
  <1>5. CASE ChecksWeights
    <2> DEFINE left == round.again \ round.failed
    <2>1. CASE round' = [round EXCEPT !.phase = "hard"]
      BY <1>2, <2>1 DEF Phases
    <2>2. ASSUME NEW ans \in [left -> Answers], NEW hf \in {"a", "c"},
                 \A i \in left : CanAnswer(i, ans[i]), round' = FileCheck(left, ans, hf, TRUE, "hard")
          PROVE  WatchInv'
      BY <1>3, <2>2 DEF Phases
    <2>3. QED
      BY <1>5, <2>1, <2>2 DEF ChecksWeights
  <1>6. QED
    BY <1>4, <1>5

LEMMA PurgesFairly ==
  ASSUME WatchInv, NEW i \in Instances, PurgesBadEnv(i) \/ PurgesHard(i)
  PROVE  WatchInv'
  <1>1. /\ round.phase # "idle" /\ UNCHANGED <<deployed, memory>> /\ Purged(i)
        /\ round \in RoundRecord /\ memory' \in [Instances -> Memory] /\ Remembered'
    BY DEF WatchInv, WatchTypes, Remembered, PurgesBadEnv, PurgesHard
  <1>2. \/ round' = [round EXCEPT !.left = @ \ {i}, !.first = @ \ {i}]
        \/ round' = [round EXCEPT !.left = @ \ {i}]
    BY DEF PurgesBadEnv, PurgesHard
  <1>3. round' \in RoundRecord /\ Judges
    BY <1>1, <1>2 DEF RoundRecord, Judges
  <1>4. QED
    BY <1>1, <1>3, JudgesFairly, PurgedTypes

LEMMA CountsFairly == ASSUME WatchInv, NEW i \in Instances, CountsSoft(i) PROVE WatchInv'
  <1>1. /\ round.phase = "soft" /\ round.soft[i] > 0 /\ UNCHANGED deployed
        /\ Purged(i) \/ UNCHANGED served
        /\ round \in RoundRecord /\ round.soft \in [Instances -> Nat]
        /\ memory \in [Instances -> Memory]
    BY Fields DEF WatchInv, WatchTypes, CountsSoft
  <1>2. memory' \in [Instances -> Memory] /\ Remembered'
    <2> DEFINE fails == CountsOn(memory[i].fails)
               new == [memory[i] EXCEPT !.fails = fails]
    <2>1. memory[i] \in Memory /\ memory[i].fails \in Counts
      BY <1>1 DEF Memory
    <2>2. fails \in Counts
      BY <2>1 DEF CountsOn, Counts
    <2>3. memory' = [memory EXCEPT ![i] = new]
      BY <1>1 DEF CountsSoft
    <2> HIDE DEF fails
    <2>4. new \in Memory /\ new.pid = memory[i].pid
      BY <2>1, <2>2 DEF Memory
    <2> HIDE DEF new
    <2>5. memory' \in [Instances -> Memory] /\ \A j \in Instances : memory'[j].pid = memory[j].pid
      BY <1>1, <2>3, <2>4
    <2>6. QED
      BY <2>5, InstancesAssumption DEF WatchInv, Remembered, ItsPid
  <1>3. round' \in RoundRecord /\ Judges
    <2> DEFINE soft == [round.soft EXCEPT ![i] = round.soft[i] - 1]
    <2>1. soft \in [Instances -> Nat] /\ \A j \in Instances : soft[j] # 0 => round.soft[j] # 0
      BY <1>1
    <2>2. round' = [round EXCEPT !.soft = soft]
      BY <1>1 DEF CountsSoft, RoundRecord
    <2> HIDE DEF soft
    <2>3. round' \in RoundRecord /\ round'.soft = soft
      BY <1>1, <2>1, <2>2 DEF RoundRecord
    <2>4. QED
      BY <1>1, <2>1, <2>2, <2>3, InstancesAssumption DEF Judges, RoundRecord
  <1>4. QED
    BY <1>1, <1>2, <1>3, JudgesFairly, PurgedTypes

LEMMA EndsFairly ==
  ASSUME WatchInv, CountsStart \/ Finishes \/ DiesOfList \/ Dies
  PROVE  WatchInv'
  <1>1. round \in RoundRecord /\ UNCHANGED <<deployed, served, memory>>
    BY DEF WatchInv, WatchTypes, CountsStart, Finishes, DiesOfList, Dies
  <1>2. CASE CountsStart
    <2>1. round' \in RoundRecord /\ Judges
      BY <1>1, <1>2 DEF CountsStart, RoundRecord, Phases, Judges
    <2>2. QED
      BY <1>1, <2>1, AsksFairly
  <1>3. CASE round' = Idle
    <2>1. /\ Idle.first = {} /\ Idle.again = {} /\ Idle.left = {}
          /\ \A i \in Instances : Idle.soft[i] = 0
      BY DEF Idle
    <2>2. QED
      BY <1>1, <1>3, <2>1, IdleRecord, StartsAnew
  <1>4. QED
    BY <1>2, <1>3 DEF Finishes, DiesOfList, Dies

-----------------------------------------------------------------------------
(* The steps of the others. *)

LEMMA AppearsFairly == ASSUME WatchInv, NEW i \in Instances, Appears(i) PROVE WatchInv'
  <1>1. /\ served[i].stage = "new" /\ UNCHANGED <<deployed, memory, round>>
        /\ deployed.version \in ChuteVersions /\ served \in [Instances -> ServedRecord]
        /\ served' = [served EXCEPT ![i] = [stage |-> "up", version |-> deployed.version]]
    BY DEF WatchInv, WatchTypes, Appears
  <1>2. served' \in [Instances -> ServedRecord] /\ served'[i].stage = "up"
        /\ \A j \in Instances \ {i} : served'[j] = served[j]
    BY <1>1 DEF ServedRecord
  <1>3. i \notin round.left /\ round.soft[i] = 0
    BY <1>1 DEF WatchInv, Unjudged
  <1>4. WatchTypes' /\ Remembered'
    BY <1>1, <1>2 DEF WatchInv, WatchTypes, Remembered, ItsPid
  <1>5. Unjudged'
    BY <1>1, <1>2 DEF WatchInv, Unjudged
  <1>6. Trusted'
    BY <1>1, <1>2, <1>3, InstancesAssumption DEF WatchInv, Trusted
  <1>7. QED
    BY <1>4, <1>5, <1>6 DEF WatchInv

LEMMA DeploysFairly == ASSUME WatchInv, Deploys \/ UpdateEnds PROVE WatchInv'
  <1>1. /\ deployed \in [version : ChuteVersions, rolling : BOOLEAN] /\ round \in RoundRecord
        /\ UNCHANGED <<served, memory>>
    BY DEF WatchInv, WatchTypes, Deploys, UpdateEnds
  <1>2. CASE Deploys
    <2>1. deployed.version + 1 \in ChuteVersions
      BY <1>1, <1>2, MaxVersionAssumption DEF Deploys, ChuteVersions
    <2>2. deployed' \in [version : ChuteVersions, rolling : BOOLEAN]
      BY <1>2, <2>1 DEF Deploys
    <2> DEFINE overtaken == round.phase # "idle"
    <2>3. overtaken \in BOOLEAN /\ round' = [round EXCEPT !.overtaken = overtaken]
      BY <1>2 DEF Deploys
    <2>4. round.phase = round'.phase /\ (round.phase # "idle" => round'.overtaken)
          /\ round' \in RoundRecord /\ round'.first = round.first /\ round'.again = round.again
          /\ round'.left = round.left /\ round'.soft = round.soft
      BY <1>1, <2>3 DEF RoundRecord
    <2>5. QED
      BY <1>1, <2>2, <2>4 DEF WatchInv, WatchTypes, Remembered, ItsPid, Unjudged, Trusted
  <1>3. CASE UpdateEnds
    <2>1. /\ deployed' \in [version : ChuteVersions, rolling : BOOLEAN] /\ UNCHANGED round
          /\ deployed'.version = deployed.version /\ ~deployed'.rolling
      BY <1>1, <1>3 DEF UpdateEnds
    <2>2. QED
      BY <1>1, <2>1 DEF WatchInv, WatchTypes, Remembered, ItsPid, Unjudged, Trusted
  <1>4. QED
    BY <1>2, <1>3

LEMMA OthersFairly ==
  ASSUME WatchInv, NEW i \in Instances, Breaks(i) \/ FailsExpire(i) \/ ProcsCheck(i)
  PROVE  WatchInv'
  <1>1. /\ UNCHANGED <<deployed, round>> /\ memory \in [Instances -> Memory]
        /\ Purged(i) \/ UNCHANGED served
    BY DEF WatchInv, WatchTypes, Breaks, FailsExpire, ProcsCheck
  <1>2. /\ memory' \in [Instances -> Memory]
        /\ \A j \in Instances : memory'[j].pid = memory[j].pid
    <2>1. CASE UNCHANGED memory
      BY <1>1, <2>1
    <2>2. CASE memory' = [memory EXCEPT ![i].fails = 0]
      BY <1>1, <2>2 DEF Memory, Counts
    <2>3. CASE memory' = [memory EXCEPT ![i].skip = TRUE]
      BY <1>1, <2>3 DEF Memory
    <2>4. QED
      BY <2>1, <2>2, <2>3 DEF Breaks, FailsExpire, ProcsCheck
  <1>3. Remembered'
    BY <1>2, InstancesAssumption DEF WatchInv, Remembered, ItsPid
  <1>4. /\ served' \in [Instances -> ServedRecord]
        /\ \A j \in Instances : /\ served'[j].version = served[j].version
                                /\ served'[j].stage = "new" => served[j].stage = "new"
    BY <1>1, PurgedTypes
  <1>5. QED
    BY <1>1, <1>2, <1>3, <1>4, InstancesAssumption
       DEF WatchInv, WatchTypes, Unjudged, Trusted

LEMMA WatchStep == WatchInv /\ [WatchNext]_watchVars => WatchInv'
  <1> SUFFICES ASSUME WatchInv, [WatchNext]_watchVars PROVE WatchInv'
    OBVIOUS
  <1>1. CASE UNCHANGED watchVars
    BY <1>1 DEF watchVars, WatchInv, WatchTypes, Remembered, ItsPid, Unjudged, Trusted
  <1>2. CASE RoundNext
    BY <1>2, LoadsFairly, DumpsFairly, PingsFairly, CommandsFairly, ReloadsFairly, ChecksFairly,
       PurgesFairly, CountsFairly, EndsFairly DEF RoundNext
  <1>3. QED
    BY <1>1, <1>2, EndsFairly, DeploysFairly, AppearsFairly, OthersFairly DEF WatchNext

\* Whom a step purges, a check failed or procs_check did.
LEMMA PurgesTheFailed ==
  ASSUME [WatchNext]_watchVars, NEW i \in Sound, WatchPurges(i), WatchInv
  PROVE  round.phase # "idle" /\ (i \in round.left \/ round.soft[i] > 0)
  <1>1. i \in Instances /\ served \in [Instances -> ServedRecord] /\ served'[i] # served[i]
    BY InstancesAssumption DEF WatchPurges, WatchInv, WatchTypes
  <1>2. ASSUME NEW j \in Instances, Purged(j) PROVE j = i
    BY <1>1, <1>2 DEF Purged
  <1>3. CASE \E j \in Instances : PurgesBadEnv(j) \/ PurgesHard(j)
    BY <1>2, <1>3 DEF PurgesBadEnv, PurgesHard
  <1>4. CASE \E j \in Instances : CountsSoft(j)
    BY <1>1, <1>2, <1>4 DEF CountsSoft
  <1>5. CASE \E j \in Instances : ProcsCheck(j)
    BY <1>1, <1>2, <1>5 DEF ProcsCheck
  <1>6. CASE \E j \in Instances : Appears(j)
    <2>1. PICK j \in Instances : Appears(j)
      BY <1>6
    <2>2. served' = [served EXCEPT ![j] = [stage |-> "up", version |-> deployed.version]]
      BY <2>1 DEF Appears
    <2>3. served'[i] = served[i] \/ served'[i].stage = "up"
      BY <1>1, <2>2
    <2>4. QED
      BY <1>1, <2>3 DEF WatchPurges
  <1>7. QED
    BY <1>1, <1>3, <1>4, <1>5, <1>6
       DEF WatchNext, RoundNext, LoadsChute, Dumps, Pings, Commands, Reloads, ChecksFile,
           ChecksWeights, CountsStart, Finishes, DiesOfList, Dies, Deploys, UpdateEnds, Breaks,
           FailsExpire, watchVars

-----------------------------------------------------------------------------
\* check_chute, procs_check: an instance that always answers what its version should
\* is purged only by a round that a deployment overtook, or if a rolling update has
\* ended without it; whatever the others answer, and however rounds are cut short.
THEOREM SoundInstancesAreKept == WatchSpec => SoundKept
  <1>1. WatchInv /\ [WatchNext]_watchVars =>
            [\A i \in Sound : WatchPurges(i) =>
                \/ round.overtaken
                \/ served[i].version # deployed.version /\ ~deployed.rolling]_watchVars
    <2> SUFFICES ASSUME WatchInv, [WatchNext]_watchVars, NEW i \in Sound, WatchPurges(i),
                        ~round.overtaken
                 PROVE  served[i].version # deployed.version /\ ~deployed.rolling
      OBVIOUS
    <2>1. round.phase # "idle" /\ (i \in round.left \/ round.soft[i] > 0)
      BY PurgesTheFailed
    <2>2. QED
      BY <2>1 DEF WatchInv, Trusted
  <1>2. QED
    BY <1>1, WatchStart, WatchStep, PTL DEF WatchSpec, SoundKept

=============================================================================
