--------------------------- MODULE RolloutProofs ---------------------------
(***************************************************************************)
(* Proofs about Rollout, for any number of miners, launches and updates,   *)
(* any versions and any target.                                            *)
(***************************************************************************)
EXTENDS Rollout, TLAPS

-----------------------------------------------------------------------------
(* Types. *)

LEMMA GoneRecord == Gone \in LaunchRecord /\ Gone.stage = "gone"
  BY DEF Gone, Unused, LaunchRecord, Versions

LEMMA DoneTask == Ended \in TaskRecord /\ Ended.pc = "done"
  BY DEF Ended, NoTask, TaskRecord, Versions

LEMMA DeployedVersion == ASSUME NEW u \in Updates PROVE NewVersion[u] \in Versions
  BY DEF Versions

\* What a purge does to the launches it is given.
LEMMA PurgeEffect ==
  ASSUME instances \in [Launches -> LaunchRecord], NEW S, Purge(S)
  PROVE  /\ instances' \in [Launches -> LaunchRecord]
         /\ \A i \in Launches : instances'[i] = IF i \in S \cap Rows THEN Gone ELSE instances[i]
  BY GoneRecord DEF Purge

LEMMA InitTypes == Init => TypeOK
  BY DEF Init, TypeOK, Unused, NewUpdate, NoTask, Idle, LaunchRecord, UpdateRecord, TaskRecord,
         Kind, Versions

LEMMA LaunchTypes ==
  ASSUME TypeOK, NEW i \in Launches, LaunchNext(i)
  PROVE  TypeOK'
  <1>1. UNCHANGED <<version, row, updates, tasks, cleaner>>
    BY DEF LaunchNext, ClaimChecks, ClaimFails, ClaimInserts, Activate, DeleteInstance
  <1>2. instances' \in [Launches -> LaunchRecord]
    <2>1. CASE ClaimChecks(i)
      BY <2>1 DEF ClaimChecks, TypeOK, LaunchRecord
    <2>2. CASE ClaimFails(i) \/ DeleteInstance(i)
      BY <2>2, GoneRecord DEF ClaimFails, DeleteInstance, TypeOK
    <2>3. CASE ClaimInserts(i) \/ Activate(i)
      BY <2>3 DEF ClaimInserts, Activate, ToStage, TypeOK, LaunchRecord
    <2>4. QED
      BY <2>1, <2>2, <2>3 DEF LaunchNext
  <1>3. QED
    BY <1>1, <1>2 DEF TypeOK

LEMMA RowInserted ==
  ASSUME TypeOK, NEW u \in Updates, NEW v \in Versions
  PROVE  /\ NewRow(u, v) \in RowRecord \cup {NoRow}
         /\ NewRow(u, v) # NoRow => NewRow(u, v).new = v /\ NewRow(u, v).by = u
  BY DEF NewRow, TypeOK, UpdateRecord, RowRecord

LEMMA CommittedTypes ==
  ASSUME TypeOK, NEW u \in Updates, NEW kind \in Kind, NEW S \in SUBSET Launches,
         NEW o \in BOOLEAN, Committed(u, kind, S, o)
  PROVE  updates' \in [Updates -> UpdateRecord]
  <1>1. updates[u].old \in Versions /\ FirstVersion \in Versions
    BY DEF TypeOK, UpdateRecord, Versions
  <1>2. [pc |-> "committed", kind |-> kind, permitted |-> {},
         old |-> IF kind = "lib" THEN updates[u].old ELSE FirstVersion,
         overtaken |-> o, doomed |-> S] \in UpdateRecord
    BY <1>1 DEF UpdateRecord
  <1>3. QED
    BY <1>2 DEF Committed, TypeOK

LEMMA UpdateTypes ==
  ASSUME TypeOK, NEW u \in Updates, UpdateNext(u)
  PROVE  TypeOK'
  <1>1. CASE DeployLoads(u) \/ LibLoads(u)
    <2>1. Hosts \subseteq Miners
      BY HotkeyAssumption DEF Hosts, Rows
    <2>2. UNCHANGED <<version, row, instances, tasks, cleaner>>
      BY <1>1 DEF DeployLoads, LibLoads
    <2>3. PICK kind \in Kind, miners \in SUBSET Miners : Loaded(u, kind, miners)
      BY <1>1, <2>1 DEF DeployLoads, LibLoads, Kind
    <2>4. [pc |-> "loaded", kind |-> kind, old |-> version, permitted |-> miners,
           overtaken |-> FALSE, doomed |-> {}] \in UpdateRecord
      BY DEF TypeOK, UpdateRecord
    <2>5. updates' \in [Updates -> UpdateRecord]
      BY <2>3, <2>4 DEF Loaded, TypeOK
    <2>6. QED
      BY <2>2, <2>5 DEF TypeOK
  <1>2. CASE DeployCommits(u)
    <2>1. row' \in RowRecord \cup {NoRow} /\ version' \in Versions
      BY <1>2, RowInserted, DeployedVersion DEF DeployCommits
    <2>2. PICK kind \in Kind, S \in SUBSET Launches : Committed(u, kind, S, FALSE)
      BY <1>2 DEF DeployCommits, Kind, Rows
    <2>3. updates' \in [Updates -> UpdateRecord]
      BY <2>2, CommittedTypes
    <2>4. QED
      BY <1>2, <2>1, <2>3 DEF DeployCommits, TypeOK
  <1>3. CASE LibCommits(u)
    <2>1. updates[u].old \in Versions
      BY DEF TypeOK, UpdateRecord
    <2>2. row' \in RowRecord \cup {NoRow}
      BY <1>3, <2>1, RowInserted DEF LibCommits
    <2>3. updates' \in [Updates -> UpdateRecord]
      BY <1>3, CommittedTypes DEF LibCommits, Kind
    <2>4. QED
      BY <1>3, <2>2, <2>3 DEF LibCommits, TypeOK
  <1>4. ASSUME Finished(u) PROVE updates' \in [Updates -> UpdateRecord]
    <2>1. updates[u].overtaken \in BOOLEAN /\ FirstVersion \in Versions
      BY DEF TypeOK, UpdateRecord, Versions
    <2>2. [pc |-> "done", kind |-> "none", permitted |-> {}, old |-> FirstVersion,
           overtaken |-> updates[u].overtaken, doomed |-> {}] \in UpdateRecord
      BY <2>1 DEF UpdateRecord, Kind
    <2>3. QED
      BY <1>4, <2>2 DEF Finished, TypeOK
  <1>5. CASE QueueTask(u)
    <2>1. updates[u].old \in Versions /\ version \in Versions
      BY DEF TypeOK, UpdateRecord
    <2>2. ASSUME NEW v \in Versions
          PROVE  [tasks EXCEPT ![u].pc = "queued", ![u].version = v] \in [Updates -> TaskRecord]
      BY DEF TypeOK, TaskRecord
    <2>3. tasks' \in [Updates -> TaskRecord]
      BY <1>5, <2>1, <2>2 DEF QueueTask
    <2>4. QED
      BY <1>4, <1>5, <2>3 DEF QueueTask, TypeOK
  <1>6. CASE ReplacePurges(u)
    BY <1>4, <1>6, PurgeEffect DEF ReplacePurges, TypeOK
  <1>7. CASE UpdateDies(u)
    BY <1>4, <1>7 DEF UpdateDies, TypeOK
  <1>8. QED
    BY <1>1, <1>2, <1>3, <1>5, <1>6, <1>7 DEF UpdateNext

LEMMA TaskTypes ==
  ASSUME TypeOK, NEW u \in Updates, TaskNext(u)
  PROVE  TypeOK'
  <1>1. CASE TaskStarts(u) \/ TaskReads(u) \/ TaskDies(u) \/ \E i \in Launches : TaskVisits(u, i)
    <2>1. UNCHANGED <<version, row, instances, updates, cleaner>>
      BY <1>1 DEF TaskStarts, TaskReads, TaskDies, TaskVisits
    <2>2. \/ tasks' = [tasks EXCEPT ![u] = Ended]
          \/ tasks' = [tasks EXCEPT ![u].pc = "walk", ![u].left = Rows]
          \/ tasks' = [tasks EXCEPT ![u].pc = "purge", ![u].left = OldRows(tasks[u].version)]
          \/ \E i \in Launches : tasks' = [tasks EXCEPT ![u].left = @ \ {i}]
      BY <1>1 DEF TaskStarts, TaskReads, TaskDies, TaskVisits
    <2>3. Rows \subseteq Launches /\ OldRows(tasks[u].version) \subseteq Launches
      BY DEF Rows, OldRows
    <2>4. tasks' \in [Updates -> TaskRecord]
      <3>1. CASE tasks' = [tasks EXCEPT ![u] = Ended]
        BY <3>1, DoneTask DEF TypeOK
      <3>2. CASE tasks' = [tasks EXCEPT ![u].pc = "walk", ![u].left = Rows]
        BY <3>2, <2>3 DEF TypeOK, TaskRecord
      <3>3. CASE tasks' = [tasks EXCEPT ![u].pc = "purge", ![u].left = OldRows(tasks[u].version)]
        BY <3>3, <2>3 DEF TypeOK, TaskRecord
      <3>4. CASE \E i \in Launches : tasks' = [tasks EXCEPT ![u].left = @ \ {i}]
        BY <3>4 DEF TypeOK, TaskRecord
      <3>5. QED
        BY <2>2, <3>1, <3>2, <3>3, <3>4
    <2>5. QED
      BY <2>1, <2>4 DEF TypeOK
  <1>2. CASE TaskPurges(u)
    <2>1. tasks' \in [Updates -> TaskRecord]
      BY <1>2, DoneTask DEF TaskPurges, TypeOK
    <2>2. instances' \in [Launches -> LaunchRecord]
      BY <1>2, PurgeEffect DEF TaskPurges, TypeOK
    <2>3. QED
      BY <1>2, <2>1, <2>2 DEF TaskPurges, TypeOK
  <1>3. QED
    BY <1>1, <1>2 DEF TaskNext

LEMMA CleanerTypes ==
  ASSUME TypeOK, CleanerNext
  PROVE  TypeOK'
  <1>1. CASE \E i \in Launches : CleanerPurges(i)
    <2>1. PICK i \in Launches : CleanerPurges(i)
      BY <1>1
    <2>2. instances' \in [Launches -> LaunchRecord]
      BY <2>1, PurgeEffect DEF CleanerPurges, TypeOK
    <2>3. QED
      BY <2>1, <2>2 DEF CleanerPurges, TypeOK
  <1>2. CASE ~ \E i \in Launches : CleanerPurges(i)
    BY <1>2 DEF CleanerNext, CleanerDropsStale, CleanerFindsNoneStale, CleanerReads, CleanerSleeps,
                CleanerFails, Idle, OldRows, Rows, TypeOK
  <1>3. QED
    BY <1>1, <1>2

LEMMA NextTypes == TypeOK /\ [Next]_vars => TypeOK'
  <1> SUFFICES ASSUME TypeOK, [Next]_vars PROVE TypeOK'
    OBVIOUS
  <1>1. CASE UNCHANGED vars
    BY <1>1 DEF vars, TypeOK
  <1>2. CASE Next
    BY <1>2, LaunchTypes, UpdateTypes, TaskTypes, CleanerTypes DEF Next
  <1>3. QED
    BY <1>1, <1>2

\* The state of a fleet and of its rollouts keeps its form through every handler.
THEOREM TypeCorrect == Spec => []TypeOK
  <1>1. Init => TypeOK
    BY InitTypes
  <1>2. TypeOK /\ [Next]_vars => TypeOK'
    BY NextTypes
  <1>3. QED
    BY <1>1, <1>2, PTL DEF Spec

-----------------------------------------------------------------------------
(* What the steps change. *)

\* The launch has had its row: it can not get one again.
Born(i) == instances[i].stage \in {"pending", "active", "gone"}

\* A row appears only by the insert of a claim, and keeps its version.
LEMMA RowsAndVersions ==
  ASSUME TypeOK, [Next]_vars, NEW i \in Launches, Born(i)
  PROVE  /\ Born(i)'
         /\ i \in Rows' => i \in Rows /\ instances'[i].version = instances[i].version
  <1>1. CASE UNCHANGED instances
    BY <1>1 DEF Born, Rows
  <1>2. CASE \E S \in SUBSET Launches : Purge(S)
    BY <1>2, PurgeEffect, GoneRecord DEF Born, Rows, TypeOK
  <1>3. CASE \E j \in Launches : LaunchNext(j)
    <2>1. PICK j \in Launches : LaunchNext(j)
      BY <1>3
    <2>2. CASE ClaimChecks(j) \/ ClaimInserts(j)
      BY <2>2 DEF ClaimChecks, ClaimInserts, ToStage, Born, Rows, TypeOK, LaunchRecord
    <2>3. CASE Activate(j)
      BY <2>3 DEF Activate, ToStage, Born, Rows, TypeOK, LaunchRecord
    <2>4. CASE ClaimFails(j) \/ DeleteInstance(j)
      BY <2>4, GoneRecord DEF ClaimFails, DeleteInstance, Born, Rows, TypeOK
    <2>5. QED
      BY <2>1, <2>2, <2>3, <2>4 DEF LaunchNext
  <1>4. CASE \E u \in Updates : UpdateNext(u)
    <2>1. PICK u \in Updates : UpdateNext(u)
      BY <1>4
    <2>2. CASE ReplacePurges(u)
      <3>1. updates[u].doomed \in SUBSET Launches
        BY DEF TypeOK, UpdateRecord
      <3>2. QED
        BY <1>2, <2>2, <3>1 DEF ReplacePurges
    <2>3. CASE ~ReplacePurges(u)
      BY <1>1, <2>1, <2>3 DEF UpdateNext, DeployLoads, DeployCommits, LibLoads, LibCommits,
                              QueueTask, UpdateDies
    <2>4. QED
      BY <2>2, <2>3
  <1>5. CASE \E u \in Updates : TaskNext(u)
    <2>1. PICK u \in Updates : TaskNext(u)
      BY <1>5
    <2>2. CASE TaskPurges(u)
      <3>1. tasks[u].left \in SUBSET Launches
        BY DEF TypeOK, TaskRecord
      <3>2. QED
        BY <1>2, <2>2, <3>1 DEF TaskPurges
    <2>3. CASE ~TaskPurges(u)
      BY <1>1, <2>1, <2>3 DEF TaskNext, TaskStarts, TaskVisits, TaskReads, TaskDies
    <2>4. QED
      BY <2>2, <2>3
  <1>6. CASE CleanerNext
    BY <1>1, <1>2, <1>6 DEF CleanerNext, CleanerDropsStale, CleanerFindsNoneStale, CleanerReads,
                            CleanerSleeps, CleanerFails, CleanerPurges
  <1>7. CASE UNCHANGED vars
    BY <1>1, <1>7 DEF vars
  <1>8. QED
    BY <1>3, <1>4, <1>5, <1>6, <1>7 DEF Next

\* Only an upgrade's commit marks it as overtaken.
Unmarked == \A u \in Updates : updates[u].pc \in {"new", "loaded"} => ~updates[u].overtaken

HasCommitted(u) == updates[u].pc \in {"committed", "done"}
\* The versions the chute may have had.
Past == {FirstVersion} \cup {NewVersion[u] : u \in {x \in Updates : HasCommitted(x)}}

\* A step of one update, seen from the outside.
LEMMA UpdateEffect ==
  ASSUME TypeOK, Unmarked, NEW u \in Updates, UpdateNext(u)
  PROVE  /\ \A x \in Updates \ {u} : updates'[x] = updates[x]
         /\ updates[u].overtaken => updates'[u].overtaken
         /\ HasCommitted(u) => HasCommitted(u)'
         /\ updates'[u].pc \in {"new", "loaded"} => ~updates'[u].overtaken
  <1>1. CASE DeployLoads(u) \/ LibLoads(u)
    <2>1. \E kind, miners : Loaded(u, kind, miners)
      BY <1>1 DEF DeployLoads, LibLoads
    <2>2. updates[u].pc = "new"
      BY <1>1 DEF DeployLoads, LibLoads
    <2>3. QED
      BY <2>1, <2>2 DEF Loaded, HasCommitted, Unmarked, TypeOK
  <1>2. CASE DeployCommits(u) \/ LibCommits(u)
    <2>1. \E kind, S, o : Committed(u, kind, S, o)
      BY <1>2 DEF DeployCommits, LibCommits
    <2>2. updates[u].pc = "loaded"
      BY <1>2 DEF DeployCommits, LibCommits
    <2>3. QED
      BY <2>1, <2>2 DEF Committed, HasCommitted, Unmarked, TypeOK
  <1>3. CASE QueueTask(u) \/ ReplacePurges(u) \/ UpdateDies(u)
    <2>1. Finished(u)
      BY <1>3 DEF QueueTask, ReplacePurges, UpdateDies
    <2>2. QED
      BY <2>1 DEF Finished, HasCommitted, TypeOK
  <1>4. QED
    BY <1>1, <1>2, <1>3 DEF UpdateNext

LEMMA UpdatesOnlyGrow ==
  ASSUME TypeOK, Unmarked, [Next]_vars
  PROVE  /\ Unmarked'
         /\ Overtaken \subseteq Overtaken'
         /\ \A u \in Updates : HasCommitted(u) => HasCommitted(u)'
         /\ Past \subseteq Past'
  <1>1. CASE \E u \in Updates : UpdateNext(u)
    <2>1. PICK u \in Updates : UpdateNext(u)
      BY <1>1
    <2>2. /\ \A x \in Updates \ {u} : updates'[x] = updates[x]
          /\ updates[u].overtaken => updates'[u].overtaken
          /\ HasCommitted(u) => HasCommitted(u)'
          /\ updates'[u].pc \in {"new", "loaded"} => ~updates'[u].overtaken
      BY <2>1, UpdateEffect
    <2>3. QED
      BY <2>2 DEF Unmarked, Overtaken, HasCommitted, Past
  <1>2. CASE UNCHANGED updates
    BY <1>2 DEF Unmarked, Overtaken, HasCommitted, Past
  <1>3. CASE ~ \E u \in Updates : UpdateNext(u)
    <2>1. UNCHANGED updates
      BY <1>3 DEF Next, vars, LaunchNext, ClaimChecks, ClaimFails, ClaimInserts, Activate,
                  DeleteInstance, TaskNext, TaskStarts, TaskVisits, TaskReads, TaskPurges, TaskDies,
                  CleanerNext, CleanerDropsStale, CleanerFindsNoneStale, CleanerReads, CleanerSleeps,
                  CleanerFails, CleanerPurges
    <2>2. QED
      BY <1>2, <2>1
  <1>4. QED
    BY <1>1, <1>3

\* The version changes by the commit of a deployment; if the chute may have had
\* the new version before, it is one that returns.
LEMMA VersionChanges ==
  ASSUME TypeOK, [Next]_vars
  PROVE  \/ version' = version
         \/ version' \in Past => version' \in Returning
  <1>1. CASE \E u \in Updates : DeployCommits(u)
    <2>1. PICK u \in Updates : DeployCommits(u)
      BY <1>1
    <2>2. version' = NewVersion[u] /\ ~HasCommitted(u)
      BY <2>1 DEF DeployCommits, HasCommitted
    <2>3. QED
      BY <2>2 DEF Past, Returning
  <1>2. CASE ~ \E u \in Updates : DeployCommits(u)
    BY <1>2 DEF Next, vars, LaunchNext, ClaimChecks, ClaimFails, ClaimInserts, Activate,
                DeleteInstance, UpdateNext, DeployLoads, LibLoads, LibCommits, QueueTask,
                ReplacePurges, UpdateDies, TaskNext, TaskStarts, TaskVisits, TaskReads, TaskPurges,
                TaskDies, CleanerNext, CleanerDropsStale, CleanerFindsNoneStale, CleanerReads,
                CleanerSleeps, CleanerFails, CleanerPurges
  <1>3. QED
    BY <1>1, <1>2

-----------------------------------------------------------------------------
(* The row. *)

RowInv == TypeOK /\ Unmarked /\ RowNamesVersion

LEMMA RowStep == RowInv /\ [Next]_vars => RowInv'
  <1> SUFFICES ASSUME RowInv, [Next]_vars PROVE RowInv'
    OBVIOUS
  <1> USE DEF RowInv
  <1>1. TypeOK' /\ Unmarked' /\ Overtaken \subseteq Overtaken'
    BY NextTypes, UpdatesOnlyGrow
  <1>2. CASE \E u \in Updates : DeployCommits(u)
    <2>1. PICK u \in Updates : DeployCommits(u)
      BY <1>2
    <2>2. row' # NoRow => row'.new = version'
      BY <2>1, RowInserted, DeployedVersion DEF DeployCommits
    <2>3. QED
      BY <1>1, <2>2 DEF RowNamesVersion
  <1>3. CASE \E u \in Updates : LibCommits(u)
    <2>1. PICK u \in Updates : LibCommits(u)
      BY <1>3
    <2>2. updates[u].old \in Versions
      BY DEF TypeOK, UpdateRecord
    <2>3. row' # NoRow => row'.new = updates[u].old /\ row'.by = u
      BY <2>1, <2>2, RowInserted DEF LibCommits
    <2>4. version' = version /\ updates'[u].overtaken = (version # updates[u].old)
      BY <2>1 DEF LibCommits, Committed, TypeOK
    <2>5. QED
      BY <1>1, <2>3, <2>4 DEF RowNamesVersion, Overtaken
  <1>4. CASE ~ \E u \in Updates : DeployCommits(u) \/ LibCommits(u)
    <2>1. version' = version /\ (row' = row \/ row' = NoRow)
      BY <1>4 DEF Next, vars, LaunchNext, ClaimChecks, ClaimFails, ClaimInserts, Activate,
                  DeleteInstance, UpdateNext, DeployLoads, LibLoads, QueueTask, ReplacePurges,
                  UpdateDies, TaskNext, TaskStarts, TaskVisits, TaskReads, TaskPurges, TaskDies,
                  CleanerNext, CleanerDropsStale, CleanerFindsNoneStale, CleanerReads, CleanerSleeps,
                  CleanerFails, CleanerPurges
    <2>2. QED
      BY <1>1, <2>1 DEF RowNamesVersion
  <1>5. QED
    BY <1>2, <1>3, <1>4

\* The rolling_updates row announces the chute's version, or an upgrade that
\* inserted it was overtaken, for any number of updates at the same time.
THEOREM RowAnnouncesTheVersion == Spec => []RowNamesVersion
  <1>1. Init => RowInv
    BY InitTypes DEF Init, RowInv, Unmarked, NewUpdate, RowNamesVersion
  <1>2. RowInv /\ [Next]_vars => RowInv'
    BY RowStep
  <1>3. RowInv => RowNamesVersion
    BY DEF RowInv
  <1>4. QED
    BY <1>1, <1>2, <1>3, PTL DEF Spec

-----------------------------------------------------------------------------
(* What is condemned is old. *)

KnownVersions == /\ version \in Past
                 /\ \A i \in Launches : instances[i].version \in Past

\* Some handler, task or cleanup has decided to delete the instance.
Condemned(i) == \/ \E u \in Updates : i \in updates[u].doomed
                \/ \E u \in Updates : tasks[u].pc = "purge" /\ i \in tasks[u].left
                \/ i \in cleaner.left

Excused == version \in Returning \/ Overtaken # {}
OldOrExcused(i) == i \in Rows => instances[i].version # version \/ Excused
CondemnedAreOld == \A i \in Launches : Condemned(i) => Born(i) /\ OldOrExcused(i)

KeepInv == RowInv /\ KnownVersions /\ CondemnedAreOld

LEMMA KnownStep ==
  ASSUME TypeOK, Unmarked, KnownVersions, [Next]_vars
  PROVE  KnownVersions'
  <1>1. Past \subseteq Past'
    BY UpdatesOnlyGrow
  <1>2. FirstVersion \in Past
    BY DEF Past
  <1>3. version' \in Past'
    <2>1. CASE \E u \in Updates : DeployCommits(u)
      <3>1. PICK u \in Updates : DeployCommits(u)
        BY <2>1
      <3>2. version' = NewVersion[u] /\ HasCommitted(u)'
        BY <3>1 DEF DeployCommits, Committed, HasCommitted, TypeOK
      <3>3. QED
        BY <3>2 DEF Past
    <2>2. CASE ~ \E u \in Updates : DeployCommits(u)
      <3>1. version' = version
        BY <2>2 DEF Next, vars, LaunchNext, ClaimChecks, ClaimFails, ClaimInserts, Activate,
                    DeleteInstance, UpdateNext, DeployLoads, LibLoads, LibCommits, QueueTask,
                    ReplacePurges, UpdateDies, TaskNext, TaskStarts, TaskVisits, TaskReads,
                    TaskPurges, TaskDies, CleanerNext, CleanerDropsStale, CleanerFindsNoneStale,
                    CleanerReads, CleanerSleeps, CleanerFails, CleanerPurges
      <3>2. QED
        BY <1>1, <3>1 DEF KnownVersions
    <2>3. QED
      BY <2>1, <2>2
  <1>4. ASSUME NEW i \in Launches PROVE instances'[i].version \in Past'
    <2>1. instances'[i].version \in {instances[i].version, version, FirstVersion}
      <3>1. Gone.version = FirstVersion
        BY DEF Gone, Unused
      <3>2. CASE UNCHANGED instances
        BY <3>2
      <3>3. CASE \E S : Purge(S)
        BY <3>1, <3>3, PurgeEffect DEF TypeOK
      <3>4. CASE \E j \in Launches : LaunchNext(j)
        <4>1. PICK j \in Launches : LaunchNext(j)
          BY <3>4
        <4>2. CASE ClaimChecks(j)
          BY <4>2 DEF ClaimChecks, TypeOK, LaunchRecord
        <4>3. CASE ClaimInserts(j) \/ Activate(j)
          BY <4>3 DEF ClaimInserts, Activate, ToStage, TypeOK, LaunchRecord
        <4>4. CASE ClaimFails(j) \/ DeleteInstance(j)
          BY <3>1, <4>4 DEF ClaimFails, DeleteInstance, TypeOK
        <4>5. QED
          BY <4>1, <4>2, <4>3, <4>4 DEF LaunchNext
      <3>5. CASE ~ \E j \in Launches : LaunchNext(j)
        BY <3>2, <3>3, <3>5 DEF Next, vars, UpdateNext, DeployLoads, LibLoads, DeployCommits,
           LibCommits, QueueTask, ReplacePurges, UpdateDies, TaskNext, TaskStarts, TaskVisits,
           TaskReads, TaskPurges, TaskDies, CleanerNext, CleanerDropsStale, CleanerFindsNoneStale,
           CleanerReads, CleanerSleeps, CleanerFails, CleanerPurges
      <3>6. QED
        BY <3>4, <3>5
    <2>2. QED
      BY <1>1, <1>2, <2>1 DEF KnownVersions
  <1>5. QED
    BY <1>3, <1>4 DEF KnownVersions

\* An instance that is old stays old, or the version it has has returned.
LEMMA StaysOld ==
  ASSUME KeepInv, [Next]_vars, NEW i \in Launches, Born(i), OldOrExcused(i)
  PROVE  Born(i)' /\ OldOrExcused(i)'
  <1> USE DEF KeepInv, RowInv
  <1>1. /\ Born(i)'
        /\ i \in Rows' => i \in Rows /\ instances'[i].version = instances[i].version
    BY RowsAndVersions
  <1>2. Overtaken \subseteq Overtaken'
    BY UpdatesOnlyGrow
  <1>3. version' = version \/ (version' \in Past => version' \in Returning)
    BY VersionChanges
  <1>4. instances[i].version \in Past
    BY DEF KnownVersions
  <1>5. (version \in Returning /\ version' = version) => version' \in Returning
    OBVIOUS
  <1>6. CASE version' = version
    BY <1>1, <1>2, <1>6 DEF OldOrExcused, Excused, Returning
  <1>7. CASE version' # version
    BY <1>1, <1>3, <1>4, <1>7 DEF OldOrExcused, Excused, Returning
  <1>8. QED
    BY <1>6, <1>7

\* Whoever condemns an instance has found it old.
LEMMA NewlyCondemned ==
  ASSUME KeepInv, [Next]_vars, NEW i \in Launches, ~Condemned(i), Condemned(i)'
  PROVE  Born(i)' /\ OldOrExcused(i)'
  <1> USE DEF KeepInv, RowInv
  <1>1. CASE \E u \in Updates : DeployCommits(u)
    <2>1. PICK u \in Updates : DeployCommits(u)
      BY <1>1
    <2>2. UNCHANGED <<instances, tasks, cleaner>>
      BY <2>1 DEF DeployCommits
    <2>3. \A x \in Updates : updates'[x].doomed \subseteq updates[x].doomed \cup Rows
      BY <2>1 DEF DeployCommits, Committed, TypeOK
    <2>4. i \in Rows
      BY <2>2, <2>3 DEF Condemned
    <2>5. version' = NewVersion[u] /\ ~HasCommitted(u)
      BY <2>1 DEF DeployCommits, HasCommitted
    <2>6. instances[i].version = NewVersion[u] => NewVersion[u] \in Returning
      BY <2>5 DEF KnownVersions, Past, Returning
    <2>7. instances[i].version # version' \/ version' \in Returning
      BY <2>5, <2>6
    <2>8. QED
      BY <2>2, <2>4, <2>7 DEF Born, OldOrExcused, Excused, Rows, Returning
  <1>2. CASE \E u \in Updates : TaskReads(u)
    <2>1. PICK u \in Updates : TaskReads(u)
      BY <1>2
    <2>2. UNCHANGED <<version, row, instances, updates, cleaner>>
      BY <2>1 DEF TaskReads
    <2>3. /\ StillValid(u)
          /\ i \in OldRows(tasks[u].version)
      BY <2>1, <2>2 DEF TaskReads, Condemned, TypeOK, Ended, NoTask
    <2>4. row.new = version \/ Overtaken # {}
      BY <2>3 DEF StillValid, RowNamesVersion
    <2>5. i \in Rows /\ (instances[i].version # version \/ Overtaken # {})
      BY <2>3, <2>4 DEF StillValid, OldRows
    <2>6. QED
      BY <2>2, <2>5 DEF Born, OldOrExcused, Excused, Rows, Overtaken
  <1>3. CASE CleanerReads
    <2>1. UNCHANGED <<version, row, instances, updates, tasks>>
      BY <1>3 DEF CleanerReads
    <2>2. i \in OldRows(version)
      BY <1>3, <2>1 DEF CleanerReads, Condemned
    <2>3. QED
      BY <2>1, <2>2 DEF OldRows, Born, OldOrExcused, Rows
  <1>4. CASE ~ \/ \E u \in Updates : DeployCommits(u) \/ TaskReads(u)
               \/ CleanerReads
    <2>1. \A u \in Updates : updates'[u].doomed \subseteq updates[u].doomed
      <3>1. CASE \E u \in Updates : UpdateNext(u)
        <4>1. PICK u \in Updates : UpdateNext(u)
          BY <3>1
        <4>2. \/ \E kind, miners : Loaded(u, kind, miners)
              \/ \E kind, o : Committed(u, kind, {}, o)
              \/ Finished(u)
          BY <1>4, <4>1 DEF UpdateNext, DeployLoads, LibLoads, LibCommits, QueueTask, ReplacePurges,
                            UpdateDies
        <4>3. QED
          BY <4>2 DEF Loaded, Committed, Finished, TypeOK
      <3>2. CASE UNCHANGED updates
        BY <3>2
      <3>3. CASE ~ \E u \in Updates : UpdateNext(u)
        BY <3>2, <3>3 DEF Next, vars, LaunchNext, ClaimChecks, ClaimFails, ClaimInserts, Activate,
           DeleteInstance, TaskNext, TaskStarts, TaskVisits, TaskReads, TaskPurges, TaskDies,
           CleanerNext, CleanerDropsStale, CleanerFindsNoneStale, CleanerReads, CleanerSleeps,
           CleanerFails, CleanerPurges
      <3>4. QED
        BY <3>1, <3>3
    <2>2. \A u \in Updates : tasks'[u].pc = "purge" =>
              tasks[u].pc = "purge" /\ tasks'[u].left = tasks[u].left
      <3>1. CASE \E u \in Updates : TaskNext(u)
        <4>1. PICK u \in Updates : TaskNext(u)
          BY <3>1
        <4>2. CASE TaskStarts(u)
          BY <4>2, DoneTask DEF TaskStarts, TypeOK, TaskRecord
        <4>3. CASE \E j \in Launches : TaskVisits(u, j)
          BY <4>3, DoneTask DEF TaskVisits, TypeOK, TaskRecord
        <4>4. CASE TaskPurges(u) \/ TaskDies(u)
          BY <4>4, DoneTask DEF TaskPurges, TaskDies, TypeOK
        <4>5. QED
          BY <1>4, <4>1, <4>2, <4>3, <4>4 DEF TaskNext
      <3>2. CASE \E u \in Updates : QueueTask(u)
        BY <3>2 DEF QueueTask, TypeOK, TaskRecord
      <3>3. CASE UNCHANGED tasks
        BY <3>3
      <3>4. CASE ~ \E u \in Updates : TaskNext(u) \/ QueueTask(u)
        BY <3>3, <3>4 DEF Next, vars, LaunchNext, ClaimChecks, ClaimFails, ClaimInserts, Activate,
           DeleteInstance, UpdateNext, DeployLoads, DeployCommits, LibLoads, LibCommits,
           ReplacePurges, UpdateDies, CleanerNext, CleanerDropsStale, CleanerFindsNoneStale,
           CleanerReads, CleanerSleeps, CleanerFails, CleanerPurges
      <3>5. QED
        BY <3>1, <3>2, <3>4
    <2>3. cleaner'.left \subseteq cleaner.left
      <3>1. CASE CleanerNext
        <4>1. CASE \E j \in Launches : CleanerPurges(j)
          BY <4>1 DEF CleanerPurges, TypeOK
        <4>2. CASE CleanerDropsStale \/ CleanerFindsNoneStale
          BY <4>2 DEF CleanerDropsStale, CleanerFindsNoneStale, TypeOK
        <4>3. CASE CleanerSleeps \/ CleanerFails
          BY <4>3 DEF CleanerSleeps, CleanerFails, Idle
        <4>4. QED
          BY <1>4, <3>1, <4>1, <4>2, <4>3 DEF CleanerNext
      <3>2. CASE ~CleanerNext
        <4>1. UNCHANGED cleaner
          BY <3>2 DEF Next, vars, LaunchNext, ClaimChecks, ClaimFails, ClaimInserts, Activate,
             DeleteInstance, UpdateNext, DeployLoads, DeployCommits, LibLoads, LibCommits,
             QueueTask, ReplacePurges, UpdateDies, TaskNext, TaskStarts, TaskVisits, TaskReads,
             TaskPurges, TaskDies
        <4>2. QED
          BY <4>1
      <3>3. QED
        BY <3>1, <3>2
    <2>4. QED
      BY <2>1, <2>2, <2>3 DEF Condemned
  <1>5. QED
    BY <1>1, <1>2, <1>3, <1>4

LEMMA KeepStep == KeepInv /\ [Next]_vars => KeepInv'
  <1> SUFFICES ASSUME KeepInv, [Next]_vars PROVE KeepInv'
    OBVIOUS
  <1>1. RowInv'
    BY RowStep DEF KeepInv
  <1>2. KnownVersions'
    BY KnownStep DEF KeepInv, RowInv
  <1>3. ASSUME NEW i \in Launches, Condemned(i)' PROVE Born(i)' /\ OldOrExcused(i)'
    <2>1. CASE Condemned(i)
      <3>1. Born(i) /\ OldOrExcused(i)
        BY <2>1 DEF KeepInv, CondemnedAreOld
      <3>2. QED
        BY <3>1, StaysOld
    <2>2. CASE ~Condemned(i)
      BY <1>3, <2>2, NewlyCondemned
    <2>3. QED
      BY <2>1, <2>2
  <1>4. QED
    BY <1>1, <1>2, <1>3 DEF KeepInv, CondemnedAreOld

LEMMA KeepStart == Init => KeepInv
  <1> SUFFICES ASSUME Init PROVE KeepInv
    OBVIOUS
  <1>1. RowInv
    BY InitTypes DEF Init, RowInv, Unmarked, NewUpdate, RowNamesVersion
  <1>2. KnownVersions
    BY DEF Init, KnownVersions, Past, Unused
  <1>3. CondemnedAreOld
    BY DEF Init, CondemnedAreOld, Condemned, NewUpdate, NoTask, Idle
  <1>4. QED
    BY <1>1, <1>2, <1>3 DEF KeepInv

\* What a platform step deletes had been condemned before.
LEMMA PurgedWereCondemned ==
  ASSUME TypeOK, [Next]_vars, NEW i \in Launches, PurgesCurrent(i)
  PROVE  Condemned(i)
  <1>1. i \in Rows /\ instances'[i] # instances[i]
    BY GoneRecord DEF PurgesCurrent, Rows
  <1>2. ASSUME NEW S, Purge(S) PROVE i \in S
    BY <1>1, <1>2, PurgeEffect DEF TypeOK
  <1>3. CASE \E u \in Updates : ReplacePurges(u)
    BY <1>2, <1>3 DEF ReplacePurges, Condemned
  <1>4. CASE \E u \in Updates : TaskPurges(u)
    BY <1>2, <1>4 DEF TaskPurges, Condemned
  <1>5. CASE \E j \in Launches : CleanerPurges(j)
    BY <1>2, <1>5 DEF CleanerPurges, Condemned
  <1>6. CASE \E j \in Launches : LaunchNext(j)
    BY <1>6 DEF PurgesCurrent, LaunchNext, ClaimChecks, ClaimFails, ClaimInserts, Activate,
                DeleteInstance
  <1>7. CASE ~ \/ \E u \in Updates : ReplacePurges(u) \/ TaskPurges(u)
               \/ \E j \in Launches : CleanerPurges(j) \/ LaunchNext(j)
    <2>1. UNCHANGED instances
      BY <1>7 DEF Next, vars, UpdateNext, DeployLoads, LibLoads, DeployCommits, LibCommits,
         QueueTask, UpdateDies, TaskNext, TaskStarts, TaskVisits, TaskReads, TaskDies, CleanerNext,
         CleanerDropsStale, CleanerFindsNoneStale, CleanerReads, CleanerSleeps, CleanerFails
    <2>2. QED
      BY <1>1, <2>1
  <1>8. QED
    BY <1>3, <1>4, <1>5, <1>6, <1>7

\* An instance of the chute's version is deleted by no deployment, task or
\* cleanup, unless that version is one that returns or an upgrade was
\* overtaken, for any number of updates, tasks and launches.
THEOREM CurrentInstancesAreKept == Spec => CurrentKeptUnless
  <1>1. KeepInv /\ [Next]_vars =>
          \A i \in Launches : PurgesCurrent(i) => version \in Returning \/ Overtaken # {}
    <2> SUFFICES ASSUME KeepInv, [Next]_vars, NEW i \in Launches, PurgesCurrent(i)
                 PROVE  version \in Returning \/ Overtaken # {}
      OBVIOUS
    <2>1. Condemned(i)
      BY PurgedWereCondemned DEF KeepInv, RowInv
    <2>2. QED
      BY <2>1 DEF KeepInv, CondemnedAreOld, OldOrExcused, Excused, PurgesCurrent
  <1>2. QED
    BY <1>1, KeepStart, KeepStep, PTL DEF Spec, CurrentKeptUnless
=============================================================================
