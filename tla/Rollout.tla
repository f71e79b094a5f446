------------------------------ MODULE Rollout ------------------------------
(***************************************************************************)
(* The instances of one public chute while its version changes: launches   *)
(* with their capacity checks, deployments and chutes-library upgrades,    *)
(* the rolling_updates row, the task that walks the instances, and the     *)
(* watchtower's cleanup of whatever is left on an old version.             *)
(*                                                                         *)
(* A handler is split where another may commit between what it read and    *)
(* what it writes.  Two reads of one session with nothing slow in between  *)
(* are one step: a claim takes tens of seconds and does not fit in.        *)
(*                                                                         *)
(* An upgrade is update_chutes_lib from the pushed image on, which is not  *)
(* reached where sign_image raises before it: see Images.                  *)
(***************************************************************************)
EXTENDS Naturals, FiniteSets

CONSTANTS Miners,          \* hotkeys
          Launches,        \* launch configs, each with the instance it leads to
          Hotkey,          \* the miner of each
          Updates,         \* deployments and upgrades of the chute
          NewVersion,      \* the version a deployment computes from image and code
          FirstVersion,    \* the version the chute starts with
          Target,          \* the scale:{chute_id} value, or NoTarget when unset
          NoTarget, NoRow

Versions == {FirstVersion} \cup {NewVersion[u] : u \in Updates}

ASSUME LaunchesAssumption == IsFiniteSet(Launches)
ASSUME HotkeyAssumption == Hotkey \in [Launches -> Miners]
ASSUME TargetAssumption == /\ NoTarget \notin Nat
                           /\ Target \in Nat \cup {NoTarget}
ASSUME RowAssumption ==
    NoRow \notin [by : Updates, new : Versions, permitted : SUBSET Miners]

VARIABLES version,     \* chutes.version
          row,         \* the chute's rolling_updates row
          instances,   \* launch configs and instances rows
          updates,     \* _deploy_chute and update_chutes_lib in progress
          tasks,       \* handle_rolling_update, by the update that queued it
          cleaner      \* rolling_update_cleanup

vars == <<version, row, instances, updates, tasks, cleaner>>

LaunchRecord == [stage : {"unused", "checked", "pending", "active", "gone"},
                 version : Versions]
\* replace: a deployment with use_rolling_update=False.
Kind == {"none", "deploy", "replace", "lib"}
UpdateRecord == [pc : {"new", "loaded", "committed", "done"}, kind : Kind, old : Versions,
                 permitted : SUBSET Miners, overtaken : BOOLEAN, doomed : SUBSET Launches]
TaskRecord == [pc : {"none", "queued", "walk", "purge", "done"}, version : Versions,
               left : SUBSET Launches]
\* by: the update that inserted the row.  permitted: the hotkeys with a count.
RowRecord == [by : Updates, new : Versions, permitted : SUBSET Miners]

TypeOK == /\ version \in Versions
          /\ row \in RowRecord \cup {NoRow}
          /\ instances \in [Launches -> LaunchRecord]
          /\ updates \in [Updates -> UpdateRecord]
          /\ tasks \in [Updates -> TaskRecord]
          /\ cleaner \in [pc : {"idle", "dropped", "purge"}, left : SUBSET Launches]

Idle == [pc |-> "idle", left |-> {}]
Unused == [stage |-> "unused", version |-> FirstVersion]
NewUpdate == [pc |-> "new", kind |-> "none", old |-> FirstVersion, permitted |-> {},
              overtaken |-> FALSE, doomed |-> {}]
NoTask == [pc |-> "none", version |-> FirstVersion, left |-> {}]

Init == /\ version = FirstVersion
        /\ row = NoRow
        /\ instances = [i \in Launches |-> Unused]
        /\ updates = [u \in Updates |-> NewUpdate]
        /\ tasks = [u \in Updates |-> NoTask]
        /\ cleaner = Idle

Rows == {i \in Launches : instances[i].stage \in {"pending", "active"}}
RowsOf(m) == {i \in Rows : Hotkey[i] = m}
ActiveRows == {i \in Rows : instances[i].stage = "active"}
OldRows(v) == {i \in Rows : instances[i].version # v}

-----------------------------------------------------------------------------
(* Launches. *)

\* What _check_scalable compares with; with no value in redis or capacity_log
\* the current count is the target.
TargetCount == IF Target = NoTarget THEN Cardinality(Rows) ELSE Target

Undeployed == /\ Cardinality(Rows) <= TargetCount + 2
              /\ ActiveRows = {}
QuotaRules == row # NoRow /\ Cardinality(Rows) + 2 >= TargetCount

\* `limit <= 0 and permitted` refuses.  The decrement that follows is made in
\* a plain JSONB value, which the session does not track: it is never written.
HasQuota(m) == m \in row.permitted \/ row.permitted = {}

HasRoom(m) == /\ Cardinality(Rows) < TargetCount
              /\ ~ /\ TargetCount <= Cardinality(Rows) + 2
                   /\ RowsOf(m) = Rows

Scalable(m) == \/ Undeployed
               \/ /\ ~Undeployed
                  /\ QuotaRules
                  /\ HasQuota(m)
               \/ /\ ~Undeployed
                  /\ ~QuotaRules
                  /\ HasRoom(m)

ToStage(i, s) == instances' = [instances EXCEPT ![i].stage = s]
Gone == [Unused EXCEPT !.stage = "gone"]

\* POST /launch_config/{config_id}: the chute is loaded and the capacity is
\* checked again, as GET /launch_config did when it gave out the config.  The
\* instance will carry the version loaded here.
ClaimChecks(i) ==
    /\ instances[i].stage = "unused"
    /\ Scalable(Hotkey[i])
    /\ instances' = [instances EXCEPT ![i].stage = "checked", ![i].version = version]
    /\ UNCHANGED <<version, row, updates, tasks, cleaner>>

\* The claim fails one of its validations.
ClaimFails(i) ==
    /\ instances[i].stage = "checked"
    /\ instances' = [instances EXCEPT ![i] = Gone]
    /\ UNCHANGED <<version, row, updates, tasks, cleaner>>

\* Environment, file system and GPUs checked out and the ciphertext is made.
ClaimInserts(i) ==
    /\ instances[i].stage = "checked"
    /\ ToStage(i, "pending")
    /\ UNCHANGED <<version, row, updates, tasks, cleaner>>

\* Verified (see JobClaim) and activated; nothing asks for the version again.
Activate(i) ==
    /\ instances[i].stage = "pending"
    /\ ToStage(i, "active")
    /\ UNCHANGED <<version, row, updates, tasks, cleaner>>

\* The miner deletes the instance, which is what it is asked to do by the
\* rolling_update event; or its verification fails.
DeleteInstance(i) ==
    /\ i \in Rows
    /\ instances' = [instances EXCEPT ![i] = Gone]
    /\ UNCHANGED <<version, row, updates, tasks, cleaner>>

-----------------------------------------------------------------------------
(* Updates. *)

\* Mutant: the quota is counted by instance.
HostsByInstance == Rows
Hosts == {Hotkey[i] : i \in Rows}

Loaded(u, kind, miners) ==
    updates' = [updates EXCEPT
        ![u] = [pc |-> "loaded", kind |-> kind, old |-> version, permitted |-> miners,
                overtaken |-> FALSE, doomed |-> {}]]

\* chute, with its instances, is loaded; the same version again is a 409.
DeployLoads(u) ==
    /\ updates[u].pc = "new"
    /\ NewVersion[u] # version
    /\ Loaded(u, "deploy", Hosts)
    /\ UNCHANGED <<version, row, instances, tasks, cleaner>>

\* update_chutes_lib counts on in one dictionary from chute to chute, so that
\* it permits the miners of the chutes before this one too.
LibLoads(u) ==
    /\ updates[u].pc = "new"
    /\ \E before \in SUBSET Miners : Loaded(u, "lib", Hosts \cup before)
    /\ UNCHANGED <<version, row, instances, tasks, cleaner>>

\* Mutant: the old row is deleted only where a new one is inserted.
NewRowOnly(u, v) ==
    IF updates[u].permitted # {}
    THEN [by |-> u, new |-> v, permitted |-> updates[u].permitted]
    ELSE row

\* The old row is deleted, and a new one is inserted if any instance was seen.
NewRow(u, v) ==
    IF updates[u].permitted # {}
    THEN [by |-> u, new |-> v, permitted |-> updates[u].permitted]
    ELSE NoRow

Committed(u, kind, doomed, overtaken) ==
    updates' = [updates EXCEPT
        ![u] = [pc |-> "committed", kind |-> kind, permitted |-> {},
                old |-> IF kind = "lib" THEN updates[u].old ELSE FirstVersion,
                overtaken |-> overtaken, doomed |-> doomed]]

\* With use_rolling_update=False all instances are read, to be deleted; the
\* row is there all the same.
DeployCommits(u) ==
    /\ updates[u].pc = "loaded"
    /\ updates[u].kind = "deploy"
    /\ version' = NewVersion[u]
    /\ row' = NewRow(u, NewVersion[u])
    /\ \/ Committed(u, "deploy", {}, FALSE)
       \/ Committed(u, "replace", Rows, FALSE)
    /\ UNCHANGED <<instances, tasks, cleaner>>

\* An upgrade leaves the version alone: old_version and new_version are both
\* the version it loaded.
LibCommits(u) ==
    /\ updates[u].pc = "loaded"
    /\ updates[u].kind = "lib"
    /\ row' = NewRow(u, updates[u].old)
    /\ Committed(u, "lib", {}, version # updates[u].old)
    /\ UNCHANGED <<version, instances, tasks, cleaner>>

Finished(u) ==
    updates' = [updates EXCEPT
        ![u] = [pc |-> "done", kind |-> "none", permitted |-> {}, old |-> FirstVersion,
                overtaken |-> updates[u].overtaken, doomed |-> {}]]

\* handle_rolling_update.kiq: a deployment has refreshed the chute after its
\* commit, an upgrade still holds what it loaded (expire_on_commit=False).
QueueTask(u) ==
    /\ updates[u].pc = "committed"
    /\ updates[u].kind # "replace"
    /\ tasks' = [tasks EXCEPT ![u].pc = "queued",
                     ![u].version = IF updates[u].kind = "lib" THEN updates[u].old ELSE version]
    /\ Finished(u)
    /\ UNCHANGED <<version, row, instances, cleaner>>

Purge(S) ==
    instances' = [i \in Launches |-> IF i \in S \cap Rows
                                     THEN Gone
                                     ELSE instances[i]]

\* The request's session commits when the response is sent.
ReplacePurges(u) ==
    /\ updates[u].pc = "committed"
    /\ updates[u].kind = "replace"
    /\ Purge(updates[u].doomed)
    /\ Finished(u)
    /\ UNCHANGED <<version, row, tasks, cleaner>>

\* The handler fails or its process dies, before or after its commit.
UpdateDies(u) ==
    /\ updates[u].pc \in {"loaded", "committed"}
    /\ Finished(u)
    /\ UNCHANGED <<version, row, instances, tasks, cleaner>>

-----------------------------------------------------------------------------
(* handle_rolling_update. *)

Ended == [NoTask EXCEPT !.pc = "done"]
\* Mutant: any rolling update of the chute will do.
StillUpdating(u) == row # NoRow
StillValid(u) == row # NoRow /\ row.new = tasks[u].version

TaskStarts(u) ==
    /\ tasks[u].pc = "queued"
    /\ tasks' = IF Rows = {}
                THEN [tasks EXCEPT ![u] = Ended]
                ELSE [tasks EXCEPT ![u].pc = "walk", ![u].left = Rows]
    /\ UNCHANGED <<version, row, instances, updates, cleaner>>

\* An instance that is gone is skipped; a defunct rolling update ends the task;
\* else the miner is told, and the task sleeps.
TaskVisits(u, i) ==
    /\ tasks[u].pc = "walk"
    /\ i \in tasks[u].left
    /\ tasks' = IF i \in Rows /\ ~StillValid(u)
                THEN [tasks EXCEPT ![u] = Ended]
                ELSE [tasks EXCEPT ![u].left = @ \ {i}]
    /\ UNCHANGED <<version, row, instances, updates, cleaner>>

\* Every instance has been visited: which are still bound to the old version?
TaskReads(u) ==
    /\ tasks[u].pc = "walk"
    /\ tasks[u].left = {}
    /\ tasks' = IF StillValid(u)
                THEN [tasks EXCEPT ![u].pc = "purge", ![u].left = OldRows(tasks[u].version)]
                ELSE [tasks EXCEPT ![u] = Ended]
    /\ UNCHANGED <<version, row, instances, updates, cleaner>>

\* The session commits after the notifications.  The row is deleted by its
\* primary key, the chute: a row inserted in between goes too.
TaskPurges(u) ==
    /\ tasks[u].pc = "purge"
    /\ Purge(tasks[u].left)
    /\ row' = NoRow
    /\ tasks' = [tasks EXCEPT ![u] = Ended]
    /\ UNCHANGED <<version, updates, cleaner>>

\* The broker or the worker loses the task.
TaskDies(u) ==
    /\ tasks[u].pc \in {"queued", "walk", "purge"}
    /\ tasks' = [tasks EXCEPT ![u] = Ended]
    /\ UNCHANGED <<version, row, instances, updates, cleaner>>

-----------------------------------------------------------------------------
(* rolling_update_cleanup. *)

\* A row whose started_at is an hour ago is deleted; which rows are that old is
\* left open.
CleanerDropsStale ==
    /\ cleaner.pc = "idle"
    /\ row # NoRow
    /\ row' = NoRow
    /\ cleaner' = [cleaner EXCEPT !.pc = "dropped"]
    /\ UNCHANGED <<version, instances, updates, tasks>>

CleanerFindsNoneStale ==
    /\ cleaner.pc = "idle"
    /\ cleaner' = [cleaner EXCEPT !.pc = "dropped"]
    /\ UNCHANGED <<version, row, instances, updates, tasks>>

\* Mutant: only instances in service are looked at.
CleanerReadsActive ==
    /\ cleaner.pc = "dropped"
    /\ cleaner' = [pc |-> "purge",
                   left |-> IF row # NoRow THEN {} ELSE OldRows(version) \cap ActiveRows]
    /\ UNCHANGED <<version, row, instances, updates, tasks>>

CleanerReads ==
    /\ cleaner.pc = "dropped"
    /\ cleaner' = [pc |-> "purge", left |-> IF row # NoRow THEN {} ELSE OldRows(version)]
    /\ UNCHANGED <<version, row, instances, updates, tasks>>

\* purge_and_notify, in a session of its own for each instance.
CleanerPurges(i) ==
    /\ cleaner.pc = "purge"
    /\ i \in cleaner.left
    /\ Purge({i})
    /\ cleaner' = [cleaner EXCEPT !.left = @ \ {i}]
    /\ UNCHANGED <<version, row, updates, tasks>>

CleanerSleeps ==
    /\ cleaner.pc = "purge"
    /\ cleaner.left = {}
    /\ cleaner' = Idle
    /\ UNCHANGED <<version, row, instances, updates, tasks>>

\* An exception ends the round; the next one starts over.
CleanerFails ==
    /\ \/ cleaner.pc = "dropped"
       \/ cleaner.left # {}
    /\ cleaner' = Idle
    /\ UNCHANGED <<version, row, instances, updates, tasks>>

-----------------------------------------------------------------------------
LaunchNext(i) == \/ ClaimChecks(i) \/ ClaimFails(i) \/ ClaimInserts(i)
                 \/ Activate(i) \/ DeleteInstance(i)

UpdateNext(u) == \/ DeployLoads(u) \/ DeployCommits(u) \/ LibLoads(u) \/ LibCommits(u)
                 \/ QueueTask(u) \/ ReplacePurges(u) \/ UpdateDies(u)

TaskNext(u) == \/ TaskStarts(u) \/ TaskReads(u) \/ TaskPurges(u) \/ TaskDies(u)
               \/ \E i \in Launches : TaskVisits(u, i)

CleanerNext == \/ CleanerDropsStale \/ CleanerFindsNoneStale \/ CleanerReads
               \/ CleanerSleeps \/ CleanerFails
               \/ \E i \in Launches : CleanerPurges(i)

Next == \/ \E i \in Launches : LaunchNext(i)
        \/ \E u \in Updates : UpdateNext(u) \/ TaskNext(u)
        \/ CleanerNext

Spec == Init /\ [][Next]_vars

\* The watchtower runs for ever, and the hour of a row passes while it does; a
\* round may fail, but not every round at the same place.  Nothing is assumed
\* of the miners, of the handlers or of the task queue.
Fairness == /\ WF_vars(CleanerFindsNoneStale \/ CleanerSleeps)
            /\ SF_vars(CleanerDropsStale)
            /\ SF_vars(CleanerReads)
            /\ SF_vars(\E i \in Launches : CleanerPurges(i))

FairSpec == Spec /\ Fairness

-----------------------------------------------------------------------------
(* Properties. *)

\* Versions that the chute may come back to: the code deployed is old code.
Returning == {NewVersion[u] : u \in {x \in Updates :
                  \/ NewVersion[x] = FirstVersion
                  \/ \E y \in Updates \ {x} : NewVersion[y] = NewVersion[x]}}

\* Upgrades that committed after a deployment had changed the version they loaded.
Overtaken == {u \in Updates : updates[u].overtaken}

\* The rolling_updates row announces the version the chute has, whatever
\* updates, tasks and cleanups do to the row, unless an upgrade was overtaken
\* by a deployment: _deploy_chute and update_chutes_lib replace the row in the
\* transaction that changes the chute.
RowNamesVersion == row # NoRow /\ row.new # version => row.by \in Overtaken

\* The instance goes in a step of an update, a task or the cleanup.
PurgesCurrent(i) == /\ i \in Rows
                    /\ instances[i].version = version
                    /\ instances'[i] = Gone
                    /\ <<updates, tasks, cleaner>>' # <<updates, tasks, cleaner>>

\* What they decided to delete before a deployment they delete after it, and
\* two rolling updates of one chute may be under way; still an instance of the
\* current version is safe, unless an old version was deployed again or an
\* upgrade was overtaken.
CurrentKeptUnless ==
    [][\A i \in Launches : PurgesCurrent(i) => version \in Returning \/ Overtaken # {}]_vars

\* Whatever is lost or dies - an update between its commit and its task, the
\* task in the queue or half-way, a round of the cleanup - and however late a
\* claim inserts an instance of the version it loaded, in the end every
\* instance is of the chute's version.
FleetConverges == <>[](OldRows(version) = {})
=============================================================================
