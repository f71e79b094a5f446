---------------------------- MODULE UsageTracker ----------------------------
(***************************************************************************)
(* The usage tracker: invocations leave micro-payments in redis hashes,    *)
(* one per user and chute; a loop reads them, adds them to usage_data and  *)
(* deducts them from the balances in one transaction, and deletes the      *)
(* hashes just before it commits.  One tracker process is deployed; it may *)
(* fail and start over anywhere.                                           *)
(*                                                                         *)
(* An amount is the name of the invocation it was billed for.              *)
(***************************************************************************)
EXTENDS Accounts

CONSTANTS FreeUsers,  \* free accounts without invoice billing
          KeyUser,    \* the user in the name of a key
          PayKey,     \* the key an invocation is billed to
          OwnerKey,   \* the key of a private chute's owner, or NoKey
          NoKey

ASSUME UsageAssumption ==
    /\ NoKey \notin Keys
    /\ KeyUser \in [Keys -> Users] /\ FreeUsers \subseteq Users
    /\ PayKey \in [Charges -> Keys] /\ OwnerKey \in [Charges -> Keys \cup {NoKey}]
    /\ \A c \in Charges : OwnerKey[c] # PayKey[c]

VARIABLES made,     \* charges whose redis pipeline has run
          pending,  \* the redis hashes
          usage,    \* usage_data: how often each amount was added, by key
          tracker   \* process_balance_changes

usageVars == <<made, pending, usage, tracker>>

TrackPcs == {"idle", "failed", "reading", "loading", "deleting", "committing"}

UsageTypeOK ==
    /\ made \subseteq Charges
    /\ pending \in [Keys -> SUBSET Charges]
    /\ usage \in [Keys -> [Charges -> Nat]]
    /\ tracker \in [pc : TrackPcs, keys : SUBSET Keys, todo : SUBSET Keys, users : SUBSET Users,
                    got : [Keys -> SUBSET Charges], loaded : [Users -> Account]]

Resting == [pc |-> "idle", keys |-> {}, todo |-> {}, users |-> {},
            got |-> [k \in Keys |-> {}], loaded |-> [u \in Users |-> Empty]]

UsageInit == /\ made = {}
             /\ pending = [k \in Keys |-> {}]
             /\ usage = [k \in Keys |-> [c \in Charges |-> 0]]
             /\ tracker = Resting

BilledKeys(c) == {PayKey[c], OwnerKey[c]} \cap Keys

\* The end of a successful invocation: one pipeline (MULTI) increments the
\* payer's hash and, when somebody else uses a private chute, decrements its
\* owner's.
Bill(c) ==
    /\ c \notin made
    /\ \A k \in BilledKeys(c) : KeyUser[k] \in registered
    /\ made' = made \cup {c}
    /\ pending' = [k \in Keys |-> IF k \in BilledKeys(c) THEN pending[k] \cup {c} ELSE pending[k]]
    /\ UNCHANGED <<usage, tracker, balance, written>>

\* Mutant: the scan stops at the first page of keys, and pages hold one key.
FirstPage == IF \E k \in Keys : pending[k] # {} THEN {CHOOSE k \in Keys : TRUE} ELSE {}

Found == {k \in Keys : pending[k] # {}}

\* SCAN balance:* ...
TrackScan ==
    /\ tracker.pc \in {"idle", "failed"}
    /\ tracker' = [Resting EXCEPT !.pc = "reading", !.keys = Found, !.todo = Found]
    /\ UNCHANGED <<made, pending, usage, balance, written>>

\* ... then each hash is fetched in turn, and upserted in the open transaction.
TrackRead(k) ==
    /\ tracker.pc = "reading" /\ k \in tracker.todo
    /\ tracker' = [tracker EXCEPT !.todo = @ \ {k}, !.got = [@ EXCEPT ![k] = pending[k]]]
    /\ UNCHANGED <<made, pending, usage, balance, written>>

TrackAllRead ==
    /\ tracker.pc = "reading" /\ tracker.todo = {}
    /\ tracker' = [tracker EXCEPT !.pc = "loading", !.users = {KeyUser[k] : k \in tracker.keys}]
    /\ UNCHANGED <<made, pending, usage, balance, written>>

\* Mutant: every user is charged with every amount of the round.
DeductedFromAll(u) == {i \in Items : i[2] \in tracker.got[i[1]]}

\* The amounts read for a user who is not a free account.
Deducted(u) == IF u \in FreeUsers THEN {}
               ELSE {i \in Items : KeyUser[i[1]] = u /\ i[2] \in tracker.got[i[1]]}

\* The users are loaded one by one; the query flushes the balances computed before.
TrackLoad(u) ==
    /\ tracker.pc = "loading" /\ u \in tracker.users
    /\ tracker' = [tracker EXCEPT !.users = @ \ {u}, !.loaded = [@ EXCEPT ![u] = balance[u]]]
    /\ written' = {v \in {KeyUser[k] : k \in tracker.keys} \ tracker.users : Deducted(v) # {}}
    /\ UNCHANGED <<made, pending, usage, balance>>

TrackAllLoaded ==
    /\ tracker.pc = "loading" /\ tracker.users = {}
    /\ tracker' = [tracker EXCEPT !.pc = "deleting"]
    /\ UNCHANGED <<made, pending, usage, balance, written>>

\* Mutant: the hashes are kept until the next round.
KeepHashes == pending

DeleteHashes == [k \in Keys |-> IF k \in tracker.keys THEN {} ELSE pending[k]]

\* The hashes are deleted, whatever they hold by now ...
TrackDelete ==
    /\ tracker.pc = "deleting"
    /\ pending' = DeleteHashes
    /\ tracker' = [tracker EXCEPT !.pc = "committing"]
    /\ UNCHANGED <<made, usage, balance, written>>

Recorded == [k \in Keys |-> [c \in Charges |->
                IF c \in tracker.got[k] THEN usage[k][c] + 1 ELSE usage[k][c]]]

\* ... and the transaction commits.  An unchanged balance is not written.
TrackCommit ==
    /\ tracker.pc = "committing"
    /\ usage' = Recorded
    /\ balance' = [u \in Users |-> IF Deducted(u) = {} THEN balance[u]
                                   ELSE Booked(tracker.loaded[u], Deducted(u))]
    /\ written' = {}
    /\ tracker' = Resting
    /\ UNCHANGED <<made, pending>>

\* Redis or the database fails, or the process dies: the transaction rolls back.
TrackFail ==
    /\ tracker.pc \notin {"idle", "failed"}
    /\ tracker' = [Resting EXCEPT !.pc = "failed"]
    /\ written' = {}
    /\ UNCHANGED <<made, pending, usage, balance>>

TrackStep == \/ TrackScan \/ TrackAllRead \/ TrackAllLoaded \/ TrackDelete \/ TrackCommit
             \/ \E k \in Keys : TrackRead(k)
             \/ \E u \in Users : TrackLoad(u)
=============================================================================
