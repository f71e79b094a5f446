--------------------------- MODULE PaymentWatcher ---------------------------
(***************************************************************************)
(* The payment watchers: processes that follow the chain block by block    *)
(* under a database lock, record every transfer to a user's payment        *)
(* address and credit the user.  The lock can be taken over when it was    *)
(* not renewed for five minutes, and every watcher releases it without     *)
(* looking whose it is, so that two watchers may work at once.             *)
(***************************************************************************)
EXTENDS Accounts, Sequences

CONSTANTS Watchers,
          TransferTo,   \* the user whose address receives a transfer
          PaymentId,    \* uuid5 of block, receiver, sender and amount
          Dust,         \* transfers of less than 7000000 rao
          MaxBlock,     \* bound: blocks of the chain
          MaxRecovery,  \* max_recovery_blocks
          NoWatcher, NoTransfer

ASSUME WatcherAssumption ==
    /\ TransferTo \in [Transfers -> Users] /\ Dust \subseteq Transfers
    /\ MaxBlock \in Nat \ {0} /\ MaxRecovery \in Nat \ {0}
    /\ NoWatcher \notin Watchers /\ NoTransfer \notin Transfers

VARIABLES chain,       \* the transfers in each block; block 1 is the head at first
          monitor,     \* the row of payment_monitor_state
          watch,       \* the watcher processes
          payments,    \* payment ids in the payments table
          skipped      \* auxiliary: blocks that a jump ahead passed over

watcherVars == <<chain, monitor, watch, payments, skipped>>

Ids == {PaymentId[t] : t \in Transfers}
Tip == Len(chain)
WatchPcs == {"idle", "state", "latest", "refresh", "fetch", "events", "paying", "next"}

WatcherTypeOK ==
    /\ chain \in Seq(SUBSET Transfers)
    /\ monitor \in [block : 1..MaxBlock, locked : BOOLEAN, stale : BOOLEAN]
    /\ watch \in [Watchers -> [pc : WatchPcs, block : 0..MaxBlock + 1, latest : 0..MaxBlock,
                               known : SUBSET Users, todo : SUBSET Transfers,
                               paying : Transfers \cup {NoTransfer}, loaded : Account]]
    /\ payments \subseteq Ids
    /\ skipped \subseteq 1..MaxBlock

Down == [pc |-> "idle", block |-> 0, latest |-> 0, known |-> {}, todo |-> {},
         paying |-> NoTransfer, loaded |-> Empty]

Incoming == {t \in Transfers : TransferTo[t] \in registered}

\* initialize: the cursor starts at the head of the chain.
WatcherInit == /\ \E ts \in SUBSET Incoming : chain = <<ts>>
               /\ monitor = [block |-> 1, locked |-> FALSE, stale |-> FALSE]
               /\ watch = [w \in Watchers |-> Down]
               /\ payments = {}
               /\ skipped = {}

-----------------------------------------------------------------------------
(* The environment: the chain grows, time passes. *)

Sent == UNION {chain[b] : b \in 1..Tip}

\* A block holds transfers to addresses that exist by then; equal transfers of
\* one block share their payment id.
NewBlock(ts) ==
    /\ Tip < MaxBlock
    /\ ts \subseteq Incoming \ Sent
    /\ \A t \in Sent, s \in ts : PaymentId[t] # PaymentId[s]
    /\ chain' = Append(chain, ts)
    /\ UNCHANGED <<monitor, watch, payments, skipped, balance, written>>

\* lock_timeout passes without a renewal: the holder hangs, died or the chain stalls.
LockExpires ==
    /\ monitor.locked /\ ~monitor.stale
    /\ monitor' = [monitor EXCEPT !.stale = TRUE]
    /\ UNCHANGED <<chain, watch, payments, skipped, balance, written>>

-----------------------------------------------------------------------------
(* monitor_transfers. *)

SetWatch(w, r) == watch' = [watch EXCEPT ![w] = r]

\* Mutant: a lock is never taken over.
OnlyFree == ~monitor.locked

LockAvailable == ~monitor.locked \/ monitor.stale

\* _lock: one conditional UPDATE.
Lock(w) ==
    /\ watch[w].pc = "idle"
    /\ LockAvailable
    /\ monitor' = [monitor EXCEPT !.locked = TRUE, !.stale = FALSE]
    /\ SetWatch(w, [Down EXCEPT !.pc = "state"])
    /\ UNCHANGED <<chain, payments, skipped, balance, written>>

\* _get_state: the last block saved, or less far back than that.
GetState(w) ==
    LET behind == Tip - monitor.block > MaxRecovery
        from == IF behind THEN Tip - MaxRecovery ELSE monitor.block IN
    /\ watch[w].pc = "state"
    /\ SetWatch(w, [watch[w] EXCEPT !.pc = "latest", !.block = from])
    /\ skipped' = skipped \cup {b \in 1..MaxBlock : monitor.block <= b /\ b < from}
    /\ UNCHANGED <<chain, monitor, payments, balance, written>>

GetLatest(w) ==
    /\ watch[w].pc = "latest"
    /\ SetWatch(w, [watch[w] EXCEPT !.pc = "refresh", !.latest = Tip])
    /\ UNCHANGED <<chain, monitor, payments, skipped, balance, written>>

\* _refresh_addresses, at the start and whenever the watcher has caught up.
Refresh(w) ==
    /\ watch[w].pc = "refresh"
    /\ SetWatch(w, [watch[w] EXCEPT !.known = @ \cup registered,
                               !.pc = IF watch[w].block = watch[w].latest THEN "next" ELSE "fetch"])
    /\ UNCHANGED <<chain, monitor, payments, skipped, balance, written>>

\* Mutant: the addresses known when the watcher started are good enough.
NoRefresh == "fetch"

AfterWait == "refresh"

\* Caught up: poll until the head moves.
Wait(w) ==
    /\ watch[w].pc = "next"
    /\ watch[w].block = watch[w].latest
    /\ Tip # watch[w].block
    /\ SetWatch(w, [watch[w] EXCEPT !.pc = AfterWait, !.latest = Tip])
    /\ UNCHANGED <<chain, monitor, payments, skipped, balance, written>>

Advance(w) ==
    /\ watch[w].pc = "next"
    /\ watch[w].block # watch[w].latest
    /\ SetWatch(w, [watch[w] EXCEPT !.pc = "fetch"])
    /\ UNCHANGED <<chain, monitor, payments, skipped, balance, written>>

\* get_events of the block, for the addresses known.
Fetch(w) ==
    /\ watch[w].pc = "fetch"
    /\ SetWatch(w, [watch[w] EXCEPT !.pc = "events",
                   !.todo = {t \in chain[watch[w].block] : TransferTo[t] \in watch[w].known}])
    /\ UNCHANGED <<chain, monitor, payments, skipped, balance, written>>

\* _handle_payment: the user is loaded; dust is ignored ...
PayLoad(w, t) ==
    /\ watch[w].pc = "events" /\ t \in watch[w].todo
    /\ SetWatch(w, IF t \in Dust
              THEN [watch[w] EXCEPT !.todo = @ \ {t}]
              ELSE [watch[w] EXCEPT !.todo = @ \ {t}, !.pc = "paying", !.paying = t,
                                    !.loaded = balance[TransferTo[t]]])
    /\ UNCHANGED <<chain, monitor, payments, skipped, balance, written>>

\* Mutant: the id is fresh for each call (uuid4).
AlwaysFresh(t) == TRUE

\* payment_id is the primary key of payments.
FreshPayment(t) == PaymentId[t] \notin payments

\* ... and the payment and the balance are committed, or both rolled back as a
\* duplicate.
PayCommit(w) ==
    LET t == watch[w].paying IN
    /\ watch[w].pc = "paying"
    /\ TransferTo[t] \notin written
    /\ IF FreshPayment(t)
       THEN /\ payments' = payments \cup {PaymentId[t]}
            /\ balance' = [balance EXCEPT ![TransferTo[t]] = Booked(watch[w].loaded, {t})]
       ELSE UNCHANGED <<payments, balance, written>>
    /\ SetWatch(w, [watch[w] EXCEPT !.pc = "events", !.paying = NoTransfer, !.loaded = Empty])
    /\ UNCHANGED <<chain, monitor, skipped, written>>

Saved(w) == [monitor EXCEPT !.block = watch[w].block, !.stale = FALSE]

\* _save_state, which logs and forgets a failure; then the next block.
SaveState(w) ==
    /\ watch[w].pc = "events" /\ watch[w].todo = {}
    /\ monitor' \in {Saved(w), monitor}
    /\ SetWatch(w, [watch[w] EXCEPT !.pc = "next", !.block = @ + 1])
    /\ UNCHANGED <<chain, payments, skipped, balance, written>>

\* An exception (_unlock in the finally clause, whoever holds the lock) ...
Fail(w) ==
    /\ watch[w].pc # "idle"
    /\ monitor' = [monitor EXCEPT !.locked = FALSE]
    /\ SetWatch(w, Down)
    /\ UNCHANGED <<chain, payments, skipped, balance, written>>

\* ... or the death of the process.
Die(w) ==
    /\ watch[w].pc # "idle"
    /\ SetWatch(w, Down)
    /\ UNCHANGED <<chain, monitor, payments, skipped, balance, written>>

WatchStep(w) == \/ Lock(w) \/ GetState(w) \/ GetLatest(w) \/ Refresh(w) \/ Wait(w) \/ Advance(w)
                \/ Fetch(w) \/ PayCommit(w) \/ SaveState(w)
                \/ \E t \in Transfers : PayLoad(w, t)

ChainStep == LockExpires \/ \E ts \in SUBSET Transfers : NewBlock(ts)

Watch == ChainStep \/ \E w \in Watchers : WatchStep(w) \/ Fail(w) \/ Die(w)
=============================================================================
