------------------------------- MODULE Ledger -------------------------------
(***************************************************************************)
(* Money: the usage tracker, the payment watchers and the administrators   *)
(* at work on the same balances.                                           *)
(***************************************************************************)
EXTENDS UsageTracker, PaymentWatcher

vars == <<registered, balance, written, adjust, usageVars, watcherVars>>

TypeOK == AccountsTypeOK /\ UsageTypeOK /\ WatcherTypeOK

Init == AccountsInit /\ UsageInit /\ WatcherInit

Accounting == /\ \/ \E u \in Users : Register(u)
                 \/ \E a \in Adjustments : AdjustLoad(a) \/ AdjustCommit(a)
              /\ UNCHANGED <<usageVars, watcherVars>>

Billing == (\E c \in Charges : Bill(c)) /\ UNCHANGED <<registered, adjust, watcherVars>>
Tracking == TrackStep /\ UNCHANGED <<registered, adjust, watcherVars>>
TrackerFails == TrackFail /\ UNCHANGED <<registered, adjust, watcherVars>>

Chain == ChainStep /\ UNCHANGED <<registered, adjust, usageVars>>
Watching(w) == WatchStep(w) /\ UNCHANGED <<registered, adjust, usageVars>>
WatcherFails == (\E w \in Watchers : Fail(w) \/ Die(w)) /\ UNCHANGED <<registered, adjust, usageVars>>

Next == \/ Accounting \/ Billing \/ Tracking \/ TrackerFails
        \/ Chain \/ WatcherFails
        \/ \E w \in Watchers : Watching(w)

Spec == Init /\ [][Next]_vars

Alone(A) == A /\ UNCHANGED <<registered, adjust, usageVars>>

\* The tracker's loop and the watchers' loops go on, a lock that nobody renews
\* becomes old, and a commit that waits for a row gets it in its turn, as
\* PostgreSQL queues for row locks; nobody needs to pay, bill or register.
TrackerFairness == WF_vars(Tracking)
WatchersFairness ==
    /\ WF_vars(Alone(LockExpires))
    /\ \A w \in Watchers : WF_vars(Watching(w)) /\ SF_vars(Alone(PayCommit(w)))

-----------------------------------------------------------------------------
(* Usage. *)

\* What has become of an amount: usage_data holds it, or it is in its hash or
\* in the tracker's hands, or it is gone.
Fate(i) ==
    LET k == i[1]
        c == i[2] IN
    IF usage[k][c] > 1 THEN "twice"
    ELSE IF usage[k][c] = 1
         THEN IF c \in pending[k] \cup tracker.got[k] THEN "again" ELSE "applied"
    ELSE IF c \in pending[k] \cup tracker.got[k] THEN "waiting"
    ELSE IF c \in made /\ k \in BilledKeys(c) THEN "lost" ELSE "none"

Once == INSTANCE AtMostOnce WITH fate <- [i \in Items |-> Fate(i)]

\* An invocation's amount enters usage_data at most once, a lost amount stays
\* lost, and none is invented: what process_balance_changes means by deleting
\* the hashes before it commits, whatever fails and whenever it fails.
AppliedOnce == Once!Spec

\* No deduction is in a balance twice, in the balance of another user, in that
\* of a free account, or without the row of usage_data that explains it; and
\* no adjustment is in a balance twice.
DeductionsExplained ==
    \A u \in Users :
        /\ \A i \in Items : balance[u][i] <= IF KeyUser[i[1]] = u /\ u \notin FreeUsers
                                             THEN usage[i[1]][i[2]] ELSE 0
        /\ \A a \in Adjustments : balance[u][a] <= IF AdjustedUser[a] = u THEN 1 ELSE 0

\* When the tracker stops failing, no amount stays in redis for ever.
PendingSettles ==
    <>[][~TrackerFails]_vars =>
        \A i \in Items : (Fate(i) = "waiting") ~> (Fate(i) \in {"applied", "lost"})

-----------------------------------------------------------------------------
(* Payments. *)

Covered(b) == b \in skipped \/ \A t \in chain[b] \ Dust : PaymentId[t] \in payments

\* The saved cursor has left no payment behind: once it has moved, every
\* transfer to a user up to it is in the payments table, unless a restart
\* skipped its block.
CursorCovers == monitor.block > 1 => \A b \in 1..monitor.block : Covered(b)

\* However many watchers are at work and however often blocks are replayed, a
\* transfer is in at most one balance, once, together with the only payment
\* that has its id; and dust is never credited.
CreditedOnce ==
    /\ \A u \in Users, t \in Transfers :
          balance[u][t] <= IF TransferTo[t] = u /\ PaymentId[t] \in payments /\ t \notin Dust
                           THEN 1 ELSE 0
    /\ \A t, s \in Transfers :
          t # s /\ PaymentId[t] = PaymentId[s] => balance[TransferTo[t]][t] + balance[TransferTo[s]][s] <= 1

\* When the watchers stop failing, every block that has a successor is covered.
ChainFollowed ==
    <>[][~WatcherFails]_vars =>
        \A b \in 1..MaxBlock : b < Tip ~> (b < Tip /\ Covered(b))
=============================================================================
