------------------------------ MODULE MCLedger ------------------------------
(* The constants of the ledger's runs. *)
EXTENDS Ledger, TLC

CONSTANTS alice, bob, carl, \* users; carl has a free account
          ka, kb, kc,       \* hashes: alice's and bob's for bob's private chute, carl's for another
          c1, c2, c3,       \* invocations by alice, carl and alice
          a1, a2,           \* adjustments
          w1, w2,           \* watchers
          t1, t2, t3        \* transfers

MCAdjustedUser == [a \in Adjustments |-> IF a = a1 THEN alice ELSE bob]
MCKeyUser == [k \in Keys |-> CASE k = ka -> alice [] k = kb -> bob [] k = kc -> carl]
MCPayKey == [c \in Charges |-> IF c = c2 THEN kc ELSE ka]
MCOwnerKey == [c \in Charges |-> IF c = c2 THEN NoKey ELSE kb]
MCTransferTo == [t \in Transfers |-> IF t = t3 THEN bob ELSE alice]
\* t1 and t2 have one sender and one amount.
MCPaymentId == [t \in Transfers |-> IF t = t2 THEN t1 ELSE t]

\* Payments alone: nothing is billed, so the tracker has nothing to do.
PaymentsNext == \/ Accounting \/ Chain \/ WatcherFails
                \/ \E w \in Watchers : Watching(w)
PaymentsSpec == Init /\ [][PaymentsNext]_vars

MCSymmetry == Permutations(Watchers)
=============================================================================
