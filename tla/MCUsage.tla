------------------------------ MODULE MCUsage ------------------------------
(***************************************************************************)
(* The tracker under fairness: with the usage of three users, an           *)
(* adjustment and no payments, or with one invocation and a watcher that   *)
(* follows the chain and credits the same balances.                        *)
(***************************************************************************)
EXTENDS MCLedger

VARIABLE part

\* The smaller of the two: two users who are there from the start.
Small == registered = {alice, bob} /\ made \subseteq {c1} /\ adjust[a1].pc = "new"

UsageOrBothInit == /\ Init
                   /\ part \in {"usage", "both"}
                   /\ part = "usage" => chain = <<{}>>
                   /\ part = "both" => Small

Stays == UNCHANGED part /\ (part = "both" => Small')
Pays == part = "both" /\ Stays

UsageOrBothNext == \/ Accounting /\ Stays
                   \/ Billing /\ Stays
                   \/ Tracking /\ Stays
                   \/ TrackerFails /\ Stays
                   \/ Chain /\ Pays
                   \/ WatcherFails /\ Pays
                   \/ \E w \in Watchers : Watching(w) /\ Pays

UsageOrBothSpec == /\ UsageOrBothInit /\ [][UsageOrBothNext]_<<part, vars>>
                   /\ TrackerFairness
                   /\ part = "both" => WatchersFairness
=============================================================================
