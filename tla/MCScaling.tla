------------------------------ MODULE MCScaling ------------------------------
(* A private chute, and four public ones: new, old, with a manual limit and   *)
(* with a failsafe minimum.                                                   *)
EXTENDS Scaling, TLC

Public == [public |-> TRUE, failsafe |-> 0, limit |-> NoLimit, max |-> 1, age |-> "old"]
MCKinds == {[Public EXCEPT !.public = FALSE, !.max = 2], Public, [Public EXCEPT !.age = "new"],
            [Public EXCEPT !.limit = 1], [Public EXCEPT !.failsafe = 2]}

Quiet == [utilization |-> 5, recent |-> FALSE, limited |-> 0, ever |-> FALSE]
MCMetrics == {[Quiet EXCEPT !.utilization = u, !.recent = u > 35] : u \in {5, 15, 36, 44, 55}}
             \cup {[Quiet EXCEPT !.limited = l, !.ever = TRUE] : l \in {0, 3, 12, 25}}

MCSymmetry == Permutations(Fleet)
=============================================================================
