----------------------------- MODULE AtMostOnce -----------------------------
(***************************************************************************)
(* What the accounting promises about an amount that is billed: it waits,  *)
(* and then it is applied once or lost.  An applied amount never changes   *)
(* again and a lost one never comes back.                                  *)
(***************************************************************************)
CONSTANT Items      \* the amounts that may be billed

VARIABLE fate       \* of each item

Fates == {"none", "waiting", "applied", "lost"}

Moves == {<<"none", "waiting">>, <<"waiting", "applied">>, <<"waiting", "lost">>}

Init == fate = [i \in Items |-> "none"]

\* Any number of items may move at once.
Move == /\ fate' \in [Items -> Fates]
        /\ \A i \in Items : fate'[i] # fate[i] => <<fate[i], fate'[i]>> \in Moves

Spec == Init /\ [][Move]_fate
=============================================================================
