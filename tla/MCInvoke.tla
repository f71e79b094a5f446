------------------------------ MODULE MCInvoke ------------------------------
(* The constants of the runs of Invoke. *)
EXTENDS Invoke, TLC

CONSTANTS r1, r2, i1, i2

MCSymmetry == Permutations(Requests) \cup Permutations(Instances)
=============================================================================
