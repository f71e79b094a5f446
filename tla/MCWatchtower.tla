----------------------------- MODULE MCWatchtower -----------------------------
(* Two instances of two miners, one of them sound. *)
EXTENDS Watchtower

CONSTANTS i1, i2

MCInstanceMiner == [i \in Instances |-> IF i = i1 THEN "m1" ELSE "m2"]
=============================================================================
