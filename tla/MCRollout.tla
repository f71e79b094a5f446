----------------------------- MODULE MCRollout -----------------------------
(* Small instances of Rollout. *)
EXTENDS Rollout

CONSTANTS m1, m2,        \* miners
          i1, i2, i3,    \* launches
          u1, u2,        \* updates
          v0, v1, v2     \* versions

MCHotkey == [i \in Launches |-> IF i = i1 THEN m1 ELSE m2]
MCNewVersion == [u \in Updates |-> IF u = u1 THEN v1 ELSE v2]
=============================================================================
