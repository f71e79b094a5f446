---------------------------- MODULE MCConverging ----------------------------
(***************************************************************************)
(* What settles under fairness, on instances that are small enough for it: *)
(* the claims of one job, and the rollout of one chute.  They share no     *)
(* state but the miners, and whichever is picked at first takes its steps. *)
(* Nothing of a job that was not picked is enabled; of the chute, the      *)
(* cleanup is, hence the condition on its fairness.                        *)
(***************************************************************************)
EXTENDS JobClaim

CONSTANTS m1, m2,        \* miners
          j1, c1, c2,    \* a job and two launch configs
          r1,            \* a request at a time
          i1,            \* a launch, which may be late
          u1, u2,        \* updates
          v0, v1, v2,    \* versions
          NoTarget, NoRow

VARIABLES part, version, row, instances, updates, tasks, cleaner

chuteVars == <<version, row, instances, updates, tasks, cleaner>>

Chute == INSTANCE Rollout WITH
    Launches <- {i1},
    Hotkey <- [i \in {i1} |-> m1],
    Updates <- {u1, u2},
    NewVersion <- [u \in {u1, u2} |-> IF u = u1 THEN v1 ELSE v2],
    FirstVersion <- v0,
    Target <- 2

ConvergingInit == part \in {"job", "chute"} /\ Init /\ Chute!Init

ConvergingNext == \/ part = "job" /\ Next /\ UNCHANGED <<part, chuteVars>>
                  \/ part = "chute" /\ Chute!Next /\ UNCHANGED <<part, vars>>

ConvergingSpec == /\ ConvergingInit
                  /\ [][ConvergingNext]_<<part, vars, chuteVars>>
                  /\ Fairness
                  /\ part = "chute" => Chute!Fairness

\* See FleetConverges of Rollout.
FleetConverges == Chute!FleetConverges
=============================================================================
