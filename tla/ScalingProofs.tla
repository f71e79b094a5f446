--------------------------- MODULE ScalingProofs ---------------------------
(***************************************************************************)
(* Proofs about Scaling: types, the cap of private chutes, and the target  *)
(* that is left, for any fleet, any kinds of chutes and any thresholds.    *)
(***************************************************************************)
EXTENDS Scaling, FiniteSetTheorems, TLAPS

-----------------------------------------------------------------------------
(* What perform_autoscale decides. *)

\* A decision of n instances: its numbers are natural, and what is to be removed
\* is what exceeds the target.
Sound(d, n) == /\ d.target \in Nat /\ d.remove \in Nat
               /\ d.remove > 0 => d.target + d.remove = n

LEMMA StepsSound ==
  ASSUME NEW n \in Nat, NEW k \in Nat
  PROVE  /\ Sound(Grow(n, k), n) /\ Sound(Keep(k), n)
         /\ k <= n => Sound(Shrink(n, k), n)
  BY DEF Sound, Grow, Keep, Shrink

LEMMA PercentIsNat ==
  ASSUME NEW n \in Nat, NEW p \in Nat
  PROVE  Percent(n, p) \in Nat
  <1>1. n * p \in Nat
    OBVIOUS
  <1>2. \A m \in Nat : m \div 100 \in Nat
    OBVIOUS
  <1>3. QED
    BY <1>1, <1>2 DEF Percent

LEMMA LargerIsNat ==
  ASSUME NEW m \in Nat, NEW n \in Nat
  PROVE  Larger(m, n) \in Nat /\ Larger(m, n) >= m /\ Larger(m, n) >= n
  BY DEF Larger

LEMMA BusySound ==
  ASSUME NEW c \in Kind, NEW n \in Nat, NEW k \in Nat
  PROVE  Sound(GrowBusy(c, n, k), n)
  <1>1. c.failsafe \in Nat /\ n + k \in Nat
    <2>1. c.failsafe \in Nat
      BY DEF Kind
    <2>2. n + k \in Nat
      OBVIOUS
    <2>3. QED
      BY <2>1, <2>2
  <1>2. Larger(c.failsafe, n + k) \in Nat
    BY <1>1, LargerIsNat
  <1>3. GrowBusy(c, n, k) = Keep(Larger(c.failsafe, n + k))
    BY DEF GrowBusy, Keep
  <1>4. QED
    BY <1>2, <1>3, StepsSound

LEMMA PublicSound ==
  ASSUME NEW c \in Kind, NEW n \in Nat, NEW m \in Metrics
  PROVE  Sound(PublicDecision(c, n, m), n)
  <1> USE CapAssumption
  <1>1. c.failsafe \in Nat /\ c.limit \in Nat /\ FailsafeMin(c) \in Nat
    BY DEF Kind, FailsafeMin
  <1>2. Percent(n, 50) \in Nat /\ Percent(n, 25) \in Nat /\ Percent(n, 30) \in Nat
        /\ Percent(n, 15) \in Nat /\ Percent(n, 5) \in Nat
    BY PercentIsNat
  <1>3. Sound(ByUtilization(c, n, m.utilization), n)
    BY <1>2, LargerIsNat, BusySound DEF ByUtilization
  <1>4. Sound(ByRateLimit(c, n, m.limited), n)
    BY <1>2, LargerIsNat, BusySound DEF ByRateLimit
  <1>5. Surplus(n, m.utilization) \in Nat
    <2>1. ~(n <= UNDERUTILIZED_CAP) => n - UNDERUTILIZED_CAP \in Nat
      OBVIOUS
    <2>2. QED
      BY <2>1, PercentIsNat, LargerIsNat DEF Surplus
  <1>6. Sound(Idling(c, n, m.utilization), n)
    <2> DEFINE surplus == Surplus(n, m.utilization)
    <2>1. CASE n - surplus >= FailsafeMin(c)
      BY <1>1, <1>5, <2>1, StepsSound DEF Idling
    <2>2. CASE ~(n - surplus >= FailsafeMin(c)) /\ n > FailsafeMin(c)
      <3>1. n - FailsafeMin(c) \in Nat /\ n - FailsafeMin(c) <= n
        BY <1>1, <2>2
      <3>2. Sound(Shrink(n, n - FailsafeMin(c)), n)
        BY <3>1, StepsSound
      <3>3. QED
        BY <2>2, <3>2 DEF Idling
    <2>3. CASE ~(n - surplus >= FailsafeMin(c)) /\ ~(n > FailsafeMin(c))
      <3>1. Sound(Keep(Larger(FailsafeMin(c), n)), n)
        BY <1>1, LargerIsNat, StepsSound
      <3>2. QED
        BY <2>3, <3>1 DEF Idling
    <2>4. QED
      BY <2>1, <2>2, <2>3
  <1>7. Sound(NewChute(c, n), n)
    <2> DEFINE target == IF c.age = "new" THEN Larger(NewChuteTarget, FailsafeMin(c))
                         ELSE FailsafeMin(c)
    <2>1. target \in Nat
      BY <1>1, LargerIsNat
    <2>2. NewChute(c, n) = IF n > target THEN Shrink(n, n - target) ELSE Keep(target)
      BY DEF NewChute
    <2> HIDE DEF target
    <2>3. n > target => n - target \in Nat /\ n - target <= n
      BY <2>1
    <2>4. QED
      BY <2>1, <2>2, <2>3, StepsSound
  <1>8. c.limit < n => Sound(Shrink(n, n - c.limit), n)
    <2>1. c.limit < n => n - c.limit \in Nat /\ n - c.limit <= n
      BY <1>1
    <2>2. QED
      BY <2>1, StepsSound
  <1>9. /\ Sound(Keep(Larger(UNDERUTILIZED_CAP, FailsafeMin(c))), n)
        /\ Sound(Keep(c.limit), n)
        /\ Sound(Keep(Larger(FailsafeMin(c), n)), n)
    BY <1>1, LargerIsNat, StepsSound
  <1>10. QED
    BY <1>3, <1>4, <1>6, <1>7, <1>8, <1>9 DEF PublicDecision

\* Of a private chute within its cap, the target is within it.
LEMMA PrivateSound ==
  ASSUME NEW c \in Kind, NEW b \in BOOLEAN, NEW n \in Nat, NEW m \in Metrics
  PROVE  /\ Sound(PrivateDecision(c, b, n, m), n)
         /\ n <= c.max => PrivateDecision(c, b, n, m).target <= c.max
  <1>1. c.max \in Nat \ {0}
    BY DEF Kind
  <1>2. CASE n = 0
    BY <1>1, <1>2 DEF PrivateDecision, Sound, Keep
  <1>3. CASE n # 0 /\ m.recent /\ MayGrow(n, c.max)
    BY <1>1, <1>3 DEF PrivateDecision, Sound, Grow, MayGrow
  <1>4. CASE n # 0 /\ ~(m.recent /\ MayGrow(n, c.max)) /\ ~m.recent /\ n > 1
    BY <1>1, <1>4 DEF PrivateDecision, Sound, Shrink
  <1>5. CASE n # 0 /\ ~(m.recent /\ MayGrow(n, c.max)) /\ ~(~m.recent /\ n > 1)
    BY <1>1, <1>5 DEF PrivateDecision, Sound, Keep
  <1>6. QED
    BY <1>2, <1>3, <1>4, <1>5

LEMMA DecisionSound ==
  ASSUME NEW c \in Kind, NEW b \in BOOLEAN, NEW n \in Nat, NEW m \in Metrics
  PROVE  /\ Sound(Decision(c, b, n, m), n)
         /\ ~c.public /\ n <= c.max => Decision(c, b, n, m).target <= c.max
  BY PublicSound, PrivateSound DEF Decision

-----------------------------------------------------------------------------
(* The instances. *)

Stages == {"none", "pending", "active", "gone"}

\* One instance changes; of the active ones it is the only one that may.
LEMMA OneChanges ==
  ASSUME fleet \in [Fleet -> Member], NEW i \in Fleet, NEW m \in Member,
         fleet' = [fleet EXCEPT ![i] = m]
  PROVE  /\ fleet' \in [Fleet -> Member]
         /\ fleet'[i] = m
         /\ \A j \in Fleet \ {i} : fleet'[j] = fleet[j]
         /\ Active' = IF m.stage = "active" THEN Active \cup {i} ELSE Active \ {i}
  BY DEF Active

LEMMA Counting ==
  /\ IsFiniteSet(Active) /\ ActiveCount \in Nat
  /\ \A i \in Fleet : /\ Cardinality(Active \cup {i}) \in {ActiveCount, ActiveCount + 1}
                      /\ Cardinality(Active \ {i}) \in Nat
                      /\ i \in Active => Cardinality(Active \ {i}) = ActiveCount - 1
                      /\ i \notin Active => Active \ {i} = Active
  <1>1. IsFiniteSet(Active) /\ ActiveCount \in Nat
    BY FleetAssumption, FS_Subset, FS_CardinalityType DEF Active, ActiveCount
  <1>2. ASSUME NEW i \in Fleet
        PROVE  /\ Cardinality(Active \cup {i}) \in {ActiveCount, ActiveCount + 1}
               /\ Cardinality(Active \ {i}) \in Nat
               /\ i \in Active => Cardinality(Active \ {i}) = ActiveCount - 1
    <2>1. /\ Cardinality(Active \cup {i}) =
                 IF i \in Active THEN Cardinality(Active) ELSE Cardinality(Active) + 1
          /\ IsFiniteSet(Active \ {i})
          /\ Cardinality(Active \ {i}) =
                 IF i \in Active THEN Cardinality(Active) - 1 ELSE Cardinality(Active)
      BY <1>1, FS_AddElement, FS_RemoveElement
    <2>2. QED
      BY <2>1, FS_CardinalityType DEF ActiveCount
  <1>3. QED
    BY <1>1, <1>2

\* What each action does to the instances and to the rest, in the shape of OneChanges.
Changes(i, stage, check) ==
    \E m \in Member : /\ fleet' = [fleet EXCEPT ![i] = m]
                      /\ m.stage = stage /\ m.check = check

LEMMA InstanceChanges ==
  ASSUME ScaleTypeOK, NEW i \in Fleet
  PROVE  /\ Launches(i) => Changes(i, "pending", fleet[i].check)
         /\ ActivationChecks(i) => Changes(i, "pending", TRUE)
         /\ ActivationCommits(i) => Changes(i, "active", FALSE)
         /\ ActivationFails(i) => Changes(i, "pending", FALSE)
         /\ Leaves(i) => Changes(i, "gone", FALSE)
         /\ PurgesBadNodes(i) => Changes(i, "gone", FALSE)
         /\ KicksInstance(i) => Changes(i, "gone", FALSE)
  <1>1. fleet \in [Fleet -> Member] /\ fleet[i] \in Member
    BY DEF ScaleTypeOK
  <1> DEFINE m(stage, check) == [stage |-> stage, nodes |-> fleet[i].nodes, check |-> check]
  <1>2. \A stage \in Stages, check \in BOOLEAN : m(stage, check) \in Member
    BY <1>1 DEF Member, Stages
  <1>3. /\ Launches(i) => fleet' = [fleet EXCEPT ![i] = m("pending", fleet[i].check)]
        /\ ActivationChecks(i) => fleet' = [fleet EXCEPT ![i] = m("pending", TRUE)]
        /\ ActivationCommits(i) => fleet' = [fleet EXCEPT ![i] = m("active", FALSE)]
        /\ ActivationFails(i) => fleet' = [fleet EXCEPT ![i] = m("pending", FALSE)]
        /\ Leaves(i) => fleet' = [fleet EXCEPT ![i] = m("gone", FALSE)]
        /\ PurgesBadNodes(i) => fleet' = [fleet EXCEPT ![i] = m("gone", FALSE)]
        /\ KicksInstance(i) => fleet' = [fleet EXCEPT ![i] = m("gone", FALSE)]
    BY <1>1 DEF Member, Launches, ActivationChecks, ActivationCommits, ActivationFails, Leaves,
                PurgesBadNodes, KicksInstance, Removes
  <1>4. \A stage, check : m(stage, check).stage = stage /\ m(stage, check).check = check
    OBVIOUS
  <1>5. fleet[i].check \in BOOLEAN
    BY <1>1 DEF Member
  <1> HIDE DEF m
  <1>6. \A stage \in Stages, check \in BOOLEAN :
            fleet' = [fleet EXCEPT ![i] = m(stage, check)] => Changes(i, stage, check)
    <2> SUFFICES ASSUME NEW stage \in Stages, NEW check \in BOOLEAN,
                        fleet' = [fleet EXCEPT ![i] = m(stage, check)]
                 PROVE  Changes(i, stage, check)
      OBVIOUS
    <2>1. /\ m(stage, check) \in Member
          /\ m(stage, check).stage = stage
          /\ m(stage, check).check = check
      BY <1>2, <1>4
    <2>2. QED
      BY <2>1, Zenon DEF Changes
  <1>7. QED
    BY <1>3, <1>5, <1>6 DEF Stages

-----------------------------------------------------------------------------
(* The invariant. *)

\* Of a private chute, unless activations raced: nobody goes beyond the cap, not
\* the target left in redis, not the count, and whoever has passed the check may
\* yet become active.
Capped == ~chute.public /\ ~raced =>
              /\ ActiveCount <= chute.max /\ scale <= chute.max /\ plan.count <= chute.max
              /\ \A i \in Fleet : fleet[i].check => ActiveCount < chute.max

\* Unless an instance went otherwise: those that were counted are there, those
\* loaded are active, and what is still to be removed exceeds the target.
Enough == ~plan.lost =>
              /\ plan.pc = "counted" => plan.count <= ActiveCount /\ plan.remove = 0
              /\ plan.pc \in {"decided", "purge", "kick"} /\ plan.remove > 0 =>
                     plan.target + plan.remove <= ActiveCount
              /\ plan.pc \in {"purge", "kick"} => plan.found \subseteq Active

ScaleInv == ScaleTypeOK /\ Capped /\ Enough

LEMMA ScaleStart == ScaleInit => ScaleInv
  <1> SUFFICES ASSUME ScaleInit PROVE ScaleInv
    OBVIOUS
  <1>1. ScaleTypeOK
    <2>1. fleet \in [Fleet -> Member]
      <3>1. \A n \in BOOLEAN : [stage |-> "none", nodes |-> n, check |-> FALSE] \in Member
        BY DEF Member
      <3>2. {[stage |-> "none", nodes |-> n, check |-> FALSE] : n \in BOOLEAN} \subseteq Member
        BY <3>1
      <3>3. QED
        BY <3>2 DEF ScaleInit
    <2>2. plan \in Plan
      BY DEF ScaleInit, Plan, NoPlan
    <2>3. QED
      BY <2>1, <2>2 DEF ScaleInit, ScaleTypeOK
  <1>2. Active = {} /\ ActiveCount = 0
    <2>1. Active = {}
      BY DEF ScaleInit, Active
    <2>2. QED
      BY <2>1, FS_EmptySet DEF ActiveCount
  <1>3. chute.max \in Nat
    BY KindAssumption DEF ScaleInit, Kind
  <1>4. QED
    BY <1>1, <1>2, <1>3 DEF ScaleInit, ScaleInv, Capped, Enough, NoPlan

LEMMA ScaleTypes ==
  ASSUME ScaleTypeOK
  PROVE  /\ fleet \in [Fleet -> Member] /\ plan \in Plan /\ chute \in Kind /\ chute.max \in Nat \ {0}
         /\ scale \in Nat /\ bounty \in BOOLEAN /\ rolling \in BOOLEAN /\ raced \in BOOLEAN
         /\ plan.count \in Nat /\ plan.target \in Nat /\ plan.remove \in Nat /\ plan.lost \in BOOLEAN
  BY KindAssumption DEF ScaleTypeOK, Kind, Plan

LEMMA ScaleStep == ScaleInv /\ [ScaleNext]_scaleVars => ScaleInv'
  <1> SUFFICES ASSUME ScaleInv, [ScaleNext]_scaleVars PROVE ScaleInv'
    OBVIOUS
  <1>1. ScaleTypeOK /\ Capped /\ Enough
    BY DEF ScaleInv
  <1>2. /\ fleet \in [Fleet -> Member] /\ plan \in Plan /\ chute \in Kind /\ chute.max \in Nat \ {0}
        /\ scale \in Nat /\ bounty \in BOOLEAN /\ rolling \in BOOLEAN /\ raced \in BOOLEAN
        /\ plan.count \in Nat /\ plan.target \in Nat /\ plan.remove \in Nat /\ plan.lost \in BOOLEAN
    BY <1>1, ScaleTypes
  <1>3. ActiveCount \in Nat
    BY Counting
  <1>4. \* Neither the instances nor what the autoscaler keeps.
        ASSUME UNCHANGED <<chute, fleet, scale, plan, raced>>,
               rolling' \in BOOLEAN, bounty' \in BOOLEAN
        PROVE  ScaleInv'
    BY <1>1, <1>4 DEF ScaleInv, ScaleTypeOK, Capped, Enough, Active, ActiveCount
  <1>5. CASE Request \/ BountyExpires \/ RollingChanges \/ UNCHANGED scaleVars
    BY <1>2, <1>4, <1>5 DEF Request, BountyExpires, RollingChanges, scaleVars
  <1>6. \* The autoscaler takes a step, and no instance changes.
        ASSUME UNCHANGED <<chute, rolling, fleet, bounty, raced>>, plan' \in Plan, scale' \in Nat,
               Enough', ~chute.public /\ ~raced => scale' <= chute.max /\ plan'.count <= chute.max
        PROVE  ScaleInv'
    BY <1>1, <1>6 DEF ScaleInv, ScaleTypeOK, Capped, Active, ActiveCount
  <1>7. CASE Counts
    <2> DEFINE p == [pc |-> "counted", count |-> ActiveCount,
                     skip |-> chute.public /\ rolling /\ ActiveCount > 0, target |-> 0,
                     remove |-> 0, old |-> {i \in Fleet : fleet[i].stage \in {"pending", "active"}},
                     found |-> {}, lost |-> FALSE]
    <2>1. UNCHANGED <<chute, rolling, fleet, bounty, scale, raced>> /\ plan' = p
      BY <1>7 DEF Counts, NoPlan
    <2>2. plan' \in Plan
      BY <1>2, <1>3, <2>1 DEF Plan
    <2>3. Enough'
      BY <1>3, <2>1 DEF Enough, Active, ActiveCount
    <2>4. ~chute.public /\ ~raced => scale' <= chute.max /\ plan'.count <= chute.max
      BY <1>1, <2>1 DEF Capped
    <2>5. QED
      BY <1>2, <1>6, <2>1, <2>2, <2>3, <2>4
  <1>8. CASE Decides
    <2>1. UNCHANGED <<chute, rolling, fleet, bounty, raced>> /\ plan.pc = "counted"
      BY <1>8 DEF Decides
    <2>2. PICK m \in MetricSet :
              LET d == Decision(chute, bounty, plan.count, m)
              IN  IF plan.skip
                  THEN /\ plan' = [plan EXCEPT !.pc = "decided", !.target = plan.count]
                       /\ UNCHANGED scale
                  ELSE /\ plan' = [plan EXCEPT !.pc = "decided", !.target = d.target,
                                               !.remove = d.remove]
                       /\ scale' = d.target
      BY <1>8 DEF Decides
    <2> DEFINE d == Decision(chute, bounty, plan.count, m)
    <2>3. /\ d.target \in Nat /\ d.remove \in Nat
          /\ d.remove > 0 => d.target + d.remove = plan.count
          /\ ~chute.public /\ plan.count <= chute.max => d.target <= chute.max
      <3>1. m \in Metrics
        BY KindAssumption
      <3>2. QED
        BY <1>2, <3>1, DecisionSound DEF Sound
    <2>4. \/ plan.skip /\ plan' = [plan EXCEPT !.pc = "decided", !.target = plan.count]
             /\ scale' = scale
          \/ plan' = [plan EXCEPT !.pc = "decided", !.target = d.target, !.remove = d.remove]
             /\ scale' = d.target
      BY <2>2
    <2> HIDE DEF d
    <2>5. /\ plan' \in Plan /\ scale' \in Nat
          /\ plan'.count = plan.count /\ plan'.lost = plan.lost /\ plan'.pc = "decided"
          /\ \/ plan'.remove = plan.remove
             \/ plan'.remove = d.remove /\ plan'.target = d.target
          /\ scale' = scale \/ scale' = d.target
      <3>1. CASE plan' = [plan EXCEPT !.pc = "decided", !.target = plan.count] /\ scale' = scale
        BY <1>2, <3>1 DEF Plan
      <3>2. CASE plan' = [plan EXCEPT !.pc = "decided", !.target = d.target, !.remove = d.remove]
                 /\ scale' = d.target
        BY <1>2, <2>3, <3>2 DEF Plan
      <3>3. QED
        BY <2>4, <3>1, <3>2
    <2>6. Enough'
      BY <1>1, <1>2, <1>3, <2>1, <2>3, <2>5 DEF Enough, Active, ActiveCount
    <2>7. ~chute.public /\ ~raced => scale' <= chute.max /\ plan'.count <= chute.max
      BY <1>1, <2>3, <2>5 DEF Capped
    <2>8. QED
      BY <1>6, <2>1, <2>5, <2>6, <2>7
  <1>9. CASE AutoscaleEnds \/ LoadsFleet \/ StartsKicking
    <2>1. UNCHANGED <<chute, rolling, fleet, bounty, scale, raced>>
      BY <1>9 DEF AutoscaleEnds, LoadsFleet, StartsKicking
    <2>2. Active \in SUBSET Fleet
      BY DEF Active
    <2>3. \/ plan' = NoPlan
          \/ plan.pc = "decided" /\ plan' = [plan EXCEPT !.pc = "purge", !.found = Active]
          \/ plan.pc = "purge" /\ plan' = [plan EXCEPT !.pc = "kick"]
      BY <1>9 DEF AutoscaleEnds, LoadsFleet, StartsKicking
    <2>4. plan' \in Plan /\ plan'.count \in {0, plan.count}
      <3>1. CASE plan' = NoPlan
        BY <3>1 DEF Plan, NoPlan
      <3>2. CASE plan' = [plan EXCEPT !.pc = "purge", !.found = Active]
        BY <1>2, <2>2, <3>2 DEF Plan
      <3>3. CASE plan' = [plan EXCEPT !.pc = "kick"]
        BY <1>2, <3>3 DEF Plan
      <3>4. QED
        BY <2>3, <3>1, <3>2, <3>3
    <2>5. Enough'
      <3>1. Active' = Active /\ ActiveCount' = ActiveCount
        BY <2>1 DEF Active, ActiveCount
      <3>2. CASE plan' = NoPlan
        BY <3>2 DEF Enough, NoPlan
      <3>3. CASE plan.pc = "decided" /\ plan' = [plan EXCEPT !.pc = "purge", !.found = Active]
        BY <1>1, <1>2, <3>1, <3>3 DEF Enough, Plan
      <3>4. CASE plan.pc = "purge" /\ plan' = [plan EXCEPT !.pc = "kick"]
        BY <1>1, <1>2, <3>1, <3>4 DEF Enough, Plan
      <3>5. QED
        BY <2>3, <3>2, <3>3, <3>4
    <2>6. QED
      BY <1>1, <1>2, <1>6, <2>1, <2>4, <2>5 DEF Capped
  <1>10. \* An instance changes, or goes.
         ASSUME NEW i \in Fleet, NEW stage \in {"pending", "active", "gone"}, NEW check \in BOOLEAN,
                Changes(i, stage, check)
         PROVE  /\ fleet' \in [Fleet -> Member]
                /\ fleet'[i].stage = stage /\ fleet'[i].check = check
                /\ \A j \in Fleet \ {i} : fleet'[j] = fleet[j]
                /\ stage = "active" => Active' = Active \cup {i}
                                       /\ ActiveCount' \in {ActiveCount, ActiveCount + 1}
                /\ stage # "active" => Active' = Active \ {i} /\ ActiveCount' <= ActiveCount
                /\ stage # "active" /\ i \in Active => ActiveCount' = ActiveCount - 1
                /\ stage # "active" /\ i \notin Active => ActiveCount' = ActiveCount
                /\ ActiveCount' \in Nat
    <2>1. PICK m \in Member : /\ fleet' = [fleet EXCEPT ![i] = m]
                              /\ m.stage = stage /\ m.check = check
      BY <1>10 DEF Changes
    <2>2. /\ fleet' \in [Fleet -> Member] /\ fleet'[i] = m
          /\ \A j \in Fleet \ {i} : fleet'[j] = fleet[j]
          /\ Active' = IF m.stage = "active" THEN Active \cup {i} ELSE Active \ {i}
      BY <1>2, <2>1, OneChanges
    <2>3. /\ Cardinality(Active \cup {i}) \in {ActiveCount, ActiveCount + 1}
          /\ Cardinality(Active \ {i}) \in Nat
          /\ i \in Active => Cardinality(Active \ {i}) = ActiveCount - 1
          /\ i \notin Active => Cardinality(Active \ {i}) = ActiveCount
      BY Counting DEF ActiveCount
    <2>4. ActiveCount' = Cardinality(Active')
      BY DEF ActiveCount
    <2>5. CASE stage = "active"
      <3>1. Active' = Active \cup {i}
        BY <2>1, <2>2, <2>5
      <3>2. ActiveCount' = Cardinality(Active \cup {i})
        BY <2>4, <3>1
      <3>3. QED
        BY <1>3, <2>1, <2>2, <2>3, <2>5, <3>1, <3>2
    <2>6. CASE stage # "active"
      <3>1. Active' = Active \ {i}
        BY <2>1, <2>2, <2>6
      <3>2. ActiveCount' = Cardinality(Active \ {i})
        BY <2>4, <3>1
      <3>3. QED
        BY <1>3, <2>1, <2>2, <2>3, <2>6, <3>1, <3>2
    <2>7. QED
      BY <2>5, <2>6
  <1>11. ASSUME NEW i \in Fleet, Launches(i) \/ ActivationChecks(i) \/ ActivationFails(i)
         PROVE  ScaleInv'
    <2>1. /\ UNCHANGED <<chute, rolling, scale, plan, raced>> /\ bounty' \in BOOLEAN
          /\ i \notin Active
      BY <1>2, <1>11 DEF Launches, ActivationChecks, ActivationFails, Active
    <2>2. PICK check \in BOOLEAN :
              /\ Changes(i, "pending", check)
              /\ check => fleet[i].check \/ chute.public \/ CanActivate
      <3>1. fleet[i].check \in BOOLEAN
        BY <1>2 DEF Member
      <3>2. CASE Launches(i)
        BY <1>1, <3>1, <3>2, InstanceChanges
      <3>3. CASE ActivationChecks(i)
        BY <1>1, <3>3, InstanceChanges DEF ActivationChecks
      <3>4. CASE ActivationFails(i)
        BY <1>1, <3>4, InstanceChanges
      <3>5. QED
        BY <1>11, <3>2, <3>3, <3>4
    <2>3. /\ fleet' \in [Fleet -> Member] /\ fleet'[i].check = check
          /\ \A j \in Fleet \ {i} : fleet'[j] = fleet[j]
          /\ Active' = Active /\ ActiveCount' = ActiveCount
      BY <1>10, <2>1, <2>2
    <2>4. ScaleTypeOK'
      BY <1>1, <1>2, <2>1, <2>3 DEF ScaleTypeOK
    <2>5. Enough'
      BY <1>1, <2>1, <2>3 DEF Enough
    <2>6. CanActivate /\ ~chute.public /\ ~raced => ActiveCount < chute.max
      BY <1>1, <1>2, <1>3 DEF Capped, CanActivate
    <2>7. Capped'
      BY <1>1, <2>1, <2>2, <2>3, <2>6 DEF Capped
    <2>8. QED
      BY <2>4, <2>5, <2>7 DEF ScaleInv
  <1>12. ASSUME NEW i \in Fleet, ActivationCommits(i) PROVE ScaleInv'
    <2>1. /\ UNCHANGED <<chute, rolling, scale, plan>> /\ bounty' \in BOOLEAN /\ fleet[i].check
          /\ raced' = (raced \/ \E j \in Fleet \ {i} : fleet[j].check)
      BY <1>2, <1>12 DEF ActivationCommits, Kind
    <2>2. Changes(i, "active", FALSE)
      BY <1>1, <1>12, InstanceChanges
    <2>3. /\ fleet' \in [Fleet -> Member] /\ fleet'[i].check = FALSE
          /\ \A j \in Fleet \ {i} : fleet'[j] = fleet[j]
          /\ Active' = Active \cup {i}
          /\ ActiveCount' \in {ActiveCount, ActiveCount + 1}
      BY <1>10, <2>2
    <2>4. ScaleTypeOK'
      BY <1>1, <1>2, <2>1, <2>3 DEF ScaleTypeOK
    <2>5. Enough'
      <3>1. Active \subseteq Active' /\ ActiveCount' \in Nat /\ ActiveCount <= ActiveCount'
        BY <1>3, <2>3
      <3>2. QED
        BY <1>1, <1>2, <1>3, <2>1, <3>1 DEF Enough
    <2>6. Capped'
      <3>1. ~raced' => ~raced /\ \A j \in Fleet : ~fleet'[j].check
        BY <1>2, <2>1, <2>3, Zenon
      <3>2. ~chute.public /\ ~raced => ActiveCount + 1 <= chute.max
        BY <1>1, <1>2, <1>3, <2>1 DEF Capped
      <3>3. UNCHANGED <<chute, scale, plan>>
        BY <2>1
      <3>4. ActiveCount' <= ActiveCount + 1 /\ ActiveCount' \in Nat
        BY <1>3, <2>3
      <3>5. QED
        BY <1>1, <1>2, <1>3, <3>1, <3>2, <3>3, <3>4 DEF Capped
    <2>7. QED
      BY <2>4, <2>5, <2>6 DEF ScaleInv
  <1>13. ASSUME NEW i \in Fleet, Leaves(i) PROVE ScaleInv'
    <2>1. /\ UNCHANGED <<chute, rolling, scale, bounty, raced>>
          /\ plan' = [plan EXCEPT !.lost = plan.pc # "idle"]
      BY <1>13 DEF Leaves
    <2>2. Changes(i, "gone", FALSE)
      BY <1>1, <1>13, InstanceChanges
    <2>3. /\ fleet' \in [Fleet -> Member] /\ fleet'[i].check = FALSE
          /\ \A j \in Fleet \ {i} : fleet'[j] = fleet[j]
          /\ ActiveCount' <= ActiveCount /\ ActiveCount' \in Nat
      BY <1>10, <2>2
    <2>4. /\ plan' \in Plan /\ plan'.count = plan.count /\ plan'.pc = plan.pc
          /\ plan'.lost = (plan.pc # "idle")
      BY <1>2, <2>1 DEF Plan
    <2>5. ScaleTypeOK'
      BY <1>1, <1>2, <2>1, <2>3, <2>4 DEF ScaleTypeOK
    <2>6. Enough'
      BY <2>4 DEF Enough
    <2>7. Capped'
      BY <1>1, <1>2, <1>3, <2>1, <2>3, <2>4 DEF Capped
    <2>8. QED
      BY <2>5, <2>6, <2>7 DEF ScaleInv
  <1>14. ASSUME NEW i \in Fleet, PurgesBadNodes(i) \/ KicksInstance(i) PROVE ScaleInv'
    <2>1. /\ UNCHANGED <<chute, rolling, bounty, scale, raced>>
          /\ plan.pc \in {"purge", "kick"} /\ i \in plan.found
      BY <1>14 DEF PurgesBadNodes, KicksInstance
    <2>2. PICK n \in Nat : /\ plan' = [plan EXCEPT !.found = @ \ {i}, !.remove = n]
                           /\ n > 0 => n = plan.remove - 1
      <3>1. CASE PurgesBadNodes(i)
        <4>1. OneLess(plan.remove) \in Nat
              /\ (OneLess(plan.remove) > 0 => OneLess(plan.remove) = plan.remove - 1)
          BY <1>2 DEF OneLess
        <4>2. plan' = [plan EXCEPT !.found = @ \ {i}, !.remove = OneLess(plan.remove)]
          BY <3>1 DEF PurgesBadNodes
        <4>3. QED
          BY <4>1, <4>2
      <3>2. CASE KicksInstance(i)
        <4>1. plan.remove - 1 \in Nat
          BY <1>2, <3>2 DEF KicksInstance
        <4>2. plan' = [plan EXCEPT !.found = @ \ {i}, !.remove = plan.remove - 1]
          BY <3>2 DEF KicksInstance
        <4>3. QED
          BY <4>1, <4>2
      <3>3. QED
        BY <1>14, <3>1, <3>2
    <2>3. Changes(i, "gone", FALSE)
      BY <1>1, <1>14, InstanceChanges
    <2>4. /\ fleet' \in [Fleet -> Member] /\ fleet'[i].check = FALSE
          /\ \A j \in Fleet \ {i} : fleet'[j] = fleet[j]
          /\ Active' = Active \ {i}
          /\ ActiveCount' <= ActiveCount /\ ActiveCount' \in Nat
          /\ i \in Active => ActiveCount' = ActiveCount - 1
      BY <1>10, <2>3
    <2>5. /\ plan' \in Plan /\ plan'.count = plan.count /\ plan'.pc = plan.pc
          /\ plan'.lost = plan.lost /\ plan'.target = plan.target /\ plan'.remove = n
          /\ plan'.found = plan.found \ {i}
      BY <1>2, <2>2 DEF Plan
    <2>6. ScaleTypeOK'
      BY <1>1, <1>2, <2>1, <2>4, <2>5 DEF ScaleTypeOK
    <2>7. Enough'
      BY <1>1, <1>2, <1>3, <2>1, <2>2, <2>4, <2>5 DEF Enough
    <2>8. Capped'
      BY <1>1, <1>2, <1>3, <2>1, <2>4, <2>5 DEF Capped
    <2>9. QED
      BY <2>6, <2>7, <2>8 DEF ScaleInv
  <1>15. QED
    BY <1>5, <1>7, <1>8, <1>9, <1>11, <1>12, <1>13, <1>14 DEF ScaleNext

LEMMA ScaleInvariant == ScaleSpec => []ScaleInv
  BY ScaleStart, ScaleStep, PTL DEF ScaleSpec

-----------------------------------------------------------------------------
(* The theorems. *)

\* perform_autoscale and what changes instances meanwhile: every state is of its
\* types; in particular targets and what is to be removed are never negative.
THEOREM TypeCorrect == ScaleSpec => []ScaleTypeOK
  BY ScaleInvariant, PTL DEF ScaleInv

\* _check_scalable_private, the autoscaler: a private chute never has more active
\* instances than max_instances, unless two activations raced.
THEOREM PrivateIsCapped == ScaleSpec => []PrivateCap
  <1>1. ScaleInv => PrivateCap
    BY DEF ScaleInv, Capped, PrivateCap
  <1>2. QED
    BY <1>1, ScaleInvariant, PTL

\* perform_autoscale: kicking an instance leaves at least as many active ones as
\* the target decided on, unless others went in the meantime.
THEOREM KickingLeavesTarget == ScaleSpec => TargetLeft
  <1>1. ScaleInv /\ ScaleInv' =>
            [\A i \in Fleet : KickedNow(i) =>
                 Cardinality(Active \ {i}) >= plan.target \/ plan.lost]_scaleVars
    <2> SUFFICES ASSUME ScaleInv, ScaleInv', NEW i \in Fleet, KickedNow(i), ~plan.lost
                 PROVE  Cardinality(Active \ {i}) >= plan.target
      OBVIOUS
    <2>1. plan.target \in Nat /\ plan.remove \in Nat /\ plan.pc = "kick" /\ i \in Active
      BY ScaleTypes DEF ScaleInv, KickedNow, Active
    <2>2. plan'.remove \in Nat /\ plan'.remove < plan.remove
      BY DEF ScaleInv, ScaleTypeOK, Plan, KickedNow
    <2>3. plan.target + plan.remove <= ActiveCount
      BY <2>1, <2>2 DEF ScaleInv, Enough
    <2>4. ActiveCount \in Nat /\ Cardinality(Active \ {i}) = ActiveCount - 1
      BY <2>1, Counting
    <2>5. QED
      BY <2>1, <2>2, <2>3, <2>4
  <1>2. QED
    BY <1>1, ScaleInvariant, PTL DEF TargetLeft
=============================================================================
