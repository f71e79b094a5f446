------------------------------ MODULE Scaling ------------------------------
(***************************************************************************)
(* perform_autoscale for one chute, public or private, with what changes   *)
(* its instances meanwhile: launches and activations, which for a private  *)
(* chute ask for a bounty or for the target the autoscaler left in redis,  *)
(* and the shutdown of instances nobody uses.                              *)
(* Launches for public chutes are in Rollout.                              *)
(***************************************************************************)
EXTENDS ScaleDecision, FiniteSets

CONSTANTS Fleet,        \* instances
          ChuteKinds,   \* the chutes considered, see Kind
          MetricSet     \* what prometheus may say, see Metrics

ASSUME FleetAssumption == IsFiniteSet(Fleet)
ASSUME KindAssumption == ChuteKinds \subseteq Kind /\ MetricSet \subseteq Metrics

VARIABLES chute,      \* its kind
          rolling,    \* there is a rolling_updates row
          fleet,      \* the instances
          bounty,     \* bounty:{chute_id}
          scale,      \* scale:{chute_id}, 0 when unset
          plan,       \* perform_autoscale in progress
          raced       \* history: an activation committed over another one

scaleVars == <<chute, rolling, fleet, bounty, scale, plan, raced>>

\* nodes: as many as the chute asks for.  check: its activation has passed.
Member == [stage : {"none", "pending", "active", "gone"}, nodes : BOOLEAN, check : BOOLEAN]
\* old: there at the count.  found: the instances loaded.  lost:
\* history, an instance went otherwise since the count.
Plan == [pc : {"idle", "counted", "decided", "purge", "kick"}, count : Nat, skip : BOOLEAN,
         target : Nat, remove : Nat, old : SUBSET Fleet, found : SUBSET Fleet,
         lost : BOOLEAN]

NoPlan == [pc |-> "idle", count |-> 0, skip |-> FALSE, target |-> 0, remove |-> 0,
           old |-> {}, found |-> {}, lost |-> FALSE]

ScaleInit == /\ chute \in ChuteKinds
             /\ rolling = FALSE
             /\ fleet \in [Fleet -> {[stage |-> "none", nodes |-> n, check |-> FALSE] :
                                         n \in BOOLEAN}]
             /\ bounty = FALSE
             /\ scale = 0
             /\ plan = NoPlan
             /\ raced = FALSE

Active == {i \in Fleet : fleet[i].stage = "active"}
ActiveCount == Cardinality(Active)

-----------------------------------------------------------------------------
(* Instances. *)

\* _check_scalable_private, when the config is given out and when it is claimed.
ScalablePrivate == /\ ActiveCount > 0 \/ bounty
                   /\ scale = 0 \/ ActiveCount < scale

Launches(i) ==
    /\ fleet[i].stage = "none"
    /\ chute.public \/ ScalablePrivate
    /\ fleet' = [fleet EXCEPT ![i].stage = "pending"]
    /\ UNCHANGED <<chute, rolling, bounty, scale, plan, raced>>

\* Mutant: one too many.
UpToTarget == (ActiveCount = 0 /\ bounty) \/ ActiveCount <= scale
CanActivate == (ActiveCount = 0 /\ bounty) \/ ActiveCount < scale

\* A refusal is announced as a deletion, which is rolled back by the error that
\* follows: the instance may try again.
ActivationChecks(i) ==
    /\ fleet[i].stage = "pending"
    /\ ~fleet[i].check
    /\ chute.public \/ CanActivate
    /\ fleet' = [fleet EXCEPT ![i].check = TRUE]
    /\ UNCHANGED <<chute, rolling, bounty, scale, plan, raced>>

\* The bounty of a private chute is deleted, then the transaction commits.
ActivationCommits(i) ==
    /\ fleet[i].stage = "pending"
    /\ fleet[i].check
    /\ fleet' = [fleet EXCEPT ![i].stage = "active", ![i].check = FALSE]
    /\ bounty' = (bounty /\ chute.public)
    /\ raced' = (raced \/ \E j \in Fleet \ {i} : fleet[j].check)
    /\ UNCHANGED <<chute, rolling, scale, plan>>

ActivationFails(i) ==
    /\ fleet[i].stage = "pending"
    /\ fleet[i].check
    /\ fleet' = [fleet EXCEPT ![i].check = FALSE]
    /\ bounty' = (bounty /\ chute.public)
    /\ UNCHANGED <<chute, rolling, scale, plan, raced>>

\* shutdown_stale_instances, terminate_zero_balance_user_instances, or any other
\* deletion; instance_cleanup removes what was not activated (see JobClaim).
Leaves(i) ==
    /\ fleet[i].stage \in {"pending", "active"}
    /\ fleet' = [fleet EXCEPT ![i].stage = "gone", ![i].check = FALSE]
    /\ plan' = [plan EXCEPT !.lost = plan.pc # "idle"]
    /\ UNCHANGED <<chute, rolling, bounty, scale, raced>>

\* A request that finds no target creates a bounty, but not during an update.
\* Targets are cached for a minute: there may be some by now.
Request ==
    /\ ~rolling
    /\ bounty' = TRUE
    /\ UNCHANGED <<chute, rolling, fleet, scale, plan, raced>>

\* After half an hour, for a private chute.
BountyExpires ==
    /\ bounty
    /\ bounty' = FALSE
    /\ UNCHANGED <<chute, rolling, fleet, scale, plan, raced>>

RollingChanges ==
    /\ rolling' = ~rolling
    /\ UNCHANGED <<chute, fleet, bounty, scale, plan, raced>>

-----------------------------------------------------------------------------
(* perform_autoscale. *)

Counts ==
    /\ plan.pc = "idle"
    /\ plan' = [NoPlan EXCEPT !.pc = "counted", !.count = ActiveCount,
                    !.old = {i \in Fleet : fleet[i].stage \in {"pending", "active"}},
                    !.skip = chute.public /\ rolling /\ ActiveCount > 0]
    /\ UNCHANGED <<chute, rolling, fleet, bounty, scale, raced>>

\* redis is written now, the bounty is looked up now; the count is the one of
\* the query.  Prometheus failed before if it did.
Decides ==
    /\ plan.pc = "counted"
    /\ \E m \in MetricSet :
         LET d == Decision(chute, bounty, plan.count, m)
         IN  IF plan.skip
             THEN /\ plan' = [plan EXCEPT !.pc = "decided", !.target = plan.count]
                  /\ UNCHANGED scale
             ELSE /\ plan' = [plan EXCEPT !.pc = "decided", !.target = d.target,
                                          !.remove = d.remove]
                  /\ scale' = d.target
    /\ UNCHANGED <<chute, rolling, fleet, bounty, raced>>

\* Nothing or nothing more is to be removed, a rolling update has begun, the rest
\* are not an hour old; or the process is killed or raises.
AutoscaleEnds ==
    /\ plan.pc # "idle"
    /\ plan' = NoPlan
    /\ UNCHANGED <<chute, rolling, fleet, bounty, scale, raced>>

LoadsFleet ==
    /\ plan.pc = "decided"
    /\ plan.remove > 0
    /\ ~rolling
    /\ plan' = [plan EXCEPT !.pc = "purge", !.found = Active]
    /\ UNCHANGED <<chute, rolling, fleet, bounty, scale, raced>>

\* Mutant: the purged instance does not count.
AllTheSame(n) == n
OneLess(n) == IF n = 0 THEN 0 ELSE n - 1

Removes(i) == fleet' = [fleet EXCEPT ![i].stage = "gone", ![i].check = FALSE]

\* Its nodes do not match the chute's node selector.
PurgesBadNodes(i) ==
    /\ plan.pc = "purge"
    /\ i \in plan.found
    /\ ~fleet[i].nodes
    /\ Removes(i)
    /\ plan' = [plan EXCEPT !.found = @ \ {i}, !.remove = OneLess(@)]
    /\ UNCHANGED <<chute, rolling, bounty, scale, raced>>

StartsKicking ==
    /\ plan.pc = "purge"
    /\ \A i \in plan.found : fleet[i].nodes
    /\ Cardinality(plan.found) >= UNDERUTILIZED_CAP
    /\ plan.remove > 0
    /\ plan' = [plan EXCEPT !.pc = "kick"]
    /\ UNCHANGED <<chute, rolling, fleet, bounty, scale, raced>>

\* A random one of those that were an hour old at the count, gone or not.
KicksInstance(i) ==
    /\ plan.pc = "kick"
    /\ plan.remove > 0
    /\ i \in plan.found \cap plan.old
    /\ Removes(i)
    /\ plan' = [plan EXCEPT !.found = @ \ {i}, !.remove = @ - 1]
    /\ UNCHANGED <<chute, rolling, bounty, scale, raced>>

-----------------------------------------------------------------------------
ScaleNext ==
    \/ Request \/ BountyExpires \/ RollingChanges
    \/ Counts \/ Decides \/ LoadsFleet \/ StartsKicking \/ AutoscaleEnds
    \/ \E i \in Fleet : \/ Launches(i) \/ ActivationChecks(i) \/ ActivationCommits(i)
                        \/ ActivationFails(i) \/ Leaves(i)
                        \/ PurgesBadNodes(i) \/ KicksInstance(i)

ScaleSpec == ScaleInit /\ [][ScaleNext]_scaleVars

-----------------------------------------------------------------------------
(* Properties. *)

ScaleTypeOK == /\ chute \in ChuteKinds
               /\ fleet \in [Fleet -> Member]
               /\ plan \in Plan
               /\ {rolling, bounty, raced} \subseteq BOOLEAN
               /\ scale \in Nat

\* A private chute never has more active instances than max_instances, which
\* only the autoscaler looks at: launches and activations only see the target
\* it leaves in redis, for as long as it does, and the bounty.  "This is
\* necessary here because we allow the miners to "race" to deploy"; of two
\* activations at the same time both may pass.
PrivateCap == ~chute.public => ActiveCount <= chute.max \/ raced

KickedNow(i) == plan.pc = "kick" /\ fleet[i].stage = "active" /\ fleet'[i].stage = "gone"
                /\ plan'.remove < plan.remove

\* Kicking never takes a chute below the target decided on, though instances
\* were counted before prometheus and redis were asked, and instances with the
\* wrong nodes go first: unless others went in the meantime.
TargetLeft ==
    [][\A i \in Fleet : KickedNow(i) =>
          Cardinality(Active \ {i}) >= plan.target \/ plan.lost]_scaleVars
=============================================================================
