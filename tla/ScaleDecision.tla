--------------------------- MODULE ScaleDecision ---------------------------
(***************************************************************************)
(* What perform_autoscale decides of one chute: the target it leaves in    *)
(* redis and the number of instances to remove.  Ratios are in percent.    *)
(***************************************************************************)
EXTENDS Naturals

CONSTANTS UNDERUTILIZED_CAP, UTILIZATION_SCALE_UP, RATE_LIMIT_SCALE_UP,
          NewChuteTarget   \* 10

ASSUME CapAssumption == UNDERUTILIZED_CAP \in Nat /\ NewChuteTarget \in Nat

NoLimit == 99999
\* failsafe: FAILSAFE's entry, 0 for none.  limit: LIMIT_OVERRIDES' entry.
\* max: max_instances.  age: new chutes are not three hours old.
Kind == [public : BOOLEAN, failsafe : Nat, limit : Nat, max : Nat \ {0},
         age : {"old", "new", "new affine"}]
\* utilization: over 15 minutes and an hour.  recent: of 5 and 15 minutes.
\* limited: the larger ratio of the same windows; ever: one of the three is not 0.
Metrics == [utilization : Nat, recent : BOOLEAN, limited : Nat, ever : BOOLEAN]

Larger(m, n) == IF m >= n THEN m ELSE n

Grow(n, k) == [target |-> n + k, remove |-> 0]
Keep(n) == [target |-> n, remove |-> 0]
\* Mutant: the difference the wrong way round, as where instances are added.
ShrinkBack(n, k) == [target |-> n - k, remove |-> (n - k) - n]
Shrink(n, k) == [target |-> n - k, remove |-> k]

Percent(n, p) == (n * p) \div 100

MayGrow(n, max) == n < max

PrivateDecision(c, bounty, n, m) ==
    IF n = 0 THEN Keep(IF bounty THEN 1 ELSE 0)
    ELSE IF m.recent /\ MayGrow(n, c.max) THEN Grow(n, 1)
    ELSE IF ~m.recent /\ n > 1 THEN Shrink(n, 1)
    ELSE Keep(n)

\* FAILSAFE.get(chute_id, UNDERUTILIZED_CAP)
FailsafeMin(c) == IF c.failsafe = 0 THEN UNDERUTILIZED_CAP ELSE c.failsafe

GrowBusy(c, n, k) == [target |-> Larger(c.failsafe, n + k), remove |-> 0]

ByUtilization(c, n, u) ==
    IF 2 * u >= 3 * UTILIZATION_SCALE_UP THEN GrowBusy(c, n, Larger(3, Percent(n, 50)))
    ELSE IF 4 * u >= 5 * UTILIZATION_SCALE_UP THEN GrowBusy(c, n, Larger(2, Percent(n, 25)))
    ELSE GrowBusy(c, n, 1)

ByRateLimit(c, n, r) ==
    IF r >= 20 THEN GrowBusy(c, n, Larger(3, Percent(n, 30)))
    ELSE IF r >= 10 THEN GrowBusy(c, n, Larger(2, Percent(n, 15)))
    ELSE GrowBusy(c, n, Larger(1, Percent(n, 5)))

Surplus(n, u) ==
    IF n <= UNDERUTILIZED_CAP THEN 1
    ELSE IF u < 10 THEN Larger(1, Percent(n - UNDERUTILIZED_CAP, 20))
    ELSE IF u < 20 THEN Larger(1, Percent(n - UNDERUTILIZED_CAP, 10))
    ELSE 1

\* Not below the failsafe minimum.
Idling(c, n, u) ==
    IF n - Surplus(n, u) >= FailsafeMin(c) THEN Shrink(n, Surplus(n, u))
    ELSE IF n > FailsafeMin(c) THEN Shrink(n, n - FailsafeMin(c))
    ELSE Keep(Larger(FailsafeMin(c), n))

NewChute(c, n) ==
    LET target == IF c.age = "new" THEN Larger(NewChuteTarget, FailsafeMin(c)) ELSE FailsafeMin(c)
    IN  IF n > target THEN Shrink(n, n - target) ELSE Keep(target)

PublicDecision(c, n, m) ==
    IF n = 0 THEN Keep(Larger(UNDERUTILIZED_CAP, FailsafeMin(c)))
    ELSE IF c.limit < n THEN Shrink(n, n - c.limit)
    ELSE IF c.limit # NoLimit /\ n < c.limit THEN Keep(c.limit)
    ELSE IF m.utilization >= UTILIZATION_SCALE_UP THEN ByUtilization(c, n, m.utilization)
    ELSE IF m.limited >= RATE_LIMIT_SCALE_UP THEN ByRateLimit(c, n, m.limited)
    ELSE IF n >= UNDERUTILIZED_CAP /\ ~m.ever /\ c.age = "old" /\ c.limit = NoLimit
         THEN Idling(c, n, m.utilization)
    ELSE IF c.age # "old" THEN NewChute(c, n)
    ELSE Keep(Larger(FailsafeMin(c), n))

Decision(c, bounty, n, m) ==
    IF c.public THEN PublicDecision(c, n, m) ELSE PrivateDecision(c, bounty, n, m)
=============================================================================
