----------------------------- MODULE MCJobClaim -----------------------------
\* A small instance of JobClaim: one job, two miners that may race for it,
\* two launch configs and two requests at a time.
EXTENDS JobClaim, TLC
CONSTANTS m1, m2, j1, c1, c2, r1, r2

MCMiners == {m1, m2}
MCJobs == {j1}
MCConfigs == {c1, c2}
MCRequests == {r1, r2}
MCSymmetry == Permutations(Miners) \cup Permutations(Configs) \cup Permutations(Requests)
=============================================================================
