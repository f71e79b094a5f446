\* Two requests, two instances of concurrency one that are deleted after two failures, one free invocation.
SPECIFICATION Spec
CONSTANTS
    r1 = r1
    r2 = r2
    i1 = i1
    i2 = i2
    NoInstance = NoInstance
    Requests = {r1, r2}
    Instances = {i1, i2}
    MaxAttempts = 2
    Concurrency = 1
    FailureLimit = 2
    Quota = 1
    MaxBounties = 1
    MaxErrors = 1
SYMMETRY MCSymmetry
INVARIANTS
    TypeOK
    ConnsAreInUse
    PaidForResults
    BountyOnce
    DeletedForFailures
CHECK_DEADLOCK FALSE
