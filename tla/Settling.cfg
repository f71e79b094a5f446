CONSTANTS
    Requests = {"r1", "r2"}
    Forges = {"f1", "f2"}
    Readers = {"l1", "l2"}
    NoRequest = NoRequest
    Upgrade = Upgrade
    Stakers = {"s1", "s2"}
    MaxFailures = 3
    MaxFunds = 3
    Callers = {"c1", "c2"}
    QuotaRows <- MCRows
    DefaultQuota = 1
    MaxChanges = 1
    None = None
    Charges = {"p1", "p2"}
    DiscountRows <- MCDiscounts
    Overrides <- MCOverrides
    MaxRevisions = 1
    Quoted = 40
    NoValue = NoValue
SPECIFICATION SettlingSpec
INVARIANTS BuiltFromOwn OverrunBounded
PROPERTIES BuildSettles  StakedInTheEnd LookupsFollow
CHECK_DEADLOCK FALSE
