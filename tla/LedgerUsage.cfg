\* Three users' hashes, three invocations, an adjustment; or two hashes, an invocation, a watcher, a transfer.
SPECIFICATION UsageOrBothSpec
CONSTANTS
    alice = alice
    bob = bob
    carl = carl
    ka = ka
    kb = kb
    kc = kc
    c1 = c1
    c2 = c2
    c3 = c3
    a1 = a1
    a2 = a2
    w1 = w1
    w2 = w2
    t1 = t1
    t2 = t2
    t3 = t3
    NoKey = NoKey
    NoWatcher = NoWatcher
    NoTransfer = NoTransfer
    Users = {alice, bob, carl}
    Adjustments = {a1}
    Keys = {ka, kb, kc}
    Charges = {c1, c2, c3}
    Transfers = {t1}
    FreeUsers = {carl}
    Dust = {}
    Watchers = {w1}
    MaxBlock = 2
    MaxRecovery = 1
    AdjustedUser <- MCAdjustedUser
    KeyUser <- MCKeyUser
    PayKey <- MCPayKey
    OwnerKey <- MCOwnerKey
    TransferTo <- MCTransferTo
    PaymentId <- MCPaymentId
INVARIANTS
    TypeOK
    DeductionsExplained
PROPERTIES
    AppliedOnce
    PendingSettles
    ChainFollowed
CHECK_DEADLOCK FALSE
