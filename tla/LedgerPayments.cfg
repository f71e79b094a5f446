\* Two watchers, two users, two equal transfers and one that is dust, an adjustment; no usage.
SPECIFICATION PaymentsSpec
CONSTANTS
    alice = alice
    bob = bob
    carl = carl
    ka = ka
    kb = kb
    kc = kc
    c1 = c1
    c2 = c2
    c3 = c3
    a1 = a1
    a2 = a2
    w1 = w1
    w2 = w2
    t1 = t1
    t2 = t2
    t3 = t3
    NoKey = NoKey
    NoWatcher = NoWatcher
    NoTransfer = NoTransfer
    Users = {alice, bob}
    Adjustments = {a1}
    Keys = {}
    Charges = {}
    Transfers = {t1, t2, t3}
    FreeUsers = {}
    Dust = {t3}
    Watchers = {w1, w2}
    MaxBlock = 3
    MaxRecovery = 1
    AdjustedUser <- MCAdjustedUser
    KeyUser <- MCKeyUser
    PayKey <- MCPayKey
    OwnerKey <- MCOwnerKey
    TransferTo <- MCTransferTo
    PaymentId <- MCPaymentId
SYMMETRY MCSymmetry
INVARIANTS
    CursorCovers
    CreditedOnce
CHECK_DEADLOCK FALSE
