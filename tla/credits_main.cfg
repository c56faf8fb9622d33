SPECIFICATION FairSpec
CONSTANTS
    u1 = u1  api = api  s1 = s1  s2 = s2
    Users = {u1}
    NoKey = NoKey
    Amounts = {1, 2}
    CreditTypes = {api}
    Keys = {k1, k2}
    MaxTime = 2
    ExpiryTimes = {3}
    HoldTimes = {1}
    MaxBlocks = 2
    MaxHolds = 2
    BatchSize = 1
    Subs <- TwoSubs
    SubUser <- OwnedByU1
    CreditsSpec <- GrantSpecs
    Periods = {1, 2}
INVARIANTS
    HeldIsActiveHolds
    BalanceBacked
    NoCreditCreated
    HoldsCovered
    DepositsIdempotent
PROPERTIES
    HoldLifecycle
    ExpiredHoldsReturned
    ExpiredBlocksSwept
