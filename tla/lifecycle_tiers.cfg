SPECIFICATION Spec
SYMMETRY TxnSymmetry
CONSTANTS
    nmi = nmi  ccb = ccb  premium = premium  vip = vip  gold = gold  silver = silver
    Subs = {nmi, ccb}
    NMISubs = {nmi}
    Ents = {premium, vip}
    Premium = premium
    Products = {gold, silver}
    NoProduct = NoProduct
    TierRank <- Rank2
    EntSpec <- Spec2
    ProductOf <- Owns2
    Sources <- LifecycleSources
    Workers = {w1}
    NoTx = NoTx
    Txns = {t1, t2, t3}
    Dates = {3}
    Cycle = 1
    DunningInterval = 1
    MaxDunningFailures = 2
    DunningMode = "on"
    KeepEntitlements = FALSE
    MaxTime = 2
    Horizon = 4
    MaxWindows = 2
CONSTRAINT OneProcessor
INVARIANTS
    ChargebackLeavesNothingPaid
    PaidAccessIsOfProduct
PROPERTIES
    LifecycleKeepsHistory
