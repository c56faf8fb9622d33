SPECIFICATION Spec
CONSTANTS
    nmi = nmi  ccb = ccb  premium = premium  vip = vip  gold = gold  silver = silver
    Subs = {ccb}
    NMISubs = {}
    Ents = {premium}
    Premium = premium
    Products = {gold}
    NoProduct = NoProduct
    TierRank <- Rank1
    EntSpec <- Spec1
    ProductOf <- Owns1
    Sources <- LifecycleSources
    Workers = {w1}
    NoTx = NoTx
    Txns = {t1, t2}
    Dates = {3}
    Cycle = 1
    DunningInterval = 1
    MaxDunningFailures = 2
    DunningMode = "on"
    KeepEntitlements = FALSE
    MaxTime = 2
    Horizon = 3
    MaxWindows = 2
INVARIANTS
    ChargebackIsTerminal
