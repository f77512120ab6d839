SPECIFICATION Spec
CONSTANTS
    Covered = {"events", "cohorts", "files", "screening", "trades", "holders"}
    Ann = Ann
    Ben = Ben
    Dex = Dex
    TokA = TokA
    TokB = TokB
    Coin = Coin
    Txs = {t1, t2}
    Contents <- AllKinds
    Addresses = {Ann, Ben}
    Contracts = {TokA, TokB}
    Window = 1
    Retention = 2
    Horizon = 3
    MaxDeliveries = 3
    MaxRewatches = 1
    Handlers = {p1, p2}
    Wallets = {y1, y2}
    MinCohorts = 2
    WalletCap = 1
    MaxId = 4
    MaxRequests = 4
    Jobs = {x1, x2, x3}
    Updates = {y1, y2}
    Entry = Entry
    Workers = 2
    MaxEntries = 1
    MaxCrashes = 1
    Screens = {p1, p2}
    VerdictTTL = 2
    UncheckedTTL = 0
    MaxElapsed = 1
    Watched = {x1, x2, x3}
    Strangers = {z}
    Tokens = {y1, y2, i}
    Ignored = {i}
    Amounts = {1, 2}
    Floors = {0, 2}
    Shares = {0, 70}
    MinWallets = 2
    MaxRows = 4
    Owners = {w}
    MaxBalance = 2
    LastDay = 3
    MaxFaults = 1
    None = None
INVARIANTS TypeOK CountsAreExact OneDerivedUnlessLapped CapHolds
    FilesAreWhole NewestAreKept VerdictsAreCurrent
    CandidatesAreExact ShownAsAsked
PROPERTIES SoloRebuildIsExact NeverRejuvenated
CHECK_DEADLOCK FALSE
SYMMETRY Interchangeable
