SPECIFICATION Spec
CONSTANTS
    Syncers = {h1, h2}
    Wallets = {1, 2, 3}
    Batch = 1
    MaxSyncs = 3
    MaxChanges = 1
    MaxVanished = 1
    MaxFaults = 1
    None = None
SYMMETRY Interchangeable
INVARIANTS TypeOK SoloSyncExact OrphansNeedFault
CHECK_DEADLOCK FALSE
