SPECIFICATION FairSpec
CONSTANTS
    Sweepers = {s1}
    Tokens = {t1, t2}
    SolanaTokens = {t2}
    Required = 1
    MaxWallets = 1
    MaxChanges = 0
    MaxMutes = 0
    MaxFaults = 0
    None = None
PROPERTIES ThresholdFires
CHECK_DEADLOCK FALSE
