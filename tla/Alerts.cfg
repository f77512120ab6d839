SPECIFICATION FairSpec
CONSTANTS
    Sweepers = {s1, s2}
    Tokens = {t1}
    SolanaTokens = {}
    Required = 1
    MaxWallets = 2
    MaxChanges = 2
    MaxMutes = 2
    MaxFaults = 1
    None = None
INVARIANTS TypeOK NewToldOnce FiresAreStamped StrengthIsTold
PROPERTIES DismissalStands SignalSettles
CHECK_DEADLOCK FALSE
