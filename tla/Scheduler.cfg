SPECIFICATION FairSpec
CONSTANTS
    Workers = {k1, k2}
    Clients = {c1}
    Watchlists = {w1, w2}
    Intervals = {1}
    Lease = 1
    Horizon = 1
    Keep = 0
    MaxRows = 1
    MaxRequests = 2
    MaxFaults = 1
    None = None
INVARIANTS TypeOK LeaseExcludes ClaimsAreHandled
PROPERTIES ClaimIsALock EventuallyServed
