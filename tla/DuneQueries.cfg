SPECIFICATION Spec
CONSTANTS
    c1 = c1
    c2 = c2
    Runs = {r1, r2}
    Chains = {c1, c2}
    Requested <- Requests
    Queries = {1, 2, 3, 4}
    Cap = 3
    MaxRequests = 2
    MaxMishaps = 1
    None = None
INVARIANTS TypeOK AnswersAreOwn QuotasAreSpared
CHECK_DEADLOCK FALSE
SYMMETRY Interchangeable
