\* A bucket holds one request and a half, and is full again after three ticks.
SPECIFICATION Spec
CONSTANTS
    r1 = r1
    r2 = r2
    r3 = r3
    r4 = r4
    k1 = k1
    k2 = k2
    None = None
    Requests <- FourRequests
    Keys <- TwoKeys
    Rate = 1
    Burst = 3
    Cost = 2
    TTL = 3
    MaxTime = 5
SYMMETRY RequestSymmetry
INVARIANTS
    TypeOK
    WithinRate
PROPERTY
    RefusedWhenSpent
\* Requests come to an end, and so does the time.
CHECK_DEADLOCK FALSE
