\* What the route documentation promises of an update.
SPECIFICATION Spec
CONSTANTS
    p1 = p1
    p2 = p2
    p3 = p3
    r1 = r1
    r2 = r2
    r3 = r3
    Seed = Seed
    NoOne = NoOne
    Profiles <- ThreeProfiles
    Requests <- ThreeRequests
    MaxConcurrent = 2
    MaxCrashes = 0
SYMMETRY Interchangeable
INVARIANT
    UpdateTakesEffect
CHECK_DEADLOCK FALSE
