\* Three concurrent requests, one crash: every interleaving of their steps.
SPECIFICATION Spec
CONSTANTS
    p1 = p1
    p2 = p2
    p3 = p3
    r1 = r1
    r2 = r2
    r3 = r3
    Seed = Seed
    NoOne = NoOne
    Profiles <- ThreeProfiles
    Requests <- ThreeRequests
    MaxConcurrent = 3
    MaxCrashes = 1
SYMMETRY Interchangeable
INVARIANTS
    TypeOK
    AtMostOneActive
    DeletedInactive
    AnswersAreTruthful
    ChosenStaysActive
    SomeoneActive
PROPERTIES
    DeletedFrozen
    AbstractSpec
\* Requests end and nobody has to send more.
CHECK_DEADLOCK FALSE
