\* Two requests, two workers, a queue of one, two attempts each, under fairness.
SPECIFICATION FairSpec
CONSTANTS
    r1 = r1
    r2 = r2
    w1 = w1
    w2 = w2
    NoTask = NoTask
    Requests <- TwoRequests
    Workers <- TwoWorkers
    MaxQueue = 1
    MaxRetries = 1
    Upstream <- AnyAnswer
INVARIANTS
    TypeOK
    TaskAccounted
    OutcomeEarned
    WriterShared
    DrainedMeansDone
PROPERTIES
    EveryRequestEnds
    WorkersComeBack
\* The process stops, and requests end.
CHECK_DEADLOCK FALSE
