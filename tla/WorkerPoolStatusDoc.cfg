\* An upstream that answers 5xx to every attempt.
SPECIFICATION Spec
CONSTANTS
    r1 = r1
    r2 = r2
    w1 = w1
    w2 = w2
    NoTask = NoTask
    Requests <- TwoRequests
    Workers <- OneWorker
    MaxQueue = 1
    MaxRetries = 3
    Upstream <- AnyAnswer
INVARIANT
    UpstreamErrorIs502
\* The process stops, and requests end.
CHECK_DEADLOCK FALSE
