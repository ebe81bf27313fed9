\* Two concurrent updates of the proxy as main wires it: no watcher.
SPECIFICATION Spec
CONSTANTS
    a = a
    b = b
    c = c
    e = e
    first = first
    First = first
    Empty = Empty
    Mixed = Mixed
    Rejected = Rejected
    Size <- SizesOfAll
    Updates <- TwoUpdates
    Edits <- NoEdit
    Watched = FALSE
    MaxConcurrent = 2
    MaxCrashes = 0
INVARIANT
    SavedIsApplied
\* Updates end and nobody has to send more.
CHECK_DEADLOCK FALSE
