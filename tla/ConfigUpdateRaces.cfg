\* Three updates, two at a time, a watcher, an edit and a crash.
SPECIFICATION Spec
CONSTANTS
    a = a
    b = b
    c = c
    e = e
    first = first
    First = first
    Empty = Empty
    Mixed = Mixed
    Rejected = Rejected
    Size <- SizesOfAll
    Updates <- ThreeUpdates
    Edits <- OneEdit
    Watched = TRUE
    MaxConcurrent = 2
    MaxCrashes = 1
INVARIANTS
    TypeOK
    ErrorsChangeNothing
    FileWhole
    StoreFollowsFile
\* Updates end and nobody has to send more.
CHECK_DEADLOCK FALSE
