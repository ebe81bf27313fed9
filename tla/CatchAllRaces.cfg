\* One request, up to two paths, one replacement of the configuration.
SPECIFICATION Spec
CONSTANTS
    a = a
    b = b
    zero = zero
    h1 = h1
    h2 = h2
    messages = messages
    get = get
    post = post
    Wildcard = Wildcard
    Wrong = Wrong
    AnyHost = AnyHost
    Unreadable = Unreadable
    Malformed = Malformed
    Absent = Absent
    Nothing = Nothing
    Fields <- AllFields
    Index <- Numbers
    Requests <- AllRequests
    Configs <- AllConfigs
    Updates <- Later
    MaxUpdates = 1
INVARIANTS
    TypeOK
    FilteredForItsTarget
    AskedWhenSound
    WhatIsReadCanBeSet
PROPERTY
    EveryRequestAnswered
\* The request comes to an end.
CHECK_DEADLOCK FALSE
