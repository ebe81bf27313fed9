\* One request; the store is changed once, before or while it is served.
SPECIFICATION Service
CONSTANTS
    p1 = p1
    p2 = p2
    Length = 29
    MaxFound = 12
    Confidences <- OneConfidence
    Sources <- Names
    Normals <- NormalForms
    AllDetails <- Dictionaries
    Placeholder = 2
    Filler = Filler
    Inputs <- AllInputs
    Yamls <- SomeYamls
    Profiles <- TwoProfiles
    Placeholders <- TwoPlaceholders
    Builds <- AllBuilds
    MaxChanges = 1
SYMMETRY ProfileSymmetry
INVARIANT
    EveryEntityMasked
\* The service is left with its answer.
CHECK_DEADLOCK FALSE
