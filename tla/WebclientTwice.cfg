SPECIFICATION MCSpec
CONSTANTS
    Builds = {"RP2040"}
    Request = {r1, r2}
    None = None
    Slots = 1
    Urls = {"ip"}
    Ssl = {FALSE}
    Segments = {"nobody"}
    StartFaults = {"memory"}
    FrontFails = TRUE
    MaxDepth = 12
    RequestDepth = 1
    ResultDepth = 1
    MaxPieces = 0
    Freed = {"kept"}
    Reallocates = FALSE
CHECK_DEADLOCK FALSE
INVARIANT
    FailsOnce
