SPECIFICATION MCSpec
CONSTANTS
    Builds = {"ESP32"}
    Request = {r1, r2}
    None = None
    Slots = 1
    Urls = {"ip"}
    Ssl = {FALSE}
    Segments = {"nobody"}
    StartFaults = {}
    FrontFails = FALSE
    MaxDepth = 12
    RequestDepth = 2
    ResultDepth = 2
    MaxPieces = 1
    Freed = {"kept", "reused"}
    Reallocates = FALSE
CHECK_DEADLOCK FALSE
INVARIANT
    BodyBeforeDone
