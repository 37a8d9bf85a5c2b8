SPECIFICATION MCFairSpec
CONSTANTS
    Builds = {"RP2040", "twoSlots", "ESP32"}
    Request = {r1, r2, r3}
    None = None
    Slots = 1
    Urls = {"name", "bad"}
    Ssl = {TRUE}
    Segments = {"part", "bad", "nobody", "length", "close", "data", "last", "over"}
    StartFaults = {"memory", "connect", "dns"}
    FrontFails = FALSE
    MaxDepth = 20
    RequestDepth = 1
    ResultDepth = 1
    MaxPieces = 2
    Freed = {"kept"}
    Reallocates = FALSE
CHECK_DEADLOCK FALSE
INVARIANTS
    MCTypeOK
    MCOneCallback
    MCSlotOwnership
    CallbacksAwaited
    BodyBeforeDone
PROPERTY
    MCImplementsPromise
