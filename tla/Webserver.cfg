SPECIFICATION MCFairSpec
CONSTANTS
    Builds = {"RP2040", "ESP32", "oneSocket"}
    Pcb = {c1, c2}
    Null = Null
    MaxConn = 2
    RxCap = 2
    Window = 2
    PollLimit = 1
    PingPolls = 1
    PageEnds = {1, 2}
    FileSize = 2
    BodyLen = 2
    Kinds = {"page", "file", "upload", "huge", "long", "socket", "nosocket"}
    Refuses = TRUE
    MaxTalk = 2
    Conn = {c1, c2}
    Fd = {1, 2}
    None = None
    Monitors = {c2}
    MaxSockets = 2
    SocketRxCap = 1
    RingSize = 1
    Overtakes = FALSE
    MaxFrames = 1
    MaxLines = 1
INVARIANTS
    TypeOK
    SlotOwnership
    RequestsOnce
    MCTypeOK
    ClientsAreSessions
    FramesOwn
PROPERTIES
    AnswersWhole
    HttpSlotFreed
    SessionServed
