SPECIFICATION MCSpec
CONSTANTS
    Builds = {"RP2040"}
    Pcb = {c1, c2}
    Null = Null
    MaxConn = 2
    RxCap = 2
    Window = 2
    PollLimit = 1
    PingPolls = 2
    PageEnds = {1, 2}
    FileSize = 2
    BodyLen = 2
    Kinds = {"page", "socket", "nosocket"}
    Refuses = FALSE
    MaxTalk = 2
    Conn = {c1, c2}
    Fd = {1, 2}
    None = None
    Monitors = {}
    MaxSockets = 2
    SocketRxCap = 1
    RingSize = 1
    Overtakes = FALSE
    MaxFrames = 1
    MaxLines = 1
INVARIANT
    NobodyRobbed
