SPECIFICATION FairSpec
CONSTANTS
    Request = {r1, r2}
    None = None
    Parallel = 2
    SeqMod = 3
    MaxRetries = 1
    MaxNet = 1
    Platforms = {"RP2040", "ESP32"}
CHECK_DEADLOCK FALSE
INVARIANTS
    TypeOK
    Bookkeeping
    OnlyOwnReplies
PROPERTY
    EveryPingAnswered
