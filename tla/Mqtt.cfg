SPECIFICATION MCFairSpec
CONSTANTS
    Parts = {"client", "receive", "broker"}
    Platforms = {"ESP32", "RP2040"}
    Pcb = {1, 2}
    Null = Null
    IdMod = 3
    MsgIdMod = 2
    SendBuf = 3
    Qos = {0}
    MaxSubs = 2
    MaxPublish = 1
    MaxFaults = 2
    Setups <- Receivers
    MaxPackets = 3
    MaxConnSubs = 1
    MaxRetained = 1
    MaxRouted = 2
    MaxClients = 2
    Topic = {t1, t2}
    Filter = {{t1}, {t1, t2}}
    MaxDrops = 1
CHECK_DEADLOCK FALSE
INVARIANTS
    MCTypeOK
    OnePcb
    SubscribedInStep
    NoStaleAnswer
    InOrder
    SubscriptionsOwn
    RetainedIsLatest
    SubscriberUpToDate
PROPERTIES
    MCEventuallySubscribed
    EveryPacketHandled
    SilentClientLeaves
