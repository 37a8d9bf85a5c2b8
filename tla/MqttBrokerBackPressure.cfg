SPECIFICATION MCFairSpec
CONSTANTS
    Parts = {"broker"}
    Platforms = {"ESP32"}
    Pcb = {1}
    Null = Null
    IdMod = 4
    MsgIdMod = 2
    SendBuf = 3
    Qos = {0}
    MaxSubs = 1
    MaxPublish = 1
    MaxFaults = 1
    Setups <- Receivers
    MaxPackets = 3
    MaxConnSubs = 1
    MaxRetained = 1
    MaxRouted = 2
    MaxClients = 1
    Topic = {t1}
    Filter = {{t1}}
    MaxDrops = 1
CHECK_DEADLOCK FALSE
PROPERTY
    PublishReachesAll
