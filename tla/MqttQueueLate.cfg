SPECIFICATION Spec
CONSTANTS
    p1 = p1
    p2 = p2
    Producers = {p1}
    Entry = {e1, e2}
    Null = Null
    MaxQueue = 2
    TxMax = 2
    Sizes = {2}
    MaxPublish = 2
    Quota <- MCQuota
    MaxSession = 2
INVARIANT
    NoStaleFlush
