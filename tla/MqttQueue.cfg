SPECIFICATION FairSpec
CONSTANTS
    p1 = p1
    p2 = p2
    Producers = {p1, p2}
    Entry = {e1, e2, e3}
    Null = Null
    MaxQueue = 2
    TxMax = 2
    Sizes = {2, 3}
    MaxPublish = 2
    Quota <- MCQuota
    MaxSession = 2
INVARIANTS
    TypeOK
    ListIsFifo
    HeapOwnership
    OnlyStragglersLate
PROPERTIES
    ImplementsFifo
    EntryLeaves
