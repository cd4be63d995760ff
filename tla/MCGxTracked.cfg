CONSTANTS
    a1 = a1
    a2 = a2
    a3 = a3
    Addresses = {a1, a2, a3}
    None = None
    QueueMax = 1
    ReuseEarly = FALSE
    TableSize = 4
SPECIFICATION MCTrackedSpec
INVARIANTS UploadsKeepAlive LockedStaysTracked TableIsEntries
PROPERTIES EraseEnds
