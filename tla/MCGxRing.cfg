CONSTANTS
    a = a
    b = b
    RingBytes = 3
    Word = 9
    FlushEvery = 2
    RdEvery = 2
    Sizes <- MCSizes
    Payload = {a, b}
    Carried <- MCCarried
    None = None
SPECIFICATION FairSpec
INVARIANTS CursorOrder NoLostWakeup
PROPERTIES Fifo WaitsEnd StopIsSeen
