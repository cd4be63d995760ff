CONSTANTS
    Addresses = {a1, a2}
    None = None
    QueueMax = 3
    ReuseEarly = TRUE
SPECIFICATION Spec
INVARIANT LockedStaysTracked
