CONSTANTS
    Textures = {t1, t2, t3}
    None = None
    MaxDelayed = 2
    FlushBudget = 1
    Ttl = 1
    Grace = 1
    Watchdog = 1
    SelfCheckAfter = 1
    MaxHeld = 2
    MaxRefs = 2
    MaxTransitions = 2
SPECIFICATION FairSpec
CHECK_DEADLOCK FALSE
INVARIANTS ReleaseOwnsReference
PROPERTIES DelayEnds WindowCloses
