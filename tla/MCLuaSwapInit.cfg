CONSTANTS
    l1 = l1
    l2 = l2
    l3 = l3
    Addresses = {l1, l2, l3}
    None = None
    SettleFrames = 2
    SettleTicks = 1
    MarkerTicks = 2
    TornTicks = 1
    MaxReloads = 3
    Scenarios <- LateScenarios
SPECIFICATION FairSwapSpec
CHECK_DEADLOCK FALSE
PROPERTY InitIsRetried
