CONSTANTS
    Classes = {hw}
    None = None
    MaxDevices = 3
    QueueMax = 3
    Scenarios <- MCScenarios
SPECIFICATION Spec
INVARIANTS CommandOnItsDevice OrigIsNotOurs NativeLeftAlone QueueHasConsumer
CHECK_DEADLOCK FALSE
