CONSTANTS
    Classes = {hw}
    None = None
    MaxDevices = 3
    QueueMax = 3
    Scenarios <- MCDead
SPECIFICATION Spec
INVARIANT DeadStaysDirect
CHECK_DEADLOCK FALSE
