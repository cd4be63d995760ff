CONSTANTS
    t = t
    u = u
    Files = {f, g}
    None = None
    BufMax = 2
    MaxWrites = 3
    Scenarios <- MCExit
SYMMETRY MCSymmetry
SPECIFICATION Spec
INVARIANT NoTailAtExit
CHECK_DEADLOCK FALSE
