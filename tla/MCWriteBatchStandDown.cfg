CONSTANTS
    t = t
    u = u
    Files = {f, g}
    None = None
    BufMax = 2
    MaxWrites = 4
    Scenarios <- MCStandDown
SYMMETRY MCSymmetry
SPECIFICATION Spec
INVARIANT InOrder
CHECK_DEADLOCK FALSE
