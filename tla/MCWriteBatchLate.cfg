CONSTANTS
    t = t
    u = u
    Files = {f, g}
    None = None
    BufMax = 2
    MaxWrites = 3
    Scenarios <- MCLate
SYMMETRY MCSymmetry
SPECIFICATION Spec
INVARIANT RetiredTakesNone
CHECK_DEADLOCK FALSE
