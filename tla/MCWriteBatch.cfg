CONSTANTS
    t = t
    u = u
    Files = {f, g}
    None = None
    BufMax = 2
    MaxWrites = 5
    Scenarios <- MCScenarios
SYMMETRY MCSymmetry
SPECIFICATION Spec
INVARIANTS InOrder CallsSeeWrites BlamesItselfRightly
CHECK_DEADLOCK FALSE
