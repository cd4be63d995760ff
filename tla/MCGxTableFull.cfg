CONSTANTS
    Keys = {k1, k2, k3, k4}
    Empty = Empty
    TableSize = 4
SPECIFICATION FairSpec
PROPERTY EraseEnds
