CONSTANTS
    N = 3
    Writers = {w1, w2}
    ReserveMax = 2
    CompactMax = 1
    MaxRecs = 2
    Density = 1
    MaxFiles = 2
    w1 = w1
    w2 = w2
SPECIFICATION Spec
INVARIANTS TypeOK HandedApart ReserveApart NoLeakedBit LeftKept NoSpaceJustified
SYMMETRY Symmetry
