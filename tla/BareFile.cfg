SPECIFICATION FixedSpec
CONSTANTS
    p1 = p1
    p2 = p2
    p3 = p3
    a = a
    b = b
    Proc = {p1, p2}
    NoProc = none
    Byte = {a, b}
    Junk = junk
    Hole = hole
    Quanta = {1, 2}
    Qsets = {2}
    Messages <- Runs
    MaxCount = 2
    MaxPos = 3
SYMMETRY Symmetry
INVARIANTS StoreIsSound NeverWild NothingFreedUnderACopy
PROPERTIES IsSparseFile
