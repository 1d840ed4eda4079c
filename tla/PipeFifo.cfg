SPECIFICATION DataSpec
CONSTANTS
    f1 = f1
    f2 = f2
    f3 = f3
    a = a
    b = b
    File = {f1, f2}
    Byte = {a, b}
    Junk = junk
    NoFile = none
    MaxSize = 3
    Sizes = {2, 3}
    Messages <- ShortAndLong
    MaxCount = 2
    MaxLag = 2
SYMMETRY FileSymmetry
INVARIANTS CopiesInsideBuffer
PROPERTIES IsBoundedFifo
