SPECIFICATION BlockingSpec
CONSTANTS
    f1 = f1
    f2 = f2
    f3 = f3
    a = a
    b = b
    File = {f1, f2}
    Byte = {a}
    Junk = junk
    NoFile = none
    MaxSize = 2
    Sizes = {2}
    Messages <- Short
    MaxCount = 1
    MaxLag = 1
PROPERTIES ReaderIsWoken WriterIsWoken
