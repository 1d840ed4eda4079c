SPECIFICATION FairSpec
CONSTANTS
    p1 = p1
    p2 = p2
    Proc = {p1}
    NoProc = none
    PAGE_SIZE = 3
    MaxCount = 2
PROPERTIES EverythingIsPrinted SleepersAreWoken
CHECK_DEADLOCK FALSE
