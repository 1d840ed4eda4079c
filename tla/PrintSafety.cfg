SPECIFICATION RolesSpec
CONSTANTS
    p1 = p1
    p2 = p2
    Proc = {p1, p2}
    NoProc = none
    PAGE_SIZE = 3
    MaxCount = 2
INVARIANTS RingIsSound NeverStalls
PROPERTIES IsPrintQueue ClosedIsPrinted
