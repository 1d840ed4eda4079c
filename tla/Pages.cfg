SPECIFICATION RolesSpec
CONSTANTS
    Proc = {p1, p2}
    NoProc = none
    Mappers = {p1}
    Kinds = {"scullp", "scullc", "scullv", "sculld"}
    Settings <- Layouts
    MaxPos = 2
INVARIANTS MappedPagesAreTheDevices 
CHECK_DEADLOCK FALSE
