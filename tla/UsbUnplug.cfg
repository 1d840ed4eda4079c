SPECIFICATION Spec
CONSTANTS
    Proc = {p1, p2, p3}
    Hub = hub
    NoOne = none
    Dev = {d1, d2, d3}
    NoDev = null
    Urb = {u1, u2}
    NoUrb = nil
SYMMETRY Symmetry
INVARIANTS CountIsHolders NoUseAfterFree BuffersHaveUrbs
PROPERTIES OpensWhatIsThere
CHECK_DEADLOCK FALSE
