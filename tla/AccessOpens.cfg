SPECIFICATION OneUses
CONSTANTS
    p1 = p1
    p2 = p2
    p3 = p3
    a = a
    u = u
    v = v
    t = t
    s = s
    Proc = {p1, p2, p3}
    NoProc = none
    Byte = {a}
    Junk = junk
    Hole = hole
    Quanta = {1}
    Qsets = {1}
    Messages <- One
    MaxCount = 1
    MaxPos = 1
    Minors = {"single", "uid", "wuid", "priv"}
    User = {u, v}
    Tty = {s, t}
    Process <- People
SYMMETRY Symmetry
INVARIANTS CountsAreRight SingleIsAlone OneUser SleeperIsWoken OneClonePerTty
