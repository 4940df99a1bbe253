CONSTANTS
    p1 = p1
    p2 = p2
    s1 = s1
    d1 = d1
    d2 = d2
    k1 = k1
    k2 = k2
    f1 = f1
    f2 = f2
    f3 = f3
    f4 = f4
    NULL = NULL
    Process <- Two
    Stack = {}
    Data <- Data2
    Mapped <- MappedOne
    Kpage <- Kpages
    Frame <- Frames4
    Slots = 1
    Used <- Uneven
    Buffer <- Buffer2
    Writes <- Unchanged
    Exiting = {}
SPECIFICATION Spec
INVARIANTS OneUse
SYMMETRY Symmetry
CHECK_DEADLOCK FALSE
