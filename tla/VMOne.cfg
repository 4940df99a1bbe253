CONSTANTS
    p1 = p1
    p2 = p2
    s1 = s1
    d1 = d1
    d2 = d2
    k1 = k1
    k2 = k2
    f1 = f1
    f2 = f2
    f3 = f3
    f4 = f4
    NULL = NULL
    Process <- One
    Stack <- StackPage
    Data <- Data2
    Mapped <- MappedOne
    Kpage <- Kpages
    Frame <- Frames4
    Slots = 3
    Used <- All
    Buffer <- Data2
    Writes <- Tagged
    Exiting <- One
SPECIFICATION Spec
INVARIANTS ReadsLastWrite UnmappedSaved PagesReturned
SYMMETRY Symmetry
CHECK_DEADLOCK FALSE
