CONSTANTS
    boot = boot  p1 = p1  p2 = p2
    Process <- Processes3
    initial = boot
    NULL = NULL
    ExitStatus = {0}
    LoadOutcome = {"ok"}
    MaxIO = 0
SPECIFICATION Spec
CHECK_DEADLOCK FALSE
INVARIANT ExitReported
