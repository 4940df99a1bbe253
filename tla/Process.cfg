CONSTANTS
    boot = boot  p1 = p1  p2 = p2
    Process <- Processes3
    initial = boot
    NULL = NULL
    ExitStatus = {0}
    LoadOutcome = {"ok", "fail", "fault"}
    MaxIO = 1
SPECIFICATION FairSpec
CHECK_DEADLOCK FALSE
INVARIANTS NoUseAfterFree WakeupsMeanIt NothingLeft
PROPERTIES ParentReturns
