SPECIFICATION FairMlfqsSpec
CONSTANTS
    Thread = {main, t1, t2, t3}
    idle_thread = idle_t
    initial_thread = main
    NULL = NULL
    PRI_MIN = 0
    PRI_MAX = 2
    PRI_DEFAULT = 1
    TIME_SLICE = 2
    MaxSleep = 2
    Fed = {main, t1, t2}
    F = 2
    TIMER_FREQ = 4
    LOAD = 2
    Nice <- MCNice
    MaxCalls = 3
INVARIANTS ThreadsAccounted UsageBounded
PROPERTIES SchedulesByPriority WakesOnTick ReadyGetsTurn
