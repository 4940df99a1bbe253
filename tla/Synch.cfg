CONSTANTS
    t1 = t1  t2 = t2  t3 = t3  l1 = l1  l2 = l2  s1 = s1  c1 = c1
    Thread <- Threads3
    CreationOrder <- Order3
    idle_thread = idle_t
    PRI_MIN = 0
    PRI_MAX = 2
    NULL = NULL
    Lock = {l1, l2}
    Semaphore = {s1}
    Condition = {c1}
    cond_lock <- CondLock
    MAX_DONATION_DEPTH = 8
    MaxValue = 2
    TryLock = {l2}
    NewPriority = {0, 1}
SPECIFICATION MCSpec
INVARIANTS HighestRuns PriorityEarned NoLostWakeup NoLostSignal MutualExclusion
PROPERTIES LocksAreMutexes
