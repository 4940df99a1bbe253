-------------------------------- MODULE Mlfqs ---------------------------------
(***************************************************************************)
(* The multi-level feedback queue scheduler of threads/thread.c, next to   *)
(* the priority scheduler of AlarmClock: thread_mlfqs is set by the        *)
(* kernel's command line and never changes.  With it, next_thread_to_run   *)
(* () takes the front of the run queue as it finds it, priorities follow   *)
(* from recent_cpu, nice and load_avg, numbers with F steps to one         *)
(* (threads/fixedpoint.h), and thread_tick () computes them anew.          *)
(***************************************************************************)
EXTENDS AlarmClock, FiniteSetsExt

CONSTANTS
    F,              \* 2 ^ 14 in the code
    TIMER_FREQ,     \* ticks of a second, at the end of which load_avg changes
    LOAD,           \* 60: load_avg keeps 59 sixtieths of its value
    Nice,           \* bound: the nice values that threads ask for
    Fed,            \* bound: the threads of a kernel with thread_mlfqs
    MaxCalls        \* bound: the calls that its threads make

ASSUME MlfqsAssumption ==
    /\ F \in Nat \ {0} /\ LOAD \in Nat \ {0}
    /\ Nice \subseteq Int
    /\ \E n \in Nice \cup {0} : \A m \in Nice \cup {0} : m <= n   \* an int is bounded
    /\ TIMER_FREQ \in Nat \ {0} /\ TIMER_FREQ % TIME_SLICE = 0
    /\ Fed \subseteq Thread /\ initial_thread \in Fed /\ IsFiniteSet(Fed)
    /\ MaxCalls \in Nat

VARIABLES
    thread_mlfqs,   \* the option -mlfqs
    nice, recent_cpu, load_avg,
    ticks,          \* since the second began: ticks % TIMER_FREQ
    calls,          \* made so far
    old_priority    \* of a thread in thread_set_nice (), up to its list_sort ()

mlfqsVars == <<thread_mlfqs, nice, recent_cpu, load_avg, ticks, calls, old_priority>>

\* C's division, by a positive number: it rounds towards zero.
Divided(x, y) == IF x >= 0 THEN x \div y ELSE -((-x) \div y)

INT_TO_FP(n) == n * F
MUL_FP(x, y) == Divided(x * y, F)
DIV_FP(x, y) == Divided(x * F, y)
FP_TO_INT_NEAREST(x) == IF x >= 0 THEN Divided(x + F \div 2, F) ELSE Divided(x - F \div 2, F)

MlfqsInit ==
    /\ Init
    /\ thread_mlfqs \in BOOLEAN
    /\ nice = [t \in Thread |-> 0]
    /\ recent_cpu = [t \in Thread |-> 0]
    /\ load_avg = 0
    /\ ticks = 0
    /\ calls = 0
    /\ old_priority = [t \in Thread |-> NULL]

-------------------------------------------------------------------------------
\* The threads of all_list, the idle thread aside.
Existing == {t \in Thread : status[t] \notin {"FREE", "DYING"}}

\* Mutant: the threads that are ready now count in full.
update_load_avg_unweighted(load, ready) ==
    DIV_FP(load * (LOAD - 1), INT_TO_FP(LOAD)) + INT_TO_FP(ready)

update_load_avg(load, ready) ==
    DIV_FP(load * (LOAD - 1), INT_TO_FP(LOAD)) + Divided(INT_TO_FP(ready), LOAD)

update_recent_cpu(load, recent, n) ==
    MUL_FP(DIV_FP(load * 2, load * 2 + INT_TO_FP(1)), recent) + INT_TO_FP(n)

update_thread_priority(recent, n) ==
    LET p == FP_TO_INT_NEAREST(INT_TO_FP(PRI_MAX) - Divided(recent, 4) - INT_TO_FP(n) * 2)
    IN  IF p > PRI_MAX THEN PRI_MAX ELSE IF p < PRI_MIN THEN PRI_MIN ELSE p

\* Mutant: the run queue is left as it was when priorities have changed.
Resorted_not(rl, pri) == rl

Resorted(rl, pri) == list_sort(rl, pri)

\* schedule () with the run queue as it is.
Schedule(rl, st) ==
    LET next == IF rl = <<>> THEN idle_thread ELSE list_front(rl)
    IN  /\ current' = next
        /\ status' = [st EXCEPT ![next] = "RUNNING"]
        /\ ready_list' = IF rl = <<>> THEN rl ELSE list_rest(rl)
        /\ thread_ticks' = 0

YieldTo(rl, st, pri) ==
    Schedule(IF current = idle_thread THEN rl ELSE list_insert_ordered(rl, current, pri),
             [st EXCEPT ![current] = "READY"])

\* A thread that is in no other call makes one.
Calls(c) ==
    /\ current = c /\ creating[c] = NULL /\ old_priority[c] = NULL
    /\ calls < MaxCalls /\ calls' = calls + 1

\* thread_create () up to allocate_tid (), which yields.
mlfqs_create(c, t) ==
    /\ Calls(c) /\ status[t] = "FREE"
    /\ priority' = [priority EXCEPT ![t] = PRI_DEFAULT]
    /\ nice' = [nice EXCEPT ![t] = nice[c]]
    /\ recent_cpu' = [recent_cpu EXCEPT ![t] = recent_cpu[c]]
    /\ YieldTo(ready_list, [status EXCEPT ![t] = "BLOCKED"], priority')
    /\ creating' = [creating EXCEPT ![c] = t]
    /\ UNCHANGED <<sleeping_list, wakeup, load_avg, ticks, old_priority>>

\* Unblocking the new thread and yielding to it, as in AlarmClock.
mlfqs_created(c) ==
    /\ current = c /\ creating[c] # NULL
    /\ LET t == creating[c]
           st == UnblockedStatus(status, t)
           rl == UnblockedList(ready_list, t, priority)
       IN  IF priority[t] > priority[c] THEN YieldTo(rl, st, priority)
           ELSE status' = st /\ ready_list' = rl /\ UNCHANGED <<current, thread_ticks>>
    /\ creating' = [creating EXCEPT ![c] = NULL]
    /\ UNCHANGED <<calls, priority, nice, recent_cpu, load_avg, ticks, old_priority,
                   sleeping_list, wakeup>>

\* What is left of the fields of a freed thread is of no interest.
mlfqs_exit(c) ==
    /\ Calls(c)
    /\ Schedule(ready_list,
                [status EXCEPT ![c] = IF c = initial_thread THEN "DYING" ELSE "FREE"])
    /\ nice' = [nice EXCEPT ![c] = 0]
    /\ recent_cpu' = [recent_cpu EXCEPT ![c] = 0]
    /\ priority' = [priority EXCEPT ![c] = PRI_DEFAULT]
    /\ UNCHANGED <<load_avg, ticks, old_priority, creating, sleeping_list, wakeup>>

mlfqs_yield(c) ==
    /\ Calls(c)
    /\ YieldTo(ready_list, status, priority)
    /\ UNCHANGED <<priority, nice, recent_cpu, load_avg, ticks, old_priority, creating,
                   sleeping_list, wakeup>>

mlfqs_sleep(c, n) ==
    /\ Calls(c)
    /\ wakeup' = [wakeup EXCEPT ![c] = n]
    /\ sleeping_list' = SleepInsert(c, wakeup')
    /\ Schedule(ready_list, [status EXCEPT ![c] = "BLOCKED"])
    /\ UNCHANGED <<priority, nice, recent_cpu, load_avg, ticks, old_priority, creating>>

\* thread_set_nice () runs with interrupts on: the new value and priority ...
\* (It makes no difference between the schedulers; only -mlfqs has callers.)
thread_set_nice(c, n) ==
    /\ Calls(c)
    /\ nice' = [nice EXCEPT ![c] = n]
    /\ priority' = [priority EXCEPT ![c] = update_thread_priority(recent_cpu[c], n)]
    /\ old_priority' = [old_priority EXCEPT ![c] = priority[c]]
    /\ UNCHANGED <<status, ready_list, current, thread_ticks, recent_cpu, load_avg, ticks,
                   creating, sleeping_list, wakeup>>

\* ... then the sort, and the yield of a thread that rose.
thread_set_nice_sort(c) ==
    /\ current = c /\ old_priority[c] # NULL
    /\ LET rl == list_sort(ready_list, priority)
       IN  IF priority[c] > old_priority[c] THEN YieldTo(rl, status, priority)
           ELSE ready_list' = rl /\ UNCHANGED <<status, current, thread_ticks>>
    /\ old_priority' = [old_priority EXCEPT ![c] = NULL]
    /\ UNCHANGED <<calls, priority, nice, recent_cpu, load_avg, ticks, creating, sleeping_list,
                   wakeup>>

\* The timer interrupt: thread_tick (), then the sleepers that are due.
mlfqs_tick ==
    LET counted == [t \in Thread |-> IF t = current THEN recent_cpu[t] + INT_TO_FP(1)
                                     ELSE recent_cpu[t]]
        slice == (ticks + 1) % TIME_SLICE = 0
        second == (ticks + 1) % TIMER_FREQ = 0
        pri == [t \in AllThread |->
                   IF slice /\ t \in Existing
                   THEN update_thread_priority(counted[t], nice[t]) ELSE priority[t]]
        queue == IF slice THEN Resorted(ready_list, pri) ELSE ready_list
        load == IF second THEN update_load_avg(load_avg, Len(ready_list)
                                  + (IF current = idle_thread THEN 0 ELSE 1)) ELSE load_avg
        w == [t \in Thread |-> IF t \in Sleeping THEN wakeup[t] - 1 ELSE 0]
        k == DueCount(w)
        due == SubSeq(sleeping_list, 1, k)
        st == [t \in AllThread |-> IF t \in Elements(due) THEN "READY" ELSE status[t]]
        rl == Woken(queue, due, pri)
    IN  /\ ticks' = (ticks + 1) % TIMER_FREQ
        /\ priority' = pri
        /\ load_avg' = load
        /\ recent_cpu' = [t \in Thread |-> IF second /\ t \in Existing
                                           THEN update_recent_cpu(load, counted[t], nice[t])
                                           ELSE counted[t]]
        /\ sleeping_list' = StillAsleep(k)
        /\ wakeup' = w
        /\ IF \/ thread_ticks + 1 >= TIME_SLICE
              \/ \E t \in Elements(due) : pri[t] > pri[current]
             THEN YieldTo(rl, st, pri)
             ELSE /\ status' = st
                  /\ ready_list' = rl
                  /\ thread_ticks' = thread_ticks + 1
                  /\ UNCHANGED current
        /\ UNCHANGED <<calls, nice, creating, old_priority>>

mlfqs_idle ==
    /\ current = idle_thread
    /\ Schedule(ready_list, [status EXCEPT ![idle_thread] = "BLOCKED"])
    /\ UNCHANGED <<calls, priority, nice, recent_cpu, load_avg, ticks, old_priority, creating,
                   sleeping_list, wakeup>>

MlfqsStep ==
    \/ \E c \in Thread :
          \/ \E t \in Fed : mlfqs_create(c, t)
          \/ mlfqs_created(c) \/ mlfqs_exit(c) \/ mlfqs_yield(c)
          \/ thread_set_nice_sort(c)
          \/ \E n \in Nice : thread_set_nice(c, n)
          \/ \E n \in 1..MaxSleep : mlfqs_sleep(c, n)
    \/ mlfqs_tick
    \/ mlfqs_idle

MlfqsNext ==
    \/ thread_mlfqs = FALSE /\ Next /\ UNCHANGED mlfqsVars
    \/ thread_mlfqs = TRUE /\ MlfqsStep
       /\ UNCHANGED <<thread_mlfqs, base_priority, donated_priority>>

allVars == <<vars, mlfqsVars>>

\* The 8254 timer interrupts again and again under either scheduler.
MlfqsSpec == MlfqsInit /\ [][MlfqsNext]_allVars
FairMlfqsSpec == MlfqsSpec /\ []<><<(thread_mlfqs /\ mlfqs_tick)
                                    \/ (~thread_mlfqs /\ timer_interrupt)>>_allVars

-------------------------------------------------------------------------------
\* A second's usage and niceness, and what the decay leaves of the past at
\* the greatest load of n threads.
UsageLimit(n) ==
    INT_TO_FP(1 + TIMER_FREQ + Max(Nice \cup {0})) * (2 * n + 1)

(***************************************************************************)
(* load_avg is an average of what update_load_avg () counts, so it never   *)
(* exceeds the number of threads; and recent_cpu, which grows with every   *)
(* tick and is handed from thread_create ()'s caller to its child, stays   *)
(* within what the decay of update_recent_cpu () allows at that load.      *)
(* Without these the products with 32-bit results would leave their range. *)
(***************************************************************************)
UsageBounded ==
    thread_mlfqs =>
      /\ load_avg \in 0..INT_TO_FP(Cardinality(Fed))
      /\ \A t \in Fed : recent_cpu[t] <= UsageLimit(Cardinality(Fed))

(***************************************************************************)
(* Without thread_mlfqs the highest priority runs at every moment.  With   *)
(* it, thread_set_nice () and the new priorities of thread_tick () leave   *)
(* the running thread where it is until its slice ends, but whenever the   *)
(* processor changes hands it goes to the highest priority, although       *)
(* next_thread_to_run () takes the front of the run queue without sorting. *)
(***************************************************************************)
SchedulesByPriority ==
    [][current' # current \/ ~thread_mlfqs => HighestRuns']_allVars
===============================================================================
