------------------------------ MODULE AlarmClock ------------------------------
(***************************************************************************)
(* Kernel threads that create threads, yield, change their priority, sleep *)
(* in timer_sleep () and exit, under the timer interrupt: threads/thread.c *)
(* together with devices/timer.c.                                          *)
(*                                                                         *)
(* Only differences between ticks matter to this code, so wakeup[t] is     *)
(* wakeup_tick minus ticks: what is left of t's sleep.  It keeps the model *)
(* finite without a bound on the time that passes.                         *)
(***************************************************************************)
EXTENDS Threads

CONSTANTS
    initial_thread,     \* the thread that runs main ()
    NULL,
    TIME_SLICE,         \* ticks a thread may run before it is preempted
    PRI_DEFAULT,
    MaxSleep            \* bound: longest sleep a thread asks for

ASSUME AlarmAssumption ==
    /\ initial_thread \in Thread
    /\ NULL \notin AllThread
    /\ TIME_SLICE \in Nat \ {0}
    /\ PRI_DEFAULT \in Priority
    /\ MaxSleep \in Nat

VARIABLES
    thread_ticks,   \* ticks since the running thread was scheduled
    sleeping_list,  \* threads in timer_sleep (), by wakeup_tick
    wakeup,         \* ticks left of each sleep
    creating        \* the thread a thread_create () under way has initialised

vars == <<threadVars, thread_ticks, sleeping_list, wakeup, creating>>

Sleeping == Elements(sleeping_list)

TypeOK ==
    /\ ThreadTypeOK
    /\ thread_ticks \in 0..(TIME_SLICE - 1)
    /\ sleeping_list \in Seq(Thread)
    /\ wakeup \in [Thread -> 0..MaxSleep]
    /\ creating \in [Thread -> Thread \cup {NULL}]

\* thread_init () and thread_start (): main runs, the idle thread has blocked.
Init ==
    /\ status = [t \in AllThread |-> CASE t = initial_thread -> "RUNNING"
                                       [] t = idle_thread -> "BLOCKED"
                                       [] OTHER -> "FREE"]
    /\ priority = [t \in AllThread |->
                      IF t = idle_thread THEN PRI_MIN ELSE PRI_DEFAULT]
    /\ base_priority = priority
    /\ donated_priority = [t \in AllThread |-> PRI_MIN]
    /\ ready_list = <<>>
    /\ current = initial_thread
    /\ thread_ticks = 0
    /\ sleeping_list = <<>>
    /\ wakeup = [t \in Thread |-> 0]
    /\ creating = [t \in Thread |-> NULL]

-------------------------------------------------------------------------------
(***************************************************************************)
(* thread_create: init_thread () builds t as a BLOCKED thread; then        *)
(* allocate_tid () releases tid_lock, and releasing a lock yields.  The    *)
(* lock is held for one increment; waiting for it is left out.             *)
(***************************************************************************)
thread_create(c, t, p) ==
    /\ current = c /\ creating[c] = NULL
    /\ status[t] = "FREE"
    /\ LET pri == [priority EXCEPT ![t] = p]
       IN  /\ priority' = pri
           /\ base_priority' = [base_priority EXCEPT ![t] = p]
           /\ donated_priority' = [donated_priority EXCEPT ![t] = PRI_MIN]
           /\ thread_yield(ready_list, [status EXCEPT ![t] = "BLOCKED"], pri)
    /\ creating' = [creating EXCEPT ![c] = t]
    /\ thread_ticks' = 0
    /\ UNCHANGED <<sleeping_list, wakeup>>

\* The end of thread_create: the new thread joins the run queue, and its
\* creator yields to it if it has the higher priority.  A tick between the two
\* could only make the creator yield earlier.
thread_created(c) ==
    /\ current = c /\ creating[c] # NULL
    /\ LET t == creating[c]
           st == UnblockedStatus(status, t)
           rl == UnblockedList(ready_list, t, priority)
       IN  IF priority[t] > priority[c]
             THEN /\ thread_yield(rl, st, priority)
                  /\ thread_ticks' = 0
             ELSE /\ status' = st
                  /\ ready_list' = rl
                  /\ UNCHANGED <<current, thread_ticks>>
    /\ creating' = [creating EXCEPT ![c] = NULL]
    /\ UNCHANGED <<priority, base_priority, donated_priority, sleeping_list, wakeup>>

\* thread_schedule_tail () frees the thread that exited, unless it is main's.
thread_exit(c) ==
    /\ current = c /\ creating[c] = NULL
    /\ schedule(ready_list,
                [status EXCEPT ![c] = IF c = initial_thread THEN "DYING" ELSE "FREE"],
                priority)
    /\ thread_ticks' = 0
    /\ UNCHANGED <<priority, base_priority, donated_priority,
                   sleeping_list, wakeup, creating>>

Yield(c) ==
    /\ current = c /\ creating[c] = NULL
    /\ thread_yield(ready_list, status, priority)
    /\ thread_ticks' = 0
    /\ UNCHANGED <<priority, base_priority, donated_priority,
                   sleeping_list, wakeup, creating>>

SetPriority(c, p) ==
    /\ current = c /\ creating[c] = NULL
    /\ thread_set_priority(c, p)
    /\ thread_ticks' = IF YieldsAfterSet(c, p) THEN 0 ELSE thread_ticks
    /\ UNCHANGED <<sleeping_list, wakeup, creating>>

\* wakeup_tick_less: the earliest wake-up first.
SleepKey(w) == [t \in Thread |-> -w[t]]

\* Mutant: the sleeper goes to the end of sleeping_list.
SleepInsert_last(c, w) == sleeping_list \o <<c>>

SleepInsert(c, w) == list_insert_ordered(sleeping_list, c, SleepKey(w))

timer_sleep(c, n) ==
    /\ current = c /\ creating[c] = NULL
    /\ n > 0
    /\ wakeup' = [wakeup EXCEPT ![c] = n]
    /\ sleeping_list' = SleepInsert(c, wakeup')
    /\ thread_block(ready_list, status, priority)
    /\ thread_ticks' = 0
    /\ UNCHANGED <<priority, base_priority, donated_priority, creating>>

\* How many threads timer_interrupt pops: it stops at the first not yet due.
DueCount(w) ==
    Cardinality({i \in 1..Len(sleeping_list) :
                    \A j \in 1..i : w[sleeping_list[j]] <= 0})

\* thread_tick () ends the time slice; waking a thread of higher priority
\* than the running one ends it too.
yield_on_return(due) ==
    \/ thread_ticks + 1 >= TIME_SLICE
    \/ \E t \in Elements(due) : priority[t] > priority[current]

\* Mutant: popping sleeping_list loses one thread more than is woken.
StillAsleep_drops_one(k) == SubSeq(sleeping_list, k + 2, Len(sleeping_list))

\* What is left of sleeping_list when k threads have been popped.
StillAsleep(k) == SubSeq(sleeping_list, k + 1, Len(sleeping_list))

\* The run queue after thread_unblock () of each of the threads popped, in turn.
Woken(rl, due, pri) ==
    LET list[i \in 0..Len(due)] ==
            IF i = 0 THEN rl ELSE UnblockedList(list[i - 1], due[i], pri)
    IN  list[Len(due)]

\* The timer interrupt, thread_tick () included.
timer_interrupt ==
    LET w == [t \in Thread |-> IF t \in Sleeping THEN wakeup[t] - 1 ELSE 0]
        k == DueCount(w)
        due == SubSeq(sleeping_list, 1, k)
        st == [t \in AllThread |-> IF t \in Elements(due) THEN "READY" ELSE status[t]]
        rl == Woken(ready_list, due, priority)
    IN  /\ sleeping_list' = StillAsleep(k)
        /\ wakeup' = w
        /\ IF yield_on_return(due)
             THEN /\ thread_yield(rl, st, priority)
                  /\ thread_ticks' = 0
             ELSE /\ status' = st
                  /\ ready_list' = rl
                  /\ thread_ticks' = thread_ticks + 1
                  /\ UNCHANGED current
        /\ UNCHANGED <<priority, base_priority, donated_priority, creating>>

\* Back from hlt, the idle thread blocks again and lets a ready thread run.
idle ==
    /\ current = idle_thread
    /\ thread_block(ready_list, status, priority)
    /\ thread_ticks' = 0
    /\ UNCHANGED <<priority, base_priority, donated_priority,
                   sleeping_list, wakeup, creating>>

Next ==
    \/ \E c \in Thread :
          \/ \E t \in Thread, p \in Priority : thread_create(c, t, p)
          \/ thread_created(c)
          \/ thread_exit(c)
          \/ Yield(c)
          \/ \E p \in Priority : SetPriority(c, p)
          \/ \E n \in 1..MaxSleep : timer_sleep(c, n)
    \/ timer_interrupt
    \/ idle

\* The 8254 timer interrupts again and again, whatever the threads do.
Spec == Init /\ [][Next]_vars
FairSpec == Spec /\ []<><<timer_interrupt>>_vars

-------------------------------------------------------------------------------
(***************************************************************************)
(* Every thread is accounted for.  One runs, the run queue holds the READY *)
(* ones (SchedulerOK), and a BLOCKED one sleeps, or is the thread of a     *)
(* thread_create () that has yet to start it, and never both: no other     *)
(* path has made a thread on sleeping_list ready.                          *)
(***************************************************************************)
ThreadsAccounted ==
    /\ TypeOK
    /\ SchedulerOK
    /\ Distinct(sleeping_list)
    /\ {t \in Thread : status[t] = "BLOCKED"} =
           Sleeping \cup {creating[c] : c \in {d \in Thread : creating[d] # NULL}}
    /\ \A c \in Thread : creating[c] \notin Sleeping

(***************************************************************************)
(* A sleeper wakes on its tick, neither later nor earlier: no step leaves  *)
(* a thread that is due on sleeping_list, and a thread leaves the list in  *)
(* the interrupt that ends its sleep.  timer_interrupt () stops at the     *)
(* first thread that is not due, so this rests on timer_sleep () keeping   *)
(* the list ordered while other threads come and go.                       *)
(***************************************************************************)
WakesOnTick ==
    [][\A t \in Thread :
          /\ t \in Sleeping' => wakeup'[t] > 0
          /\ t \in Sleeping /\ t \notin Sleeping' => wakeup[t] = 1]_vars

(***************************************************************************)
(* Round robin: a ready thread gets the processor unless a thread of       *)
(* higher priority runs.  The time slice of thread_tick () and the idle    *)
(* loop are what make it so; nobody has to give up the processor.          *)
(***************************************************************************)
ReadyGetsTurn ==
    \A t \in Thread :
        status[t] = "READY" ~> (current = t \/ priority[current] > priority[t])
===============================================================================
