------------------------------- MODULE Threads --------------------------------
(***************************************************************************)
(* The scheduler of threads/thread.c (the default, priority scheduler:     *)
(* thread_mlfqs is false): the fields of struct thread it uses, the run    *)
(* queue, and the operations that move a thread between its states.        *)
(*                                                                         *)
(* Pintos runs on one processor, so a step that runs with interrupts off   *)
(* is atomic.  The operators below are such steps, or parts of one: an     *)
(* argument st, pri or rl is the value of status, priority or ready_list   *)
(* at the moment the code makes the call, which differs from the variable  *)
(* when the same atomic step has already changed it.  The modules that     *)
(* extend this one build their actions from these operators.               *)
(***************************************************************************)
EXTENDS KernelList

CONSTANTS
    Thread,         \* the threads the kernel can hold, without the idle thread
    idle_thread,    \* the idle thread; it is never on the run queue
    PRI_MIN, PRI_MAX

ASSUME PriorityAssumption ==
    PRI_MIN \in Int /\ PRI_MAX \in Int /\ PRI_MIN <= PRI_MAX

ASSUME ThreadAssumption == idle_thread \notin Thread

AllThread == Thread \cup {idle_thread}
Priority == PRI_MIN..PRI_MAX

VARIABLES
    status,             \* struct thread's status; FREE: no struct thread exists
    priority,           \* effective priority
    base_priority,      \* what thread_set_priority last asked for
    donated_priority,   \* greatest priority received through a held lock
    ready_list,         \* the run queue
    current             \* running_thread ()

threadVars ==
    <<status, priority, base_priority, donated_priority, ready_list, current>>

Status == {"RUNNING", "READY", "BLOCKED", "DYING", "FREE"}

ThreadTypeOK ==
    /\ status \in [AllThread -> Status]
    /\ priority \in [AllThread -> Priority]
    /\ base_priority \in [AllThread -> Priority]
    /\ donated_priority \in [AllThread -> Priority]
    /\ ready_list \in Seq(Thread)
    /\ current \in AllThread

Larger(a, b) == IF a >= b THEN a ELSE b

-------------------------------------------------------------------------------
\* The run queue is sorted, because a donation may have raised a thread on it.
next_thread_to_run(rl, pri) ==
    IF rl = <<>> THEN idle_thread ELSE list_front(list_sort(rl, pri))

\* schedule () and the thread_schedule_tail () of the thread it switches to.
schedule(rl, st, pri) ==
    /\ current' = next_thread_to_run(rl, pri)
    /\ status' = [st EXCEPT ![next_thread_to_run(rl, pri)] = "RUNNING"]
    /\ ready_list' = IF rl = <<>> THEN rl ELSE list_rest(list_sort(rl, pri))

thread_block(rl, st, pri) ==
    schedule(rl, [st EXCEPT ![current] = "BLOCKED"], pri)

\* Mutant: the thread that yields goes ahead of the others.
thread_yield_ahead(rl, st, pri) ==
    schedule(IF current = idle_thread THEN rl ELSE <<current>> \o rl,
             [st EXCEPT ![current] = "READY"], pri)

thread_yield(rl, st, pri) ==
    schedule(IF current = idle_thread THEN rl
             ELSE list_insert_ordered(rl, current, pri),
             [st EXCEPT ![current] = "READY"], pri)

\* thread_unblock (t) makes these of status and ready_list.
UnblockedStatus(st, t) == [st EXCEPT ![t] = "READY"]
UnblockedList(rl, t, pri) == list_insert_ordered(rl, t, pri)

(***************************************************************************)
(* thread_set_priority of the running thread.  It runs with interrupts off *)
(* up to the yield, which it makes when it raised its own priority or when *)
(* it lowered it below the front of the run queue.                         *)
(***************************************************************************)
PriorityAfterSet(t, new) ==
    IF priority[t] < new THEN new
    ELSE IF priority[t] > new THEN Larger(new, donated_priority[t])
    ELSE priority[t]

YieldsAfterSet(t, new) ==
    \/ PriorityAfterSet(t, new) > priority[t]
    \/ /\ PriorityAfterSet(t, new) < priority[t]
       /\ ready_list # <<>>
       /\ priority[list_front(ready_list)] > PriorityAfterSet(t, new)

thread_set_priority(t, new) ==
    LET pri == [priority EXCEPT ![t] = PriorityAfterSet(t, new)]
    IN  /\ base_priority' = [base_priority EXCEPT ![t] = new]
        /\ priority' = pri
        /\ donated_priority' = donated_priority
        /\ IF YieldsAfterSet(t, new)
             THEN thread_yield(ready_list, status, pri)
             ELSE UNCHANGED <<status, ready_list, current>>

-------------------------------------------------------------------------------
(***************************************************************************)
(* The scheduler's data structures agree: exactly the current thread is    *)
(* RUNNING, and the run queue holds exactly the READY threads, each once.  *)
(* (The idle thread is READY, off the queue, when it was preempted.)       *)
(* schedule () and thread_unblock () rely on it: their assertions          *)
(* (thread.c 330, 362, 712) fail, or a thread is lost, where it is broken. *)
(***************************************************************************)
OneRunning ==
    \A t \in AllThread : status[t] = "RUNNING" <=> t = current

QueueIsReady ==
    /\ Elements(ready_list) = {t \in Thread : status[t] = "READY"}
    /\ Distinct(ready_list)

SchedulerOK == OneRunning /\ QueueIsReady

(***************************************************************************)
(* Priority scheduling: whoever runs, no thread on the run queue has a     *)
(* higher priority.  It needs every operation that makes a thread ready,   *)
(* or changes a priority, to reschedule when it must.                      *)
(***************************************************************************)
HighestRuns ==
    \A t \in Elements(ready_list) : priority[t] <= priority[current]
===============================================================================
