-------------------------------- MODULE Synch ---------------------------------
(***************************************************************************)
(* Semaphores, locks with priority donation and Mesa condition variables:  *)
(* threads/synch.c on top of the scheduler of threads/thread.c.            *)
(*                                                                         *)
(* A step of a thread that runs with interrupts off is one action.  Where  *)
(* a function runs with interrupts on (lock_release, lock_try_acquire,     *)
(* cond_wait) the timer may preempt it between any two of its accesses to  *)
(* shared fields, and it is one action per access.  pc[t] says where t is, *)
(* and arg[t] which object it is working on:                               *)
(*   run        outside synch.c, free to call anything                     *)
(*   down       in sema_down's loop on arg; it resumes with interrupts off *)
(*   try        in lock_try_acquire, semaphore taken, holder not yet set   *)
(*   release    in cond_wait, about to call lock_release                   *)
(*   store      in lock_release, about to store donated_priority           *)
(*   holder     in lock_release, about to clear holder                     *)
(*   up         in lock_release, about to call sema_up                     *)
(*   reset      in lock_release, about to call thread_set_priority         *)
(*   wait       in cond_wait, about to down its own semaphore              *)
(*   acquire    in cond_wait, about to take the lock again                 *)
(*   broadcast  in cond_broadcast's loop                                   *)
(***************************************************************************)
EXTENDS Threads, FiniteSetsExt

CONSTANTS
    NULL,
    Lock,
    Semaphore,              \* semaphores that are not part of a lock
    Condition,
    cond_lock,              \* the lock each condition is used with
    MAX_DONATION_DEPTH,
    CreationOrder,          \* the threads, in the order they were created
    TryLock,                \* the locks taken with lock_try_acquire too
    NewPriority,            \* the priorities asked for in thread_set_priority
    MaxValue                \* bound: largest value a Semaphore is raised to

ASSUME SynchAssumption ==
    /\ cond_lock \in [Condition -> Lock]
    /\ MAX_DONATION_DEPTH \in Nat
    /\ MaxValue \in Nat
    /\ TryLock \subseteq Lock
    /\ NewPriority \subseteq Priority
    /\ NULL \notin AllThread \cup Lock \cup Semaphore \cup Condition
    /\ Lock \cap Semaphore = {} /\ Lock \cap Thread = {} /\ Semaphore \cap Thread = {}

ASSUME CreationAssumption ==
    /\ CreationOrder \in Seq(Thread)
    /\ Elements(CreationOrder) = Thread
    /\ Distinct(CreationOrder)
    /\ CreationOrder # <<>>

\* The semaphore of thread t itself is waiter.semaphore of its cond_wait ().
Sema == Lock \cup Semaphore \cup Thread

VARIABLES
    value, waiters,             \* struct semaphore
    holder, max_priority,       \* struct lock (its semaphore is value, waiters)
    waiting_lock, locks,        \* struct thread; locks is only read for its maximum
    cond_waiters, captured,     \* struct condition; semaphore_elem's priority
    pc, arg, cond,              \* where each thread is; the condition it waits on
    saved                       \* the maximum lock_release has read

synchVars == <<value, waiters, holder, max_priority, waiting_lock, locks,
               cond_waiters, captured, pc, arg, cond, saved>>
vars == <<threadVars, synchVars>>

PC == {"run", "down", "try", "release", "store", "holder", "up", "reset",
       "wait", "acquire", "broadcast"}

TypeOK ==
    /\ ThreadTypeOK
    /\ value \in [Sema -> Nat]
    /\ waiters \in [Sema -> Seq(Thread)]
    /\ holder \in [Lock -> Thread \cup {NULL}]
    /\ max_priority \in [Lock -> Priority]
    /\ waiting_lock \in [Thread -> Lock \cup {NULL}]
    /\ locks \in [Thread -> SUBSET Lock]
    /\ cond_waiters \in [Condition -> Seq(Thread)]
    /\ captured \in [Thread -> Priority]
    /\ pc \in [Thread -> PC]
    /\ arg \in [Thread -> Sema \cup Condition \cup {NULL}]
    /\ cond \in [Thread -> Condition \cup {NULL}]
    /\ saved \in [Thread -> Priority]

(***************************************************************************)
(* All threads exist, with any priorities, and have just been scheduled;   *)
(* no lock is held and no semaphore is up.                                 *)
(***************************************************************************)
Init ==
    /\ priority \in [AllThread -> Priority] /\ priority[idle_thread] = PRI_MIN
    /\ base_priority = priority
    /\ donated_priority = [t \in AllThread |-> PRI_MIN]
    /\ current = next_thread_to_run(CreationOrder, priority)
    /\ ready_list = list_rest(list_sort(CreationOrder, priority))
    /\ status = [t \in AllThread |-> CASE t = current -> "RUNNING"
                                       [] t = idle_thread -> "BLOCKED"
                                       [] OTHER -> "READY"]
    /\ value = [s \in Sema |-> IF s \in Lock THEN 1 ELSE 0]
    /\ waiters = [s \in Sema |-> <<>>]
    /\ holder = [l \in Lock |-> NULL]
    /\ max_priority = [l \in Lock |-> PRI_MIN]
    /\ waiting_lock = [t \in Thread |-> NULL]
    /\ locks = [t \in Thread |-> {}]
    /\ cond_waiters = [c \in Condition |-> <<>>]
    /\ captured = [t \in Thread |-> PRI_MIN]
    /\ pc = [t \in Thread |-> "run"]
    /\ arg = [t \in Thread |-> NULL]
    /\ cond = [t \in Thread |-> NULL]
    /\ saved = [t \in Thread |-> PRI_MIN]

Goto(t, where, what) ==
    /\ pc' = [pc EXCEPT ![t] = where]
    /\ arg' = [arg EXCEPT ![t] = what]

-------------------------------------------------------------------------------
(***************************************************************************)
(* sema_down by thread t, with priorities pri: t takes the semaphore, or   *)
(* joins the waiters and blocks.                                           *)
(***************************************************************************)
TakeSema(s) == value' = [value EXCEPT ![s] = value[s] - 1]

WaitOn(t, s, pri) ==
    /\ waiters' = [waiters EXCEPT ![s] = list_insert_ordered(waiters[s], t, pri)]
    /\ thread_block(ready_list, status, pri)
    /\ Goto(t, "down", s)
    /\ UNCHANGED value

\* Mutants: a waiter is woken only if the semaphore was down; sema_up keeps
\* the processor.
Wakes_if_zero(s) == waiters[s] # <<>> /\ value[s] = 0
AfterUp_no_yield(rl, st) == status' = st /\ ready_list' = rl /\ current' = current

\* sema_up wakes the first of the sorted waiters, if any, and always ends by
\* giving up the processor: its callers here have interrupts on.  (With
\* interrupts off it does not yield; Terminal has that caller, intq.c.)
Wakes(s) == waiters[s] # <<>>
PopWaiter(l) == list_rest(l)
AfterUp(rl, st) == thread_yield(rl, st, priority)

sema_up(s) ==
    LET sorted == list_sort(waiters[s], priority)
    IN  /\ value' = [value EXCEPT ![s] = value[s] + 1]
        /\ waiters' = [waiters EXCEPT ![s] = IF Wakes(s) THEN PopWaiter(sorted) ELSE @]
        /\ IF Wakes(s)
             THEN AfterUp(UnblockedList(ready_list, list_front(sorted), priority),
                          UnblockedStatus(status, list_front(sorted)))
             ELSE AfterUp(ready_list, status)

-------------------------------------------------------------------------------
(***************************************************************************)
(* Priority donation.  DonationPath(l, waiting)[i] is the lock reached from *)
(* l by going i times from a lock's holder to the lock the holder waits    *)
(* for.  Gift(p, path, i) is the priority that arrives there: the largest  *)
(* of p, the donor's priority, and those of the holders on the way.        *)
(***************************************************************************)
Depth == 0..MAX_DONATION_DEPTH

NextLock(l, waiting) ==
    IF l = NULL THEN NULL
    ELSE IF holder[l] = NULL THEN NULL
    ELSE waiting[holder[l]]

DonationPath(l, waiting) ==
    LET path[i \in Depth] == IF i = 0 THEN l ELSE NextLock(path[i - 1], waiting)
    IN  path

HolderAt(path, i) == IF path[i] = NULL THEN NULL ELSE holder[path[i]]

Gift(p, path, i) ==
    Max({q \in Priority : \/ q = p
                          \/ \E j \in 0..(i - 1) : /\ HolderAt(path, j) \in Thread
                                                   /\ q = priority[HolderAt(path, j)]})

\* The gifts that thread h, or lock l, receives.  A lock passed on the way
\* takes the gift even if it has no holder; the first one needs a holder.
ToThread(p, path, h) ==
    {q \in Priority : \E i \in Depth : HolderAt(path, i) = h /\ q = Gift(p, path, i)}

ToLock(p, path, l) ==
    {q \in Priority : \E i \in Depth : /\ path[i] = l
                                       /\ i = 0 => HolderAt(path, 0) # NULL
                                       /\ q = Gift(p, path, i)}

PriorityAfter(p, path) ==
    [h \in AllThread |-> IF h = idle_thread THEN priority[h]
                         ELSE Max({priority[h]} \cup ToThread(p, path, h))]

\* Mutant: the donor raises priority but forgets donated_priority.
DonatedAfter_forgotten(p, path) == donated_priority

DonatedAfter(p, path) ==
    [h \in AllThread |-> IF h = idle_thread THEN donated_priority[h]
                         ELSE Max({donated_priority[h]} \cup ToThread(p, path, h))]

MaxPriorityAfter(p, path) ==
    [l \in Lock |-> Max({max_priority[l]} \cup ToLock(p, path, l))]

-------------------------------------------------------------------------------
\* Mutant: the thread that got the lock still says it waits for it.
Acquired_waiting(t, l, pri, maxp) ==
    LET sorted == list_sort(waiters[l], pri)
    IN  /\ TakeSema(l)
        /\ waiters' = [waiters EXCEPT ![l] = sorted]
        /\ max_priority' = [maxp EXCEPT ![l] =
              IF sorted = <<>> THEN PRI_MIN ELSE pri[list_front(sorted)]]
        /\ locks' = [locks EXCEPT ![t] = locks[t] \cup {l}]
        /\ holder' = [holder EXCEPT ![l] = t]
        /\ Goto(t, "run", NULL)
        /\ UNCHANGED waiting_lock
        /\ cond' = [cond EXCEPT ![t] = NULL]

\* What lock_acquire does once sema_down has let t through.
Acquired(t, l, pri, maxp) ==
    LET sorted == list_sort(waiters[l], pri)
    IN  /\ TakeSema(l)
        /\ waiters' = [waiters EXCEPT ![l] = sorted]
        /\ max_priority' = [maxp EXCEPT ![l] =
              IF sorted = <<>> THEN PRI_MIN ELSE pri[list_front(sorted)]]
        /\ waiting_lock' = [waiting_lock EXCEPT ![t] = NULL]
        /\ locks' = [locks EXCEPT ![t] = locks[t] \cup {l}]
        /\ holder' = [holder EXCEPT ![l] = t]
        /\ Goto(t, "run", NULL)
        /\ cond' = [cond EXCEPT ![t] = NULL]

\* lock_acquire up to the point where t has the lock or blocks.
lock_acquire(t, l) ==
    /\ current = t
    /\ \/ pc[t] = "run"
       \/ pc[t] = "acquire" /\ l = cond_lock[cond[t]]
    /\ holder[l] # t
    /\ LET path == DonationPath(l, [waiting_lock EXCEPT ![t] = l])
           pri == PriorityAfter(priority[t], path)
           maxp == MaxPriorityAfter(priority[t], path)
       IN  /\ priority' = pri
           /\ donated_priority' = DonatedAfter(priority[t], path)
           /\ IF value[l] > 0
                THEN /\ Acquired(t, l, pri, maxp)
                     /\ UNCHANGED <<status, ready_list, current>>
                ELSE /\ WaitOn(t, l, pri)
                     /\ waiting_lock' = [waiting_lock EXCEPT ![t] = l]
                     /\ max_priority' = maxp
                     /\ UNCHANGED <<locks, holder, cond>>
    /\ UNCHANGED <<base_priority, cond_waiters, captured, saved>>

sema_down(t, s) ==
    /\ current = t
    /\ \/ pc[t] = "run" /\ s \in Semaphore
       \/ pc[t] = "wait" /\ s = t
    /\ IF value[s] > 0
         THEN /\ TakeSema(s)
              /\ Goto(t, IF s = t THEN "acquire" ELSE "run", NULL)
              /\ UNCHANGED <<waiters, status, ready_list, current>>
         ELSE WaitOn(t, s, priority)
    /\ UNCHANGED <<priority, base_priority, donated_priority, holder, max_priority,
                   waiting_lock, locks, cond_waiters, captured, cond, saved>>

\* Mutant: "if" in place of "while": the woken thread trusts the wake-up.
MustWait_never(s) == FALSE

MustWait(s) == value[s] = 0

\* A thread that was woken runs again: sema_down's loop looks at value anew.
sema_down_resume(t) ==
    LET s == arg[t]
    IN  /\ current = t /\ pc[t] = "down"
        /\ IF MustWait(s)
             THEN /\ WaitOn(t, s, priority)
                  /\ UNCHANGED <<holder, max_priority, waiting_lock, locks, cond>>
             ELSE /\ IF s \in Lock
                       THEN Acquired(t, s, priority, max_priority)
                       ELSE /\ TakeSema(s)
                            /\ Goto(t, IF s = t THEN "acquire" ELSE "run", NULL)
                            /\ UNCHANGED <<waiters, holder, max_priority,
                                           waiting_lock, locks, cond>>
                  /\ UNCHANGED <<status, ready_list, current>>
        /\ UNCHANGED <<priority, base_priority, donated_priority,
                       cond_waiters, captured, saved>>

-------------------------------------------------------------------------------
\* sema_try_down on a semaphore; where it fails nothing changes.
CanTryDown(s) == value[s] > 0

sema_try_down(t, s) ==
    /\ current = t /\ pc[t] = "run"
    /\ CanTryDown(s)
    /\ TakeSema(s)
    /\ UNCHANGED <<threadVars, waiters, holder, max_priority, waiting_lock, locks,
                   cond_waiters, captured, pc, arg, cond, saved>>

\* lock_try_acquire: with interrupts on, it takes the semaphore ...
lock_try_acquire(t, l) ==
    /\ current = t /\ pc[t] = "run"
    /\ holder[l] # t
    /\ CanTryDown(l)
    /\ TakeSema(l)
    /\ Goto(t, "try", l)
    /\ UNCHANGED <<threadVars, waiters, holder, max_priority, waiting_lock, locks,
                   cond_waiters, captured, cond, saved>>

\* ... and then makes itself the holder.
lock_try_holder(t) ==
    /\ current = t /\ pc[t] = "try"
    /\ holder' = [holder EXCEPT ![arg[t]] = t]
    /\ locks' = [locks EXCEPT ![t] = locks[t] \cup {arg[t]}]
    /\ Goto(t, "run", NULL)
    /\ UNCHANGED <<threadVars, value, waiters, max_priority, waiting_lock,
                   cond_waiters, captured, cond, saved>>

\* lock_held_by_current_thread
MayRelease(t, l) == holder[l] = t

\* lock_release, with interrupts on: the largest priority that still waits
\* for a lock of t is read here ...
lock_release(t, l) ==
    /\ current = t
    /\ \/ pc[t] = "run"
       \/ pc[t] = "release" /\ l = cond_lock[cond[t]]
    /\ MayRelease(t, l)
    /\ LET left == locks[t] \ {l}
       IN  /\ locks' = [locks EXCEPT ![t] = left]
           /\ saved' = [saved EXCEPT ![t] =
                 Max({PRI_MIN} \cup {max_priority[k] : k \in left})]
    /\ Goto(t, "store", l)
    /\ UNCHANGED <<threadVars, value, waiters, holder, max_priority, waiting_lock,
                   cond_waiters, captured, cond>>

\* ... and stored here, ...
lock_release_store(t) ==
    /\ current = t /\ pc[t] = "store"
    /\ donated_priority' = [donated_priority EXCEPT ![t] = saved[t]]
    /\ saved' = [saved EXCEPT ![t] = PRI_MIN]
    /\ Goto(t, "holder", arg[t])
    /\ UNCHANGED <<status, priority, base_priority, ready_list, current, value,
                   waiters, holder, max_priority, waiting_lock, locks,
                   cond_waiters, captured, cond>>

\* ... then the lock loses its holder, ...
lock_release_holder(t) ==
    /\ current = t /\ pc[t] = "holder"
    /\ holder' = [holder EXCEPT ![arg[t]] = NULL]
    /\ Goto(t, "up", arg[t])
    /\ UNCHANGED <<threadVars, value, waiters, max_priority, waiting_lock, locks,
                   cond_waiters, captured, cond, saved>>

\* ... its semaphore goes up, which wakes a waiter and yields, ...
lock_release_up(t) ==
    /\ current = t /\ pc[t] = "up"
    /\ sema_up(arg[t])
    /\ Goto(t, "reset", NULL)
    /\ UNCHANGED <<priority, base_priority, donated_priority, holder, max_priority,
                   waiting_lock, locks, cond_waiters, captured, cond, saved>>

\* ... and t's priority is computed anew.
lock_release_reset(t) ==
    /\ current = t /\ pc[t] = "reset"
    /\ thread_set_priority(t, base_priority[t])
    /\ Goto(t, IF cond[t] = NULL THEN "run" ELSE "wait", NULL)
    /\ UNCHANGED <<value, waiters, holder, max_priority, waiting_lock, locks,
                   cond_waiters, captured, cond, saved>>

-------------------------------------------------------------------------------
Up(t, s) ==
    /\ current = t /\ pc[t] = "run"
    /\ value[s] < MaxValue
    /\ sema_up(s)
    /\ UNCHANGED <<priority, base_priority, donated_priority, holder, max_priority,
                   waiting_lock, locks, cond_waiters, captured, pc, arg, cond, saved>>

\* An interrupt handler ups a semaphore (as ide.c's does), whoever runs.
InterruptsOn == \A t \in Thread : current = t => pc[t] # "down"

InterruptUp(s) ==
    /\ InterruptsOn
    /\ value[s] < MaxValue
    /\ sema_up(s)
    /\ UNCHANGED <<priority, base_priority, donated_priority, holder, max_priority,
                   waiting_lock, locks, cond_waiters, captured, pc, arg, cond, saved>>

\* The timer interrupt ends the running thread's time slice.
Preempt ==
    /\ InterruptsOn
    /\ thread_yield(ready_list, status, priority)
    /\ UNCHANGED <<priority, base_priority, donated_priority, synchVars>>

SetPriority(t, p) ==
    /\ current = t /\ pc[t] = "run"
    /\ thread_set_priority(t, p)
    /\ UNCHANGED synchVars

-------------------------------------------------------------------------------
cond_wait(t, c) ==
    /\ current = t /\ pc[t] = "run"
    /\ holder[cond_lock[c]] = t
    /\ value' = [value EXCEPT ![t] = 0]
    /\ captured' = [captured EXCEPT ![t] = priority[t]]
    /\ cond_waiters' = [cond_waiters EXCEPT ![c] =
          list_insert_ordered(cond_waiters[c], t, captured')]
    /\ cond' = [cond EXCEPT ![t] = c]
    /\ Goto(t, "release", NULL)
    /\ UNCHANGED <<threadVars, waiters, holder, max_priority, waiting_lock, locks, saved>>

\* Mutant: the signalled waiter stays on the condition's list.
SignalOne_peek(t, c) ==
    LET sorted == list_sort(cond_waiters[c], captured)
    IN  /\ cond_waiters[c] # <<>>
        /\ cond_waiters' = [cond_waiters EXCEPT ![c] = sorted]
        /\ sema_up(list_front(sorted))

\* cond_signal, and one turn of cond_broadcast's loop.
SignalOne(t, c) ==
    LET sorted == list_sort(cond_waiters[c], captured)
    IN  /\ cond_waiters[c] # <<>>
        /\ cond_waiters' = [cond_waiters EXCEPT ![c] = PopWaiter(sorted)]
        /\ sema_up(list_front(sorted))

cond_signal(t, c) ==
    /\ current = t /\ pc[t] = "run"
    /\ holder[cond_lock[c]] = t
    /\ SignalOne(t, c)
    /\ UNCHANGED <<priority, base_priority, donated_priority, holder, max_priority,
                   waiting_lock, locks, captured, pc, arg, cond, saved>>

cond_broadcast(t, c) ==
    /\ current = t
    /\ \/ pc[t] = "run" /\ holder[cond_lock[c]] = t
       \/ pc[t] = "broadcast" /\ arg[t] = c
    /\ SignalOne(t, c)
    /\ IF Len(cond_waiters[c]) > 1 THEN Goto(t, "broadcast", c) ELSE Goto(t, "run", NULL)
    /\ UNCHANGED <<priority, base_priority, donated_priority, holder, max_priority,
                   waiting_lock, locks, captured, cond, saved>>

-------------------------------------------------------------------------------
Next ==
    \/ \E t \in Thread :
          \/ \E l \in Lock : lock_acquire(t, l) \/ lock_release(t, l)
          \/ \E l \in TryLock : lock_try_acquire(t, l)
          \/ lock_try_holder(t)
          \/ lock_release_store(t)
          \/ lock_release_holder(t)
          \/ lock_release_up(t)
          \/ lock_release_reset(t)
          \/ \E s \in Semaphore \cup {t} : sema_down(t, s)
          \/ sema_down_resume(t)
          \/ \E s \in Semaphore : sema_try_down(t, s) \/ Up(t, s)
          \/ \E c \in Condition : cond_wait(t, c) \/ cond_signal(t, c) \/ cond_broadcast(t, c)
          \/ \E p \in NewPriority : SetPriority(t, p)
    \/ \E s \in Semaphore : InterruptUp(s)
    \/ Preempt

Spec == Init /\ [][Next]_vars

-------------------------------------------------------------------------------
(***************************************************************************)
(* Mutual exclusion.  t owns l from the moment sema_down lets it through   *)
(* until sema_up: the code's holder field lags behind at both ends.  No    *)
(* lock has two owners, a lock whose semaphore is up has none, and holder  *)
(* never names a thread that is not the owner.                             *)
(***************************************************************************)
Owns(t, l) ==
    \/ l \in locks[t]
    \/ pc[t] \in {"try", "store", "holder", "up"} /\ arg[t] = l

MutualExclusion ==
    \A l \in Lock :
        /\ \A t, u \in Thread : Owns(t, l) /\ Owns(u, l) => t = u
        /\ value[l] = IF \E t \in Thread : Owns(t, l) THEN 0 ELSE 1
        /\ holder[l] # NULL => Owns(holder[l], l)

(***************************************************************************)
(* Each BLOCKED thread is on the waiters list of the semaphore it downs,   *)
(* and only there; a woken thread is on none.                              *)
(***************************************************************************)
WaitersAreBlocked ==
    \A s \in Sema :
        /\ Elements(waiters[s]) =
              {t \in Thread : status[t] = "BLOCKED" /\ pc[t] = "down" /\ arg[t] = s}
        /\ Distinct(waiters[s])

Woken(s) == {t \in Thread : status[t] # "BLOCKED" /\ pc[t] = "down" /\ arg[t] = s}

(***************************************************************************)
(* No wake-up is lost: while threads wait on a semaphore that is up, at    *)
(* least as many woken threads are on their way to it as it can let in.    *)
(* A thread may take the semaphore before the one that was woken for it;   *)
(* the woken thread then waits again.                                      *)
(***************************************************************************)
NoLostWakeup ==
    \A s \in Sema : waiters[s] # <<>> => value[s] <= Cardinality(Woken(s))

AwaitsSignal(t) ==
    /\ cond[t] # NULL
    /\ \/ pc[t] \in {"release", "store", "holder", "up", "reset", "wait"}
       \/ pc[t] = "down" /\ arg[t] = t

(***************************************************************************)
(* No signal is lost: a thread in cond_wait () that has not been let past  *)
(* its own semaphore is on the condition's waiters, or has been signalled, *)
(* and not both, however cond_wait () is preempted between the release of  *)
(* the lock and the wait.                                                  *)
(***************************************************************************)
NoLostSignal ==
    /\ \A t \in Thread :
          AwaitsSignal(t) =>
             value[t] = (IF t \in Elements(cond_waiters[cond[t]]) THEN 0 ELSE 1)
    /\ \A c \in Condition :
          /\ Distinct(cond_waiters[c])
          /\ \A t \in Elements(cond_waiters[c]) : AwaitsSignal(t) /\ cond[t] = c

(***************************************************************************)
(* The run queue is always ordered, although a donor raises the priority   *)
(* of threads on it: thread_set_priority () looks only at its front.       *)
(***************************************************************************)
ReadyOrdered == Ordered(ready_list, priority)

Owner == [l \in Lock |-> IF \E t \in Thread : Owns(t, l)
                          THEN CHOOSE t \in Thread : Owns(t, l) ELSE NULL]

Abstract == INSTANCE AbstractLock WITH owner <- Owner, waiting <- waiting_lock

(***************************************************************************)
(* The locks implement AbstractLock.                                       *)
(***************************************************************************)
LocksAreMutexes == Abstract!Spec

Releasing(t) == pc[t] \in {"store", "holder", "up", "reset"}

(***************************************************************************)
(* A thread's priority is earned: never below its base priority and,       *)
(* outside lock_release (), never above both its base and its donated      *)
(* priority, although donors, lock_release () and thread_set_priority ()   *)
(* each write only some of the three fields, at different times.           *)
(***************************************************************************)
PriorityEarned ==
    \A t \in Thread :
        /\ base_priority[t] <= priority[t]
        /\ ~Releasing(t) => priority[t] <= Larger(base_priority[t], donated_priority[t])

\* A thread that is not inside cond_wait () waits on no condition: what keeps
\* lock_release () of others apart from that of cond_wait ().
CondCleared ==
    \A t \in Thread :
        \/ pc[t] \in {"run", "try", "broadcast"}
        \/ pc[t] = "down" /\ arg[t] \in Semaphore
        => cond[t] = NULL

(***************************************************************************)
(* The inductive invariant behind these properties.  Where ties arg and    *)
(* cond to the place a thread is at; LockFields ties holder and            *)
(* waiting_lock to the threads' own view; the run queue stays ordered.     *)
(***************************************************************************)
Where ==
    \A t \in Thread :
        /\ pc[t] \in {"try", "store", "holder", "up"} => arg[t] \in Lock \ locks[t]
        /\ pc[t] = "down" => arg[t] \in Lock \cup Semaphore \cup {t}
        /\ pc[t] = "down" /\ arg[t] = t => cond[t] \in Condition
        /\ pc[t] \in {"release", "wait", "acquire"} => cond[t] \in Condition
        /\ pc[t] = "broadcast" => arg[t] \in Condition

LockFields ==
    /\ \A t \in Thread, l \in Lock :
          holder[l] = t <=> \/ l \in locks[t]
                            \/ pc[t] \in {"store", "holder"} /\ arg[t] = l
    /\ \A t \in Thread :
          waiting_lock[t] = IF pc[t] = "down" /\ arg[t] \in Lock THEN arg[t] ELSE NULL

IInv ==
    /\ TypeOK
    /\ Where
    /\ LockFields
    /\ MutualExclusion
    /\ SchedulerOK
    /\ ReadyOrdered
    /\ HighestRuns
    /\ WaitersAreBlocked
    /\ PriorityEarned
===============================================================================
