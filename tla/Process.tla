------------------------------- MODULE Process --------------------------------
(***************************************************************************)
(* User processes: userprog/process.c's process_execute, start_process,    *)
(* process_wait and process_exit, the reference count of struct process,   *)
(* and the use of filesys_lock by load (), process_exit () and the system  *)
(* calls of userprog/syscall.c.                                            *)
(*                                                                         *)
(* Locks and semaphores are those that Synch shows to be implemented by    *)
(* synch.c: a lock is its owner, a semaphore its value.  Every process has *)
(* PRI_DEFAULT, so the threads may interleave anywhere.  A critical        *)
(* section of a process's lock that nobody enters with lock_try_acquire ()  *)
(* meanwhile is one step, enabled when the lock is free; the one of        *)
(* process_wait (), which process_exit () may meet, is two.                *)
(*                                                                         *)
(* A process p is also its thread and its struct process.  pc[p] says      *)
(* where the thread is, child[p] is its local variable child_proc:         *)
(*   none     no thread                    start    start_process, line 158 *)
(*   user     in user code                 open     load, filesys_lock     *)
(*   push     process_execute, line 132    read     load, with the lock    *)
(*   load     process_execute, line 136    io       a system call on files *)
(*   test     process_execute, line 137    exit     process_exit, line 273 *)
(*   mark     process_wait, line 218       close    process_exit, line 283 *)
(*   marking  process_wait, with the lock  closing  with filesys_lock      *)
(*   down     process_wait, line 227       record   process_exit, line 304 *)
(*   status   process_wait, line 229       wake     process_exit, line 313 *)
(*   reap     lines 139 and 233            free     process_exit, line 314 *)
(*   drop     lines 142 and 237            dead, failed   no thread left   *)
(***************************************************************************)
EXTENDS Integers, FiniteSets

CONSTANTS
    Process,
    initial,        \* the process of run_task (), whose thread is main ()'s
    NULL,
    ExitStatus,     \* the statuses passed to exit (); -1 comes from the kernel
    LoadOutcome,    \* what may come of load (): "ok", "fail" or "fault"
    MaxIO           \* bound: system calls on files each process makes

ASSUME ProcessAssumption ==
    /\ initial \in Process
    /\ NULL \notin Process
    /\ ExitStatus \subseteq Int
    /\ LoadOutcome \subseteq {"ok", "fail", "fault"}
    /\ MaxIO \in Nat

VARIABLES
    alloc,                                  \* struct process: none, live, freed
    parent, children, ref_count, loaded,    \* struct process
    waited, exit_status, wait_sema, lock,
    filesys_lock,
    pc, child,
    code,                                   \* the argument of process_exit ()
    result,                                 \* what exec or wait returned last
    printed,                                \* processes whose exit was printed
    io                                      \* system calls on files made so far

structVars == <<alloc, parent, children, ref_count, loaded, waited, exit_status,
                wait_sema, lock>>
vars == <<structVars, filesys_lock, pc, child, code, result, printed, io>>

PC == {"none", "user", "push", "load", "test", "mark", "marking", "down", "status",
       "reap", "drop", "start", "open", "read", "io", "exit", "close", "closing",
       "record", "wake", "free", "dead", "failed"}

Code == ExitStatus \cup {-1}

TypeOK ==
    /\ alloc \in [Process -> {"none", "live", "freed"}]
    /\ parent \in [Process -> Process \cup {NULL}]
    /\ children \in [Process -> SUBSET Process]
    /\ ref_count \in [Process -> Nat]
    /\ loaded \in [Process -> BOOLEAN]
    /\ waited \in [Process -> BOOLEAN]
    /\ exit_status \in [Process -> Code]
    /\ wait_sema \in [Process -> Nat]
    /\ lock \in [Process -> Process \cup {NULL}]
    /\ filesys_lock \in Process \cup {NULL}
    /\ pc \in [Process -> PC]
    /\ child \in [Process -> Process \cup {NULL}]
    /\ code \in [Process -> Code]
    /\ result \in [Process -> Code \cup Process]
    /\ printed \subseteq Process
    /\ io \in [Process -> 0..MaxIO]

\* run_task () has made the first struct process.
Init ==
    /\ alloc = [p \in Process |-> IF p = initial THEN "live" ELSE "none"]
    /\ parent = [p \in Process |-> NULL]
    /\ children = [p \in Process |-> {}]
    /\ ref_count = [p \in Process |-> IF p = initial THEN 1 ELSE 0]
    /\ loaded = [p \in Process |-> FALSE]
    /\ waited = [p \in Process |-> FALSE]
    /\ exit_status = [p \in Process |-> -1]
    /\ wait_sema = [p \in Process |-> 0]
    /\ lock = [p \in Process |-> NULL]
    /\ filesys_lock = NULL
    /\ pc = [p \in Process |-> IF p = initial THEN "user" ELSE "none"]
    /\ child = [p \in Process |-> NULL]
    /\ code = [p \in Process |-> -1]
    /\ result = [p \in Process |-> -1]
    /\ printed = {}
    /\ io = [p \in Process |-> 0]

Goto(p, where) == pc' = [pc EXCEPT ![p] = where]

\* Nobody is inside a critical section of q's lock.
Unlocked(q) == lock[q] = NULL

-------------------------------------------------------------------------------
(***************************************************************************)
(* process_execute (), up to thread_create (): init_process () builds the  *)
(* child's struct, then its thread may run.                                *)
(***************************************************************************)
process_execute(p, c) ==
    /\ pc[p] = "user" /\ alloc[c] = "none"
    /\ p = initial => child[p] = NULL
    /\ alloc' = [alloc EXCEPT ![c] = "live"]
    /\ parent' = [parent EXCEPT ![c] = p]
    /\ ref_count' = [ref_count EXCEPT ![c] = 1]
    /\ pc' = [pc EXCEPT ![p] = "push", ![c] = "start"]
    /\ child' = [child EXCEPT ![p] = c]
    /\ UNCHANGED <<children, loaded, waited, exit_status, wait_sema, lock,
                   filesys_lock, code, result, printed, io>>

\* Out of memory before the child's thread exists: everything is freed again.
process_execute_fails(p, c) ==
    /\ pc[p] = "user" /\ alloc[c] = "none"
    /\ p = initial => child[p] = NULL
    /\ alloc' = [alloc EXCEPT ![c] = "freed"]
    /\ child' = [child EXCEPT ![p] = c]
    /\ result' = [result EXCEPT ![p] = -1]
    /\ UNCHANGED <<parent, children, ref_count, loaded, waited, exit_status,
                   wait_sema, lock, filesys_lock, pc, code, printed, io>>

process_execute_push(p) ==
    /\ pc[p] = "push" /\ Unlocked(p)
    /\ children' = [children EXCEPT ![p] = children[p] \cup {child[p]}]
    /\ Goto(p, "load")
    /\ UNCHANGED <<alloc, parent, ref_count, loaded, waited, exit_status, wait_sema,
                   lock, filesys_lock, child, code, result, printed, io>>

\* sema_down (&child_proc->wait_sema), which load () and process_exit () up.
CanDown(c) == wait_sema[c] > 0

Down(c) == wait_sema' = [wait_sema EXCEPT ![c] = wait_sema[c] - 1]

\* Mutant: process_execute does not wait for the child.
process_execute_nowait(p) ==
    /\ pc[p] = "load"
    /\ Goto(p, "test")
    /\ UNCHANGED <<structVars, filesys_lock, child, code, result, printed, io>>

process_execute_load(p) ==
    /\ pc[p] = "load" /\ CanDown(child[p])
    /\ Down(child[p])
    /\ Goto(p, "test")
    /\ UNCHANGED <<alloc, parent, children, ref_count, loaded, waited, exit_status,
                   lock, filesys_lock, child, code, result, printed, io>>

process_execute_test(p) ==
    /\ pc[p] = "test"
    /\ result' = [result EXCEPT ![p] = IF loaded[child[p]] THEN child[p] ELSE -1]
    /\ Goto(p, IF loaded[child[p]] THEN "user" ELSE "reap")
    /\ UNCHANGED <<structVars, filesys_lock, child, code, printed, io>>

\* The parent takes the child off its list, ...
reap(p) ==
    /\ pc[p] = "reap" /\ Unlocked(p)
    /\ children' = [children EXCEPT ![p] = children[p] \ {child[p]}]
    /\ Goto(p, "drop")
    /\ UNCHANGED <<alloc, parent, ref_count, loaded, waited, exit_status, wait_sema,
                   lock, filesys_lock, child, code, result, printed, io>>

(***************************************************************************)
(* process_refcount_free (): the last reference frees the struct.          *)
(***************************************************************************)
process_refcount_free(q) ==
    /\ Unlocked(q)
    /\ ref_count' = [ref_count EXCEPT ![q] = ref_count[q] - 1]
    /\ alloc' = [alloc EXCEPT ![q] = IF ref_count[q] = 1 THEN "freed" ELSE @]
    /\ UNCHANGED <<parent, children, loaded, waited, exit_status, wait_sema, lock>>

\* Mutant: the parent keeps its reference.
drop_forgets(p) ==
    /\ pc[p] = "drop"
    /\ Goto(p, "user")
    /\ UNCHANGED <<structVars, filesys_lock, child, code, result, printed, io>>

\* ... drops its reference and returns to the user.
drop(p) ==
    /\ pc[p] = "drop"
    /\ process_refcount_free(child[p])
    /\ Goto(p, "user")
    /\ UNCHANGED <<filesys_lock, child, code, result, printed, io>>

-------------------------------------------------------------------------------
\* Mutant: the child takes no reference of its own.
RefsAfterStart_none(p) == ref_count

RefsAfterStart(p) == [ref_count EXCEPT ![p] = ref_count[p] + 1]

start_process(p) ==
    /\ pc[p] = "start"
    /\ ref_count' = RefsAfterStart(p)
    /\ Goto(p, "open")
    /\ UNCHANGED <<alloc, parent, children, loaded, waited, exit_status, wait_sema,
                   lock, filesys_lock, child, code, result, printed, io>>

\* load () takes filesys_lock, if pagedir_create () gave it a page directory.
load_open(p) ==
    /\ pc[p] = "open" /\ filesys_lock = NULL
    /\ filesys_lock' = p
    /\ Goto(p, "read")
    /\ UNCHANGED <<structVars, child, code, result, printed, io>>

\* The end of start_process: loaded, and sema_up (&process->wait_sema).
Loaded(p, success) ==
    /\ loaded' = [loaded EXCEPT ![p] = success]
    /\ wait_sema' = [wait_sema EXCEPT ![p] = wait_sema[p] + 1]
    /\ Goto(p, IF success THEN "user" ELSE "failed")
    /\ UNCHANGED <<alloc, parent, children, ref_count, waited, exit_status, lock,
                   child, code, result, printed, io>>

load_no_pagedir(p) ==
    /\ pc[p] = "open" /\ "fail" \in LoadOutcome
    /\ Loaded(p, FALSE)
    /\ UNCHANGED filesys_lock

load(p) ==
    /\ pc[p] = "read"
    /\ \E outcome \in LoadOutcome \cap {"ok", "fail"} : Loaded(p, outcome = "ok")
    /\ filesys_lock' = NULL

\* setup_stack () writes below the stack page: page_fault () calls
\* process_exit (-1) inside load ().
load_faults(p) ==
    /\ pc[p] = "read" /\ "fault" \in LoadOutcome
    /\ code' = [code EXCEPT ![p] = -1]
    /\ Goto(p, "exit")
    /\ UNCHANGED <<structVars, filesys_lock, child, result, printed, io>>

-------------------------------------------------------------------------------
\* process_wait (): it looks for the child under its own lock, ...
process_wait(p, c) ==
    /\ pc[p] = "user" /\ Unlocked(p)
    /\ p = initial => c = child[p] /\ c \in children[p]
    /\ IF c \in children[p]
         THEN /\ child' = [child EXCEPT ![p] = c]
              /\ Goto(p, "mark")
              /\ UNCHANGED result
         ELSE /\ result' = [result EXCEPT ![p] = -1]
              /\ UNCHANGED <<child, pc>>
    /\ UNCHANGED <<structVars, filesys_lock, code, printed, io>>

\* ... takes the child's lock, ...
process_wait_mark(p) ==
    /\ pc[p] = "mark" /\ Unlocked(child[p])
    /\ lock' = [lock EXCEPT ![child[p]] = p]
    /\ Goto(p, "marking")
    /\ UNCHANGED <<alloc, parent, children, ref_count, loaded, waited, exit_status,
                   wait_sema, filesys_lock, child, code, result, printed, io>>

\* ... notes that it waits, and releases the lock, ...
process_wait_marked(p) ==
    /\ pc[p] = "marking"
    /\ lock' = [lock EXCEPT ![child[p]] = NULL]
    /\ waited' = [waited EXCEPT ![child[p]] = TRUE]
    /\ IF waited[child[p]]
         THEN /\ Goto(p, "user")
              /\ result' = [result EXCEPT ![p] = -1]
         ELSE /\ Goto(p, "down")
              /\ UNCHANGED result
    /\ UNCHANGED <<alloc, parent, children, ref_count, loaded, exit_status,
                   wait_sema, filesys_lock, child, code, printed, io>>

\* ... waits, ...
process_wait_down(p) ==
    /\ pc[p] = "down" /\ CanDown(child[p])
    /\ Down(child[p])
    /\ Goto(p, "status")
    /\ UNCHANGED <<alloc, parent, children, ref_count, loaded, waited, exit_status,
                   lock, filesys_lock, child, code, result, printed, io>>

\* ... and reads the status.
process_wait_status(p) ==
    /\ pc[p] = "status" /\ Unlocked(child[p])
    /\ result' = [result EXCEPT ![p] = exit_status[child[p]]]
    /\ Goto(p, "reap")
    /\ UNCHANGED <<structVars, filesys_lock, child, code, printed, io>>

-------------------------------------------------------------------------------
\* A system call on files takes filesys_lock, then the process's own lock.
syscall_io(p) ==
    /\ pc[p] = "user" /\ p # initial /\ io[p] < MaxIO
    /\ filesys_lock = NULL
    /\ filesys_lock' = p
    /\ io' = [io EXCEPT ![p] = io[p] + 1]
    /\ Goto(p, "io")
    /\ UNCHANGED <<structVars, child, code, result, printed>>

syscall_io_done(p) ==
    /\ pc[p] = "io" /\ Unlocked(p)
    /\ filesys_lock' = NULL
    /\ Goto(p, "user")
    /\ UNCHANGED <<structVars, child, code, result, printed, io>>

(***************************************************************************)
(* process_exit (), called by exit () or, with -1, when the kernel kills   *)
(* the process.  Where lock_try_acquire () fails the code goes on.         *)
(***************************************************************************)
process_exit(p, s) ==
    /\ pc[p] = "user" /\ p # initial
    /\ code' = [code EXCEPT ![p] = s]
    /\ Goto(p, "exit")
    /\ UNCHANGED <<structVars, filesys_lock, child, result, printed, io>>

process_exit_print(p) ==
    /\ pc[p] = "exit"
    /\ printed' = IF Unlocked(p) THEN printed \cup {p} ELSE printed
    /\ Goto(p, IF filesys_lock = p THEN "record" ELSE "close")
    /\ UNCHANGED <<structVars, filesys_lock, child, code, result, io>>

process_exit_lock(p) ==
    /\ pc[p] = "close" /\ filesys_lock = NULL
    /\ filesys_lock' = p
    /\ Goto(p, "closing")
    /\ UNCHANGED <<structVars, child, code, result, printed, io>>

\* Mappings are unmapped and files are closed under filesys_lock, which is
\* released only if process_exit () took it itself.
process_exit_close(p) ==
    /\ pc[p] = "closing"
    /\ filesys_lock' = NULL
    /\ Goto(p, "record")
    /\ UNCHANGED <<structVars, child, code, result, printed, io>>

process_exit_record(p) ==
    /\ pc[p] = "record"
    /\ exit_status' = IF Unlocked(p) THEN [exit_status EXCEPT ![p] = code[p]]
                      ELSE exit_status
    /\ Goto(p, "wake")
    /\ UNCHANGED <<alloc, parent, children, ref_count, loaded, waited, wait_sema,
                   lock, filesys_lock, child, code, result, printed, io>>

\* Mutant: the parent is not woken.
process_exit_wake_silent(p) ==
    /\ pc[p] = "wake"
    /\ Goto(p, "free")
    /\ UNCHANGED <<structVars, filesys_lock, child, code, result, printed, io>>

process_exit_wake(p) ==
    /\ pc[p] = "wake"
    /\ wait_sema' = [wait_sema EXCEPT ![p] = wait_sema[p] + 1]
    /\ Goto(p, "free")
    /\ UNCHANGED <<alloc, parent, children, ref_count, loaded, waited, exit_status,
                   lock, filesys_lock, child, code, result, printed, io>>

\* hash_destroy (), process_refcount_free (proc), thread_exit ().
process_exit_free(p) ==
    /\ pc[p] = "free"
    /\ process_refcount_free(p)
    /\ Goto(p, "dead")
    /\ UNCHANGED <<filesys_lock, child, code, result, printed, io>>

\* The end of run_task ().
run_task_done ==
    /\ pc[initial] = "user" /\ child[initial] # NULL
    /\ child[initial] \notin children[initial]
    /\ process_refcount_free(initial)
    /\ Goto(initial, "dead")
    /\ UNCHANGED <<filesys_lock, child, code, result, printed, io>>

-------------------------------------------------------------------------------
\* What a thread does inside the kernel, once it has entered it.
Step(p) ==
    \/ process_execute_push(p) \/ process_execute_load(p) \/ process_execute_test(p)
    \/ reap(p) \/ drop(p)
    \/ start_process(p) \/ load_open(p) \/ load_no_pagedir(p) \/ load(p) \/ load_faults(p)
    \/ process_wait_mark(p) \/ process_wait_marked(p) \/ process_wait_down(p)
    \/ process_wait_status(p)
    \/ syscall_io_done(p)
    \/ process_exit_print(p) \/ process_exit_lock(p) \/ process_exit_close(p)
    \/ process_exit_record(p) \/ process_exit_wake(p) \/ process_exit_free(p)

\* What a user program asks for.
Call(p) ==
    \/ \E c \in Process : \/ process_execute(p, c)
                          \/ process_execute_fails(p, c)
                          \/ process_wait(p, c)
    \/ \E s \in Code : process_exit(p, s)
    \/ syscall_io(p)

Next == (\E p \in Process : Step(p) \/ Call(p)) \/ run_task_done

Spec == Init /\ [][Next]_vars

\* A thread inside the kernel that can go on gets the processor again
\* (AlarmClock's ReadyGetsTurn).
FairSpec == Spec /\ \A p \in Process : WF_vars(Step(p))

-------------------------------------------------------------------------------
HasThread(p) == pc[p] \notin {"none", "dead", "failed"}

UsesChild(p) == pc[p] \in {"push", "load", "test", "mark", "marking", "down",
                           "status", "reap", "drop"}

(***************************************************************************)
(* No struct process is used after it has been freed: not by its own       *)
(* thread, not by a parent that is starting it, waiting for it or dropping *)
(* it, and not on the list of children that process_wait () walks.  The    *)
(* child counts itself in only when it runs, so this rests on the parent   *)
(* waiting for the load.                                                   *)
(***************************************************************************)
NoUseAfterFree ==
    \A p \in Process : HasThread(p) =>
        /\ alloc[p] = "live"
        /\ UsesChild(p) => alloc[child[p]] = "live"
        /\ \A c \in children[p] : alloc[c] = "live"

(***************************************************************************)
(* One semaphore tells the parent of two events, and it is never mistaken: *)
(* process_execute () goes on only when the child's load () is over, and   *)
(* process_wait () only when the child is past recording its exit status.  *)
(***************************************************************************)
WakeupsMeanIt ==
    \A p \in Process :
        /\ pc[p] = "test" => pc[child[p]] \notin {"none", "start", "open", "read"}
        /\ pc[p] = "status" => pc[child[p]] \in {"free", "dead"}

(***************************************************************************)
(* A struct process whose thread has gone and whose parent has collected   *)
(* it, or never will start it, is freed: a loaded process leaves nothing   *)
(* behind once it was waited for.                                          *)
(***************************************************************************)
NothingLeft ==
    \A c \in Process :
        pc[c] = "dead" /\ (\A p \in Process : c \notin children[p] /\ ~(UsesChild(p) /\ child[p] = c))
            => alloc[c] = "freed"

AbandonedInLoad ==
    filesys_lock # NULL /\ ~HasThread(filesys_lock) /\ ~loaded[filesys_lock]

(***************************************************************************)
(* A parent's calls return.  process_execute () does: the child ups        *)
(* wait_sema on every way out of its load, and filesys_lock, which it      *)
(* needs for it, is released, unless a thread faulted inside load () and   *)
(* took it to the grave.  process_wait () for a process that has exited    *)
(* does: process_exit () has upped wait_sema and nobody consumed the unit. *)
(***************************************************************************)
ParentReturns ==
    \A p \in Process :
        /\ pc[p] = "load" ~> (pc[p] = "user" \/ AbandonedInLoad)
        /\ pc[p] = "down" /\ pc[child[p]] = "dead" ~> pc[p] = "user"

(***************************************************************************)
(* process_wait "returns its exit status" (process.c 188), the one that    *)
(* the child passed to exit (), and by then the child has printed its exit *)
(* message (process.c 277).                                                *)
(***************************************************************************)
ExitReported ==
    \A p \in Process :
        pc[p] = "reap" /\ loaded[child[p]] =>
            result[p] = code[child[p]] /\ child[p] \in printed
===============================================================================
