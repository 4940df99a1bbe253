--------------------------- MODULE ProcessTheorems ----------------------------
(***************************************************************************)
(* Proofs about Process, for any number of processes: no struct process is *)
(* used after it was freed, the two meanings of wait_sema are never        *)
(* confused, and a process that was waited for leaves nothing behind.      *)
(*                                                                         *)
(* The inductive invariant IInv says what each reference count counts and  *)
(* which units of wait_sema are still to be consumed.                      *)
(***************************************************************************)
EXTENDS Process, TLAPS

\* What thread p does with child[p], it does to a child of its own, which is
\* on its list except before it is pushed and after it was reaped.
Uses ==
    \A p \in Process : UsesChild(p) =>
        /\ child[p] \in Process
        /\ parent[child[p]] = p
        /\ (child[p] \in children[p]) <=> (pc[p] \notin {"push", "drop"})

Family == \A p \in Process : \A c \in children[p] : parent[c] = p

\* The references to c: one its parent drops when it reaps c, one its thread
\* takes in start_process () and drops in process_exit ().
ParentRef(c) ==
    /\ parent[c] \in Process
    /\ \/ c \in children[parent[c]]
       \/ pc[parent[c]] \in {"push", "drop"} /\ child[parent[c]] = c

OwnRef(c) == pc[c] \notin {"none", "start", "dead"}

One(b) == IF b THEN 1 ELSE 0

Counts ==
    \A c \in Process :
        /\ ref_count[c] = One(ParentRef(c)) + One(OwnRef(c))
        /\ (alloc[c] = "live") <=> (ParentRef(c) \/ OwnRef(c))

Unborn ==
    \A c \in Process :
        /\ alloc[c] = "none" => /\ pc[c] = "none" /\ parent[c] = NULL
                                /\ children[c] = {}
                                /\ wait_sema[c] = 0 /\ ~loaded[c]
        /\ pc[c] = "none" => alloc[c] # "live"

\* The parent of c is in process_execute (), before it goes on from c's load.
AwaitsLoad(c) ==
    /\ parent[c] \in Process
    /\ child[parent[c]] = c
    /\ pc[parent[c]] \in {"push", "load"}

BeforeLoad == {"start", "open", "read"}

Starting ==
    \A c \in Process :
        pc[c] \in BeforeLoad => AwaitsLoad(c) /\ wait_sema[c] = 0 /\ ~loaded[c]

\* Before c exits, wait_sema holds at most the unit of the load, and only as
\* long as the parent waits for it or c has failed.
Wakeups ==
    \A c \in Process : pc[c] \notin {"free", "dead"} =>
        /\ wait_sema[c] <= 1
        /\ wait_sema[c] = 1 => AwaitsLoad(c) \/ pc[c] = "failed"

\* A child that failed is on its parent's list only while process_execute ()
\* is about to find out.
Failed ==
    \A c \in Process : pc[c] = "failed" =>
        /\ ~loaded[c]
        /\ parent[c] \in Process /\ c \in children[parent[c]] =>
               /\ child[parent[c]] = c
               /\ pc[parent[c]] \in {"load", "test", "reap"}

IInv == TypeOK /\ Uses /\ Family /\ Counts /\ Unborn /\ Starting /\ Wakeups
        /\ Failed /\ WakeupsMeanIt

-------------------------------------------------------------------------------
\* process_execute: the parent allocates the child with one reference, its own.
LEMMA process_execute_OK ==
    ASSUME IInv, NEW p \in Process, NEW c \in Process, process_execute(p, c)
    PROVE  IInv'
<1> USE ProcessAssumption DEF IInv, process_execute, Goto, Unlocked, structVars
<1>1. TypeOK'
    BY DEF TypeOK, PC
<1>2. Uses'
    BY DEF TypeOK, Uses, UsesChild, Family, Unborn
<1>3. Family'
    BY DEF Family, Unborn
<1>4. Counts'
    BY DEF TypeOK, Counts, OwnRef, ParentRef, One
<1>5. Unborn'
    BY DEF TypeOK, Unborn
<1>6. Starting'
    BY DEF TypeOK, Unborn, Starting, BeforeLoad, AwaitsLoad
<1>7. Wakeups'
    BY DEF TypeOK, Unborn, AwaitsLoad, Wakeups
<1>8. Failed'
    BY DEF TypeOK, Unborn, Failed
<1>9. WakeupsMeanIt'
    BY DEF TypeOK, Uses, UsesChild, Unborn, WakeupsMeanIt
<1> QED
    BY <1>1, <1>2, <1>3, <1>4, <1>5, <1>6, <1>7, <1>8, <1>9 DEF IInv

\* process_execute_fails: a child whose thread cannot be made is freed at once.
LEMMA process_execute_fails_OK ==
    ASSUME IInv, NEW p \in Process, NEW c \in Process, process_execute_fails(p, c)
    PROVE  IInv'
<1> USE ProcessAssumption DEF IInv, process_execute_fails, Goto, Unlocked
<1>1. TypeOK'
    BY DEF TypeOK, Code
<1>2. Uses'
    BY DEF Uses, UsesChild
<1>3. Family'
    BY DEF Family
<1>4. Counts'
    BY DEF Counts, OwnRef, ParentRef, One
<1>5. Unborn'
    BY DEF Unborn
<1>6. Starting'
    BY DEF Starting, AwaitsLoad
<1>7. Wakeups'
    BY DEF AwaitsLoad, Wakeups
<1>8. Failed'
    BY DEF Failed
<1>9. WakeupsMeanIt'
    BY DEF WakeupsMeanIt
<1> QED
    BY <1>1, <1>2, <1>3, <1>4, <1>5, <1>6, <1>7, <1>8, <1>9 DEF IInv

\* process_execute_push: the parent's reference moves to its list.
LEMMA process_execute_push_OK ==
    ASSUME IInv, NEW p \in Process, process_execute_push(p)
    PROVE  IInv'
<1> USE ProcessAssumption DEF IInv, process_execute_push, Goto, Unlocked
<1>1. TypeOK'
    BY DEF TypeOK, PC, Uses, UsesChild
<1>2. Uses'
    BY DEF TypeOK, Uses, UsesChild
<1>3. Family'
    BY DEF Uses, UsesChild, Family
<1>4. Counts'
    BY DEF TypeOK, Counts, OwnRef, ParentRef, One
<1>5. Unborn'
    BY DEF Unborn
<1>6. Starting'
    BY DEF Starting, BeforeLoad, AwaitsLoad
<1>7. Wakeups'
    BY DEF AwaitsLoad, Wakeups
<1>8. Failed'
    BY DEF TypeOK, Failed
<1>9. WakeupsMeanIt'
    BY DEF WakeupsMeanIt
<1> QED
    BY <1>1, <1>2, <1>3, <1>4, <1>5, <1>6, <1>7, <1>8, <1>9 DEF IInv

\* process_execute_load: the unit the parent takes is the one of the load.
LEMMA process_execute_load_OK ==
    ASSUME IInv, NEW p \in Process, process_execute_load(p)
    PROVE  IInv'
<1> USE ProcessAssumption DEF IInv, process_execute_load, Goto, Unlocked,
        CanDown, Down
<1>1. TypeOK'
    BY DEF TypeOK, PC, Uses, UsesChild
<1>2. Uses'
    BY DEF Uses, UsesChild
<1>3. Family'
    BY DEF Family
<1>4. Counts'
    BY DEF Counts, OwnRef, ParentRef, One
<1>5. Unborn'
    BY DEF Unborn
<1>6. Starting'
    BY DEF Starting, BeforeLoad, AwaitsLoad
<1>7. Wakeups'
    BY DEF TypeOK, AwaitsLoad, Wakeups
<1>8. Failed'
    BY DEF Failed
<1>9. WakeupsMeanIt'
    BY DEF TypeOK, Uses, UsesChild, Unborn, Counts, ParentRef, One, Starting,
           BeforeLoad, WakeupsMeanIt
<1> QED
    BY <1>1, <1>2, <1>3, <1>4, <1>5, <1>6, <1>7, <1>8, <1>9 DEF IInv

\* process_execute_test: the parent decides by the child's loaded flag.
LEMMA process_execute_test_OK ==
    ASSUME IInv, NEW p \in Process, process_execute_test(p)
    PROVE  IInv'
<1> USE ProcessAssumption DEF IInv, process_execute_test, Goto, Unlocked,
        structVars
<1>1. TypeOK'
    BY DEF TypeOK, PC, Code, Uses, UsesChild
<1>2. Uses'
    BY DEF Uses, UsesChild
<1>3. Family'
    BY DEF TypeOK, Family
<1>4. Counts'
    BY DEF TypeOK, Counts, OwnRef, ParentRef, One
<1>5. Unborn'
    BY DEF Unborn
<1>6. Starting'
    BY DEF Starting, BeforeLoad, AwaitsLoad
<1>7. Wakeups'
    BY DEF AwaitsLoad, Wakeups
<1>8. Failed'
    BY DEF Failed
<1>9. WakeupsMeanIt'
    BY DEF TypeOK, WakeupsMeanIt
<1> QED
    BY <1>1, <1>2, <1>3, <1>4, <1>5, <1>6, <1>7, <1>8, <1>9 DEF IInv

\* reap: the child leaves the list; the parent still holds its reference.
LEMMA reap_OK ==
    ASSUME IInv, NEW p \in Process, reap(p)
    PROVE  IInv'
<1> USE ProcessAssumption DEF IInv, reap, Goto, Unlocked
<1>1. TypeOK'
    BY DEF TypeOK, PC
<1>2. Uses'
    BY DEF TypeOK, Uses, UsesChild
<1>3. Family'
    BY DEF TypeOK, Family
<1>4. Counts'
    BY DEF TypeOK, Uses, UsesChild, Counts, OwnRef, ParentRef, One
<1>5. Unborn'
    BY DEF Unborn
<1>6. Starting'
    BY DEF Starting, BeforeLoad, AwaitsLoad
<1>7. Wakeups'
    BY DEF AwaitsLoad, Wakeups
<1>8. Failed'
    BY DEF TypeOK, Failed
<1>9. WakeupsMeanIt'
    BY DEF Uses, WakeupsMeanIt
<1> QED
    BY <1>1, <1>2, <1>3, <1>4, <1>5, <1>6, <1>7, <1>8, <1>9 DEF IInv

\* drop: the parent gives up its reference and may free the child.
LEMMA drop_OK ==
    ASSUME IInv, NEW p \in Process, drop(p)
    PROVE  IInv'
<1> USE ProcessAssumption DEF IInv, drop, Goto, Unlocked, process_refcount_free
<1>1. TypeOK'
    BY DEF TypeOK, PC, Uses, UsesChild, Counts, ParentRef, One
<1>2. Uses'
    BY DEF TypeOK, Uses, UsesChild
<1>3. Family'
    BY DEF TypeOK, Uses, UsesChild, Family, Unborn
<1>4. Counts'
    BY DEF TypeOK, Uses, UsesChild, Unborn, Counts, OwnRef, ParentRef, One
<1>5. Unborn'
    BY DEF TypeOK, Unborn
<1>6. Starting'
    BY DEF TypeOK, Starting, BeforeLoad, AwaitsLoad
<1>7. Wakeups'
    BY DEF TypeOK, AwaitsLoad, Wakeups
<1>8. Failed'
    BY DEF TypeOK, Unborn, Failed
<1>9. WakeupsMeanIt'
    BY DEF TypeOK, Uses, Unborn, WakeupsMeanIt
<1> QED
    BY <1>1, <1>2, <1>3, <1>4, <1>5, <1>6, <1>7, <1>8, <1>9 DEF IInv

\* start_process: the child's thread takes its reference.
LEMMA start_process_OK ==
    ASSUME IInv, NEW p \in Process, start_process(p)
    PROVE  IInv'
<1> USE ProcessAssumption DEF IInv, start_process, Goto, Unlocked,
        RefsAfterStart
<1>1. TypeOK'
    BY DEF TypeOK, PC
<1>2. Uses'
    BY DEF Uses, UsesChild, Unborn
<1>3. Family'
    BY DEF TypeOK, Family, Unborn
<1>4. Counts'
    BY DEF TypeOK, Uses, UsesChild, Unborn, Counts, OwnRef, ParentRef, One,
           Starting, BeforeLoad, AwaitsLoad
<1>5. Unborn'
    BY DEF TypeOK, Unborn
<1>6. Starting'
    BY DEF TypeOK, Unborn, Starting, BeforeLoad, AwaitsLoad
<1>7. Wakeups'
    BY DEF TypeOK, Uses, Unborn, AwaitsLoad, Wakeups
<1>8. Failed'
    BY DEF TypeOK, Uses, Unborn, Failed
<1>9. WakeupsMeanIt'
    BY DEF TypeOK, Uses, UsesChild, Unborn, WakeupsMeanIt
<1> QED
    BY <1>1, <1>2, <1>3, <1>4, <1>5, <1>6, <1>7, <1>8, <1>9 DEF IInv

\* load_open: nothing that is counted changes.
LEMMA load_open_OK ==
    ASSUME IInv, NEW p \in Process, load_open(p)
    PROVE  IInv'
<1> USE ProcessAssumption DEF IInv, load_open, Goto, Unlocked, structVars
<1>1. TypeOK'
    BY DEF TypeOK, PC
<1>2. Uses'
    BY DEF Uses, UsesChild, Unborn
<1>3. Family'
    BY DEF TypeOK, Family, Unborn
<1>4. Counts'
    BY DEF TypeOK, Uses, UsesChild, Unborn, Counts, OwnRef, ParentRef, One
<1>5. Unborn'
    BY DEF TypeOK, Uses, Unborn
<1>6. Starting'
    BY DEF TypeOK, Uses, Unborn, Starting, BeforeLoad, AwaitsLoad
<1>7. Wakeups'
    BY DEF TypeOK, Uses, UsesChild, Unborn, AwaitsLoad, Wakeups
<1>8. Failed'
    BY DEF TypeOK, Uses, UsesChild, Unborn, Failed
<1>9. WakeupsMeanIt'
    BY DEF TypeOK, Uses, UsesChild, Family, Unborn, WakeupsMeanIt
<1> QED
    BY <1>1, <1>2, <1>3, <1>4, <1>5, <1>6, <1>7, <1>8, <1>9 DEF IInv

\* load_no_pagedir: the child tells the parent of the failure.
LEMMA load_no_pagedir_OK ==
    ASSUME IInv, NEW p \in Process, load_no_pagedir(p)
    PROVE  IInv'
<1> USE ProcessAssumption DEF IInv, load_no_pagedir, Goto, Unlocked, Loaded
<1>1. TypeOK'
    BY DEF TypeOK, PC, Uses, UsesChild
<1>2. Uses'
    BY DEF Uses, UsesChild, Unborn
<1>3. Family'
    BY DEF TypeOK, Uses, UsesChild, Family, Unborn
<1>4. Counts'
    BY DEF TypeOK, Uses, UsesChild, Family, Unborn, Counts, OwnRef, ParentRef,
           One
<1>5. Unborn'
    BY DEF TypeOK, Uses, UsesChild, Family, Unborn
<1>6. Starting'
    BY DEF TypeOK, Uses, UsesChild, Family, Unborn, Starting, BeforeLoad,
           AwaitsLoad
<1>7. Wakeups'
    BY DEF TypeOK, Uses, UsesChild, Family, Unborn, Starting, BeforeLoad,
           AwaitsLoad, Wakeups
<1>8. Failed'
    BY DEF TypeOK, Uses, UsesChild, Family, Unborn, Starting, BeforeLoad,
           AwaitsLoad, Failed
<1>9. WakeupsMeanIt'
    BY DEF TypeOK, Uses, UsesChild, Family, Unborn, WakeupsMeanIt
<1> QED
    BY <1>1, <1>2, <1>3, <1>4, <1>5, <1>6, <1>7, <1>8, <1>9 DEF IInv

\* load: the child tells the parent how the load went.
LEMMA load_OK ==
    ASSUME IInv, NEW p \in Process, load(p)
    PROVE  IInv'
<1> USE ProcessAssumption DEF IInv, load, Goto, Unlocked, Loaded
<1>1. TypeOK'
    BY DEF TypeOK, PC, Uses, UsesChild
<1>2. Uses'
    BY DEF TypeOK, Uses, UsesChild, Family, Unborn
<1>3. Family'
    BY DEF TypeOK, Uses, UsesChild, Family, Unborn
<1>4. Counts'
    BY DEF TypeOK, Uses, UsesChild, Family, Unborn, Counts, OwnRef, ParentRef,
           One
<1>5. Unborn'
    BY DEF TypeOK, Uses, UsesChild, Family, Unborn
<1>6. Starting'
    BY DEF TypeOK, Uses, UsesChild, Family, Unborn, Starting, BeforeLoad,
           AwaitsLoad
<1>7. Wakeups'
    BY DEF TypeOK, Uses, UsesChild, Family, Unborn, Starting, BeforeLoad,
           AwaitsLoad, Wakeups
<1>8. Failed'
    BY DEF TypeOK, Uses, UsesChild, Family, Unborn, Starting, BeforeLoad,
           AwaitsLoad, Failed
<1>9. WakeupsMeanIt'
    BY DEF TypeOK, Uses, UsesChild, Family, Unborn, WakeupsMeanIt
<1> QED
    BY <1>1, <1>2, <1>3, <1>4, <1>5, <1>6, <1>7, <1>8, <1>9 DEF IInv

\* load_faults: a fault during the load ends the child.
LEMMA load_faults_OK ==
    ASSUME IInv, NEW p \in Process, load_faults(p)
    PROVE  IInv'
<1> USE ProcessAssumption DEF IInv, load_faults, Goto, Unlocked, structVars
<1>1. TypeOK'
    BY DEF TypeOK, PC, Code, Uses, UsesChild
<1>2. Uses'
    BY DEF TypeOK, Uses, UsesChild, Family, Unborn
<1>3. Family'
    BY DEF TypeOK, Uses, UsesChild, Family, Unborn
<1>4. Counts'
    BY DEF TypeOK, Uses, UsesChild, Family, Unborn, Counts, OwnRef, ParentRef,
           One
<1>5. Unborn'
    BY DEF TypeOK, Uses, UsesChild, Family, Unborn
<1>6. Starting'
    BY DEF TypeOK, Uses, UsesChild, Family, Unborn, Starting, BeforeLoad,
           AwaitsLoad
<1>7. Wakeups'
    BY DEF TypeOK, Uses, UsesChild, Family, Unborn, AwaitsLoad, Wakeups
<1>8. Failed'
    BY DEF TypeOK, Uses, UsesChild, Family, Unborn, Failed
<1>9. WakeupsMeanIt'
    BY DEF TypeOK, Uses, UsesChild, Family, Unborn, Failed, WakeupsMeanIt
<1> QED
    BY <1>1, <1>2, <1>3, <1>4, <1>5, <1>6, <1>7, <1>8, <1>9 DEF IInv

\* process_wait: the child waited for is on the caller's list.
LEMMA process_wait_OK ==
    ASSUME IInv, NEW p \in Process, NEW c \in Process, process_wait(p, c)
    PROVE  IInv'
<1> USE ProcessAssumption DEF IInv, process_wait, Goto, Unlocked, structVars
<1>1. TypeOK'
    BY DEF TypeOK, PC, Code, Uses, UsesChild, Counts, OwnRef, ParentRef, One
<1>2. Uses'
    BY DEF TypeOK, Uses, UsesChild, Family, Unborn, Counts, OwnRef, One
<1>3. Family'
    BY DEF TypeOK, Uses, UsesChild, Family, Unborn
<1>4. Counts'
    BY DEF TypeOK, Uses, UsesChild, Family, Unborn, Counts, OwnRef, ParentRef,
           One
<1>5. Unborn'
    BY DEF TypeOK, Uses, UsesChild, Family, Unborn
<1>6. Starting'
    BY DEF TypeOK, Uses, UsesChild, Family, Unborn, Starting, BeforeLoad,
           AwaitsLoad
<1>7. Wakeups'
    BY DEF TypeOK, Uses, UsesChild, Family, Unborn, AwaitsLoad, Wakeups, Failed
<1>8. Failed'
    BY DEF TypeOK, Uses, UsesChild, Family, Unborn, Failed
<1>9. WakeupsMeanIt'
    BY DEF TypeOK, Uses, UsesChild, Family, Unborn, AwaitsLoad, Wakeups,
           Failed, WakeupsMeanIt
<1> QED
    BY <1>1, <1>2, <1>3, <1>4, <1>5, <1>6, <1>7, <1>8, <1>9 DEF IInv

\* process_wait_mark: the child is marked as waited for.
LEMMA process_wait_mark_OK ==
    ASSUME IInv, NEW p \in Process, process_wait_mark(p)
    PROVE  IInv'
<1> USE ProcessAssumption DEF IInv, process_wait_mark, Goto, Unlocked
<1>1. TypeOK'
    BY DEF TypeOK, PC, Uses, UsesChild
<1>2. Uses'
    BY DEF TypeOK, Uses, UsesChild, Family, Unborn, Counts, One
<1>3. Family'
    BY DEF TypeOK, Uses, UsesChild, Family, Unborn
<1>4. Counts'
    BY DEF TypeOK, Uses, UsesChild, Family, Unborn, Counts, OwnRef, ParentRef,
           One
<1>5. Unborn'
    BY DEF TypeOK, Uses, UsesChild, Family, Unborn
<1>6. Starting'
    BY DEF TypeOK, Uses, UsesChild, Family, Unborn, Starting, BeforeLoad,
           AwaitsLoad
<1>7. Wakeups'
    BY DEF TypeOK, Uses, UsesChild, Family, Unborn, AwaitsLoad, Wakeups, Failed
<1>8. Failed'
    BY DEF TypeOK, Uses, UsesChild, Family, Unborn, Failed
<1>9. WakeupsMeanIt'
    BY DEF TypeOK, Uses, UsesChild, Family, Unborn, AwaitsLoad, Wakeups,
           Failed, WakeupsMeanIt
<1> QED
    BY <1>1, <1>2, <1>3, <1>4, <1>5, <1>6, <1>7, <1>8, <1>9 DEF IInv

\* process_wait_marked: a second wait for the child returns.
LEMMA process_wait_marked_OK ==
    ASSUME IInv, NEW p \in Process, process_wait_marked(p)
    PROVE  IInv'
<1> USE ProcessAssumption DEF IInv, process_wait_marked, Goto, Unlocked
<1>1. TypeOK'
    BY DEF TypeOK, PC, Code, Uses, UsesChild, Counts, OwnRef, ParentRef, One
<1>2. Uses'
    BY DEF TypeOK, Uses, UsesChild, Family, Unborn, Counts, OwnRef, ParentRef,
           One
<1>3. Family'
    BY DEF TypeOK, Uses, UsesChild, Family, Unborn
<1>4. Counts'
    BY DEF TypeOK, Uses, UsesChild, Family, Unborn, Counts, OwnRef, ParentRef,
           One
<1>5. Unborn'
    BY DEF TypeOK, Uses, UsesChild, Family, Unborn, Counts, OwnRef, ParentRef,
           One
<1>6. Starting'
    BY DEF TypeOK, Uses, UsesChild, Family, Unborn, Starting, BeforeLoad,
           AwaitsLoad
<1>7. Wakeups'
    BY DEF TypeOK, Uses, UsesChild, Family, Unborn, AwaitsLoad, Wakeups, Failed
<1>8. Failed'
    BY DEF TypeOK, Uses, UsesChild, Family, Unborn, Failed
<1>9. WakeupsMeanIt'
    BY DEF TypeOK, Uses, UsesChild, Family, Unborn, AwaitsLoad, Wakeups,
           Failed, WakeupsMeanIt
<1> QED
    BY <1>1, <1>2, <1>3, <1>4, <1>5, <1>6, <1>7, <1>8, <1>9 DEF IInv

\* process_wait_down: the unit the parent takes is the one of the exit.
LEMMA process_wait_down_OK ==
    ASSUME IInv, NEW p \in Process, process_wait_down(p)
    PROVE  IInv'
<1> USE ProcessAssumption DEF IInv, process_wait_down, Goto, Unlocked, CanDown,
        Down
<1>1. TypeOK'
    BY DEF TypeOK, PC, Uses, UsesChild, Counts, OwnRef, ParentRef, One
<1>2. Uses'
    BY DEF TypeOK, Uses, UsesChild, Family, Unborn, Counts, OwnRef, ParentRef,
           One
<1>3. Family'
    BY DEF TypeOK, Uses, UsesChild, Family, Unborn
<1>4. Counts'
    BY DEF TypeOK, Uses, UsesChild, Family, Unborn, Counts, OwnRef, ParentRef,
           One
<1>5. Unborn'
    BY DEF TypeOK, Uses, UsesChild, Family, Unborn, Counts, OwnRef, One
<1>6. Starting'
    BY DEF TypeOK, Uses, UsesChild, Family, Unborn, Starting, BeforeLoad,
           AwaitsLoad
<1>7. Wakeups'
    BY DEF TypeOK, Uses, UsesChild, Family, Unborn, AwaitsLoad, Wakeups, Failed
<1>8. Failed'
    BY DEF TypeOK, Uses, UsesChild, Family, Unborn, Failed
<1>9. WakeupsMeanIt'
    BY DEF TypeOK, Uses, UsesChild, Family, Unborn, AwaitsLoad, Wakeups,
           Failed, WakeupsMeanIt
<1> QED
    BY <1>1, <1>2, <1>3, <1>4, <1>5, <1>6, <1>7, <1>8, <1>9 DEF IInv

\* process_wait_status: the child still has the parent's reference.
LEMMA process_wait_status_OK ==
    ASSUME IInv, NEW p \in Process, process_wait_status(p)
    PROVE  IInv'
<1> USE ProcessAssumption DEF IInv, process_wait_status, Goto, Unlocked,
        structVars
<1>1. TypeOK'
    BY DEF TypeOK, PC, Uses, UsesChild, Counts, OwnRef, ParentRef, One
<1>2. Uses'
    BY DEF TypeOK, Uses, UsesChild, Family, Unborn, Counts, OwnRef, ParentRef,
           One
<1>3. Family'
    BY DEF TypeOK, Uses, UsesChild, Family, Unborn
<1>4. Counts'
    BY DEF TypeOK, Uses, UsesChild, Family, Unborn, Counts, OwnRef, ParentRef,
           One
<1>5. Unborn'
    BY DEF TypeOK, Uses, UsesChild, Family, Unborn, Counts, One
<1>6. Starting'
    BY DEF TypeOK, Uses, UsesChild, Family, Unborn, Starting, BeforeLoad,
           AwaitsLoad
<1>7. Wakeups'
    BY DEF TypeOK, Uses, UsesChild, Family, Unborn, AwaitsLoad, Wakeups, Failed
<1>8. Failed'
    BY DEF TypeOK, Uses, UsesChild, Family, Unborn, Failed
<1>9. WakeupsMeanIt'
    BY DEF TypeOK, Uses, UsesChild, Family, Unborn, AwaitsLoad, Wakeups,
           Failed, WakeupsMeanIt
<1> QED
    BY <1>1, <1>2, <1>3, <1>4, <1>5, <1>6, <1>7, <1>8, <1>9 DEF IInv

\* syscall_io: nothing that is counted changes.
LEMMA syscall_io_OK ==
    ASSUME IInv, NEW p \in Process, syscall_io(p)
    PROVE  IInv'
<1> USE ProcessAssumption DEF IInv, syscall_io, Goto, Unlocked, structVars
<1>1. TypeOK'
    BY DEF TypeOK, PC, Uses, UsesChild, Counts, OwnRef, ParentRef, One
<1>2. Uses'
    BY DEF TypeOK, Uses, UsesChild, Family, Unborn, Counts, OwnRef, ParentRef,
           One
<1>3. Family'
    BY DEF TypeOK, Uses, UsesChild, Family, Unborn
<1>4. Counts'
    BY DEF TypeOK, Uses, UsesChild, Family, Unborn, Counts, OwnRef, ParentRef,
           One
<1>5. Unborn'
    BY DEF TypeOK, Uses, UsesChild, Family, Unborn, Counts, OwnRef, ParentRef,
           One
<1>6. Starting'
    BY DEF TypeOK, Uses, UsesChild, Family, Unborn, Starting, BeforeLoad,
           AwaitsLoad
<1>7. Wakeups'
    BY DEF TypeOK, Uses, UsesChild, Family, Unborn, AwaitsLoad, Wakeups, Failed
<1>8. Failed'
    BY DEF TypeOK, Uses, UsesChild, Family, Unborn, Failed
<1>9. WakeupsMeanIt'
    BY DEF TypeOK, Uses, UsesChild, Family, Unborn, AwaitsLoad, Wakeups,
           Failed, WakeupsMeanIt
<1> QED
    BY <1>1, <1>2, <1>3, <1>4, <1>5, <1>6, <1>7, <1>8, <1>9 DEF IInv

\* syscall_io_done: nothing that is counted changes.
LEMMA syscall_io_done_OK ==
    ASSUME IInv, NEW p \in Process, syscall_io_done(p)
    PROVE  IInv'
<1> USE ProcessAssumption DEF IInv, syscall_io_done, Goto, Unlocked, structVars
<1>1. TypeOK'
    BY DEF TypeOK, PC, Uses, UsesChild, Counts, OwnRef, ParentRef, One
<1>2. Uses'
    BY DEF TypeOK, Uses, UsesChild, Family, Unborn, Counts, OwnRef, ParentRef,
           One
<1>3. Family'
    BY DEF TypeOK, Uses, UsesChild, Family, Unborn
<1>4. Counts'
    BY DEF TypeOK, Uses, UsesChild, Family, Unborn, Counts, OwnRef, ParentRef,
           One
<1>5. Unborn'
    BY DEF TypeOK, Uses, UsesChild, Family, Unborn, Counts, ParentRef, One
<1>6. Starting'
    BY DEF TypeOK, Uses, UsesChild, Family, Unborn, Starting, BeforeLoad,
           AwaitsLoad
<1>7. Wakeups'
    BY DEF TypeOK, Uses, UsesChild, Family, Unborn, AwaitsLoad, Wakeups, Failed
<1>8. Failed'
    BY DEF TypeOK, Uses, UsesChild, Family, Unborn, Failed
<1>9. WakeupsMeanIt'
    BY DEF TypeOK, Uses, UsesChild, Family, Unborn, AwaitsLoad, Wakeups,
           Failed, WakeupsMeanIt
<1> QED
    BY <1>1, <1>2, <1>3, <1>4, <1>5, <1>6, <1>7, <1>8, <1>9 DEF IInv

\* process_exit: the thread keeps its reference while it exits.
LEMMA process_exit_OK ==
    ASSUME IInv, NEW p \in Process, NEW s \in Code, process_exit(p, s)
    PROVE  IInv'
<1> USE ProcessAssumption DEF IInv, process_exit, Goto, Unlocked, structVars
<1>1. TypeOK'
    BY DEF TypeOK, PC, Uses, UsesChild, Counts, OwnRef, ParentRef, One
<1>2. Uses'
    BY DEF TypeOK, Uses, UsesChild, Family, Unborn, Counts, OwnRef, ParentRef,
           One
<1>3. Family'
    BY DEF TypeOK, Uses, UsesChild, Family, Unborn
<1>4. Counts'
    BY DEF TypeOK, Uses, UsesChild, Family, Unborn, Counts, OwnRef, ParentRef,
           One
<1>5. Unborn'
    BY DEF TypeOK, Uses, UsesChild, Family, Unborn, Counts, OwnRef, ParentRef,
           One
<1>6. Starting'
    BY DEF TypeOK, Uses, UsesChild, Family, Unborn, Starting, BeforeLoad,
           AwaitsLoad
<1>7. Wakeups'
    BY DEF TypeOK, Uses, UsesChild, Family, Unborn, AwaitsLoad, Wakeups, Failed
<1>8. Failed'
    BY DEF TypeOK, Uses, UsesChild, Family, Unborn, Failed
<1>9. WakeupsMeanIt'
    BY DEF TypeOK, Uses, UsesChild, Family, Unborn, AwaitsLoad, Wakeups,
           Failed, WakeupsMeanIt
<1> QED
    BY <1>1, <1>2, <1>3, <1>4, <1>5, <1>6, <1>7, <1>8, <1>9 DEF IInv

\* process_exit_print: the thread keeps its reference.
LEMMA process_exit_print_OK ==
    ASSUME IInv, NEW p \in Process, process_exit_print(p)
    PROVE  IInv'
<1> USE ProcessAssumption DEF IInv, process_exit_print, Goto, Unlocked,
        structVars
<1>1. TypeOK'
    BY DEF TypeOK, PC, Uses, UsesChild, Counts, OwnRef, ParentRef, One
<1>2. Uses'
    BY DEF TypeOK, Uses, UsesChild, Family, Unborn, Counts, OwnRef, ParentRef,
           One
<1>3. Family'
    BY DEF TypeOK, Uses, UsesChild, Family, Unborn
<1>4. Counts'
    BY DEF TypeOK, Uses, UsesChild, Family, Unborn, Counts, OwnRef, ParentRef,
           One
<1>5. Unborn'
    BY DEF TypeOK, Uses, UsesChild, Family, Unborn, Counts, OwnRef, ParentRef,
           One
<1>6. Starting'
    BY DEF TypeOK, Uses, UsesChild, Family, Unborn, Starting, BeforeLoad,
           AwaitsLoad
<1>7. Wakeups'
    BY DEF TypeOK, Uses, UsesChild, Family, Unborn, AwaitsLoad, Wakeups, Failed
<1>8. Failed'
    BY DEF TypeOK, Uses, UsesChild, Family, Unborn, Failed
<1>9. WakeupsMeanIt'
    BY DEF TypeOK, Uses, UsesChild, Family, Unborn, AwaitsLoad, Wakeups,
           Failed, WakeupsMeanIt
<1> QED
    BY <1>1, <1>2, <1>3, <1>4, <1>5, <1>6, <1>7, <1>8, <1>9 DEF IInv

\* process_exit_lock: the thread keeps its reference.
LEMMA process_exit_lock_OK ==
    ASSUME IInv, NEW p \in Process, process_exit_lock(p)
    PROVE  IInv'
<1> USE ProcessAssumption DEF IInv, process_exit_lock, Goto, Unlocked,
        structVars
<1>1. TypeOK'
    BY DEF TypeOK, PC, Uses, UsesChild, Counts, OwnRef, ParentRef, One
<1>2. Uses'
    BY DEF TypeOK, Uses, UsesChild, Family, Unborn, Counts, OwnRef, ParentRef,
           One
<1>3. Family'
    BY DEF TypeOK, Uses, UsesChild, Family, Unborn
<1>4. Counts'
    BY DEF TypeOK, Uses, UsesChild, Family, Unborn, Counts, OwnRef, ParentRef,
           One
<1>5. Unborn'
    BY DEF TypeOK, Uses, UsesChild, Family, Unborn, Counts, OwnRef, ParentRef,
           One
<1>6. Starting'
    BY DEF TypeOK, Uses, UsesChild, Family, Unborn, Starting, BeforeLoad,
           AwaitsLoad
<1>7. Wakeups'
    BY DEF TypeOK, Uses, UsesChild, Family, Unborn, AwaitsLoad, Wakeups, Failed
<1>8. Failed'
    BY DEF TypeOK, Uses, UsesChild, Family, Unborn, Failed
<1>9. WakeupsMeanIt'
    BY DEF TypeOK, Uses, UsesChild, Family, Unborn, AwaitsLoad, Wakeups,
           Failed, WakeupsMeanIt
<1> QED
    BY <1>1, <1>2, <1>3, <1>4, <1>5, <1>6, <1>7, <1>8, <1>9 DEF IInv

\* process_exit_close: the thread keeps its reference.
LEMMA process_exit_close_OK ==
    ASSUME IInv, NEW p \in Process, process_exit_close(p)
    PROVE  IInv'
<1> USE ProcessAssumption DEF IInv, process_exit_close, Goto, Unlocked,
        structVars
<1>1. TypeOK'
    BY DEF TypeOK, PC, Uses, UsesChild, Counts, OwnRef, ParentRef, One
<1>2. Uses'
    BY DEF TypeOK, Uses, UsesChild, Family, Unborn, Counts, OwnRef, ParentRef,
           One
<1>3. Family'
    BY DEF TypeOK, Uses, UsesChild, Family, Unborn
<1>4. Counts'
    BY DEF TypeOK, Uses, UsesChild, Family, Unborn, Counts, OwnRef, ParentRef,
           One
<1>5. Unborn'
    BY DEF TypeOK, Uses, UsesChild, Family, Unborn, Counts, OwnRef, ParentRef,
           One
<1>6. Starting'
    BY DEF TypeOK, Uses, UsesChild, Family, Unborn, Starting, BeforeLoad,
           AwaitsLoad
<1>7. Wakeups'
    BY DEF TypeOK, Uses, UsesChild, Family, Unborn, AwaitsLoad, Wakeups, Failed
<1>8. Failed'
    BY DEF TypeOK, Uses, UsesChild, Family, Unborn, Failed
<1>9. WakeupsMeanIt'
    BY DEF TypeOK, Uses, UsesChild, Family, Unborn, AwaitsLoad, Wakeups,
           Failed, WakeupsMeanIt
<1> QED
    BY <1>1, <1>2, <1>3, <1>4, <1>5, <1>6, <1>7, <1>8, <1>9 DEF IInv

\* process_exit_record: the status is written to a struct the thread holds.
LEMMA process_exit_record_OK ==
    ASSUME IInv, NEW p \in Process, process_exit_record(p)
    PROVE  IInv'
<1> USE ProcessAssumption DEF IInv, process_exit_record, Goto, Unlocked
<1>1. TypeOK'
    BY DEF TypeOK, PC, Code, Uses, UsesChild, Counts, OwnRef, ParentRef, One
<1>2. Uses'
    BY DEF TypeOK, Uses, UsesChild, Family, Unborn, Counts, OwnRef, ParentRef,
           One
<1>3. Family'
    BY DEF TypeOK, Uses, UsesChild, Family, Unborn
<1>4. Counts'
    BY DEF TypeOK, Uses, UsesChild, Family, Unborn, Counts, OwnRef, ParentRef,
           One
<1>5. Unborn'
    BY DEF TypeOK, Uses, UsesChild, Family, Unborn, Counts, OwnRef, ParentRef,
           One
<1>6. Starting'
    BY DEF TypeOK, Uses, UsesChild, Family, Unborn, Starting, BeforeLoad,
           AwaitsLoad
<1>7. Wakeups'
    BY DEF TypeOK, Uses, UsesChild, Family, Unborn, AwaitsLoad, Wakeups, Failed
<1>8. Failed'
    BY DEF TypeOK, Uses, UsesChild, Family, Unborn, Failed
<1>9. WakeupsMeanIt'
    BY DEF TypeOK, Uses, UsesChild, Family, Unborn, AwaitsLoad, Wakeups,
           Failed, WakeupsMeanIt
<1> QED
    BY <1>1, <1>2, <1>3, <1>4, <1>5, <1>6, <1>7, <1>8, <1>9 DEF IInv

\* process_exit_wake: the unit of the exit is added.
LEMMA process_exit_wake_OK ==
    ASSUME IInv, NEW p \in Process, process_exit_wake(p)
    PROVE  IInv'
<1> USE ProcessAssumption DEF IInv, process_exit_wake, Goto, Unlocked
<1>1. TypeOK'
    BY DEF TypeOK, PC, Code, Uses, UsesChild, Counts, OwnRef, ParentRef, One
<1>2. Uses'
    BY DEF TypeOK, Uses, UsesChild, Family, Unborn, Counts, OwnRef, ParentRef,
           One
<1>3. Family'
    BY DEF TypeOK, Uses, UsesChild, Family, Unborn
<1>4. Counts'
    BY DEF TypeOK, Uses, UsesChild, Family, Unborn, Counts, OwnRef, ParentRef,
           One
<1>5. Unborn'
    BY DEF TypeOK, Uses, UsesChild, Family, Unborn, Counts, OwnRef, ParentRef,
           One
<1>6. Starting'
    BY DEF TypeOK, Uses, UsesChild, Family, Unborn, Starting, BeforeLoad,
           AwaitsLoad
<1>7. Wakeups'
    BY DEF TypeOK, Uses, UsesChild, Family, Unborn, AwaitsLoad, Wakeups, Failed
<1>8. Failed'
    BY DEF TypeOK, Uses, UsesChild, Family, Unborn, Failed
<1>9. WakeupsMeanIt'
    BY DEF TypeOK, Uses, UsesChild, Family, Unborn, AwaitsLoad, Wakeups,
           Failed, WakeupsMeanIt
<1> QED
    BY <1>1, <1>2, <1>3, <1>4, <1>5, <1>6, <1>7, <1>8, <1>9 DEF IInv

\* process_exit_free: the thread gives up its reference and may free its struct.
LEMMA process_exit_free_OK ==
    ASSUME IInv, NEW p \in Process, process_exit_free(p)
    PROVE  IInv'
<1> USE ProcessAssumption DEF IInv, process_exit_free, Goto, Unlocked,
        process_refcount_free
<1>1. TypeOK'
    BY DEF TypeOK, PC, Code, Uses, UsesChild, Counts, OwnRef, ParentRef, One
<1>2. Uses'
    BY DEF TypeOK, Uses, UsesChild, Family, Unborn, Counts, OwnRef, ParentRef,
           One
<1>3. Family'
    BY DEF TypeOK, Uses, UsesChild, Family, Unborn
<1>4. Counts'
    BY DEF TypeOK, Uses, UsesChild, Family, Unborn, Counts, OwnRef, ParentRef,
           One
<1>5. Unborn'
    BY DEF TypeOK, Uses, UsesChild, Family, Unborn, Counts, OwnRef, ParentRef,
           One
<1>6. Starting'
    BY DEF TypeOK, Uses, UsesChild, Family, Unborn, Starting, BeforeLoad,
           AwaitsLoad
<1>7. Wakeups'
    BY DEF TypeOK, Uses, UsesChild, Family, Unborn, AwaitsLoad, Wakeups, Failed
<1>8. Failed'
    BY DEF TypeOK, Uses, UsesChild, Family, Unborn, Failed
<1>9. WakeupsMeanIt'
    BY DEF TypeOK, Uses, UsesChild, Family, Unborn, AwaitsLoad, Wakeups,
           Failed, WakeupsMeanIt
<1> QED
    BY <1>1, <1>2, <1>3, <1>4, <1>5, <1>6, <1>7, <1>8, <1>9 DEF IInv

\* run_task_done: the initial process is freed by run_task ().
LEMMA run_task_done_OK ==
    ASSUME IInv, run_task_done
    PROVE  IInv'
<1> USE ProcessAssumption DEF IInv, run_task_done, Goto, Unlocked,
        process_refcount_free
<1>1. TypeOK'
    BY DEF TypeOK, PC, Uses, UsesChild, Counts, OwnRef, ParentRef, One
<1>2. Uses'
    BY DEF TypeOK, Uses, UsesChild, Family, Unborn, Counts, OwnRef, ParentRef,
           One
<1>3. Family'
    BY DEF TypeOK, Uses, UsesChild, Family, Unborn
<1>4. Counts'
    BY DEF TypeOK, Uses, UsesChild, Family, Unborn, Counts, OwnRef, ParentRef,
           One
<1>5. Unborn'
    BY DEF TypeOK, Uses, UsesChild, Family, Unborn, Counts, OwnRef, One
<1>6. Starting'
    BY DEF TypeOK, Uses, UsesChild, Family, Unborn, Starting, BeforeLoad,
           AwaitsLoad
<1>7. Wakeups'
    BY DEF TypeOK, Uses, UsesChild, Family, Unborn, AwaitsLoad, Wakeups, Failed
<1>8. Failed'
    BY DEF TypeOK, Uses, UsesChild, Family, Unborn, Failed
<1>9. WakeupsMeanIt'
    BY DEF TypeOK, Uses, UsesChild, Family, Unborn, AwaitsLoad, Wakeups,
           Failed, WakeupsMeanIt
<1> QED
    BY <1>1, <1>2, <1>3, <1>4, <1>5, <1>6, <1>7, <1>8, <1>9 DEF IInv

-------------------------------------------------------------------------------
\* The initial state satisfies the inductive invariant.
LEMMA InitOK == Init => IInv
<1> SUFFICES ASSUME Init
             PROVE  IInv
    OBVIOUS
<1> USE ProcessAssumption DEF Init
<1>1. TypeOK
    BY DEF TypeOK, PC, Code
<1>2. Uses /\ Family
    BY DEF Uses, UsesChild, Family
<1>3. Counts /\ Unborn
    BY DEF Counts, Unborn, ParentRef, OwnRef, One
<1>4. Starting /\ Wakeups /\ Failed /\ WakeupsMeanIt
    BY DEF Starting, BeforeLoad, Wakeups, Failed, WakeupsMeanIt
<1> QED
    BY <1>1, <1>2, <1>3, <1>4 DEF IInv

\* So does every state a step of a thread inside the kernel leads to,
LEMMA StepOK ==
    ASSUME IInv, NEW p \in Process, Step(p)
    PROVE  IInv'
<1>1. CASE \/ process_execute_push(p) \/ process_execute_load(p)
           \/ process_execute_test(p) \/ reap(p) \/ drop(p)
    BY <1>1, process_execute_push_OK, process_execute_load_OK,
       process_execute_test_OK, reap_OK, drop_OK
<1>2. CASE \/ start_process(p) \/ load_open(p) \/ load_no_pagedir(p) \/ load(p)
           \/ load_faults(p)
    BY <1>2, start_process_OK, load_open_OK, load_no_pagedir_OK, load_OK,
       load_faults_OK
<1>3. CASE \/ process_wait_mark(p) \/ process_wait_marked(p)
           \/ process_wait_down(p) \/ process_wait_status(p) \/ syscall_io_done(p)
    BY <1>3, process_wait_mark_OK, process_wait_marked_OK, process_wait_down_OK,
       process_wait_status_OK, syscall_io_done_OK
<1>4. CASE \/ process_exit_print(p) \/ process_exit_lock(p)
           \/ process_exit_close(p) \/ process_exit_record(p)
           \/ process_exit_wake(p) \/ process_exit_free(p)
    BY <1>4, process_exit_print_OK, process_exit_lock_OK, process_exit_close_OK,
       process_exit_record_OK, process_exit_wake_OK, process_exit_free_OK
<1> QED
    BY <1>1, <1>2, <1>3, <1>4 DEF Step

\* every state a system call of a running program leads to,
LEMMA CallOK ==
    ASSUME IInv, NEW p \in Process, Call(p)
    PROVE  IInv'
<1>1. ASSUME NEW c \in Process,
             process_execute(p, c) \/ process_execute_fails(p, c) \/ process_wait(p, c)
      PROVE  IInv'
    BY <1>1, process_execute_OK, process_execute_fails_OK, process_wait_OK
<1>2. ASSUME NEW s \in Code, process_exit(p, s)
      PROVE  IInv'
    BY <1>2, process_exit_OK
<1>3. CASE syscall_io(p)
    BY <1>3, syscall_io_OK
<1> QED
    BY <1>1, <1>2, <1>3 DEF Call

\* and hence every step of the system.
LEMMA NextOK == IInv /\ [Next]_vars => IInv'
<1> SUFFICES ASSUME IInv, [Next]_vars
             PROVE  IInv'
    OBVIOUS
<1>1. CASE UNCHANGED vars
    <2> USE <1>1 DEF vars, structVars, IInv
    <2>1. TypeOK'
        BY Zenon DEF TypeOK
    <2>2. Uses' /\ Family' /\ Unborn'
        BY Zenon DEF Uses, UsesChild, Family, Unborn
    <2>3. Counts'
        BY Zenon DEF Counts, ParentRef, OwnRef
    <2>4. Starting' /\ Wakeups'
        BY Zenon DEF Starting, Wakeups, AwaitsLoad
    <2>5. Failed' /\ WakeupsMeanIt'
        BY Zenon DEF Failed, WakeupsMeanIt
    <2> QED
        BY <2>1, <2>2, <2>3, <2>4, <2>5
<1>2. CASE Next
    BY <1>2, StepOK, CallOK, run_task_done_OK DEF Next
<1> QED
    BY <1>1, <1>2

(***************************************************************************)
(* IInv holds in every state, whatever the processes and their number.     *)
(***************************************************************************)
THEOREM ProcessInvariance == Spec => []IInv
<1> QED
    BY InitOK, NextOK, PTL DEF Spec

(***************************************************************************)
(* The fields of every struct process keep their types; in particular no   *)
(* reference count and no wait_sema drops below zero (process.c's          *)
(* process_refcount_free and the sema_down calls on wait_sema).            *)
(***************************************************************************)
THEOREM ProcessTypes == Spec => []TypeOK
<1>1. IInv => TypeOK
    BY DEF IInv
<1> QED
    BY <1>1, ProcessInvariance, PTL

(***************************************************************************)
(* process_execute (), process_wait () and process_exit () touch no struct *)
(* process after process_refcount_free () has freed it.                    *)
(***************************************************************************)
THEOREM NoStructUsedAfterFree == Spec => []NoUseAfterFree
<1>1. IInv => NoUseAfterFree
    <2> SUFFICES ASSUME IInv, NEW p \in Process, HasThread(p)
                 PROVE  /\ alloc[p] = "live"
                        /\ UsesChild(p) => alloc[child[p]] = "live"
                        /\ \A c \in children[p] : alloc[c] = "live"
        BY DEF NoUseAfterFree
    <2>1. TypeOK /\ Uses /\ Family /\ Counts /\ Starting
        BY DEF IInv
    <2>2. ASSUME NEW c \in Process, ParentRef(c) \/ OwnRef(c)
          PROVE  alloc[c] = "live"
        BY <2>1, <2>2 DEF Counts
    <2>3. pc[p] = "start" => ParentRef(p)
        BY <2>1 DEF Starting, BeforeLoad, AwaitsLoad, Uses, UsesChild, ParentRef
    <2>4. alloc[p] = "live"
        BY <2>2, <2>3 DEF HasThread, OwnRef
    <2>5. UsesChild(p) => child[p] \in Process /\ ParentRef(child[p])
        BY <2>1 DEF Uses, UsesChild, ParentRef
    <2>6. \A c \in children[p] : c \in Process /\ ParentRef(c)
        BY <2>1 DEF TypeOK, Family, ParentRef
    <2> QED
        BY <2>2, <2>4, <2>5, <2>6
<1> QED
    BY <1>1, ProcessInvariance, PTL

(***************************************************************************)
(* The parent never takes the sema_up of load () for the one of            *)
(* process_exit (), or the other way round.                                *)
(***************************************************************************)
THEOREM SemaphoreMeansIt == Spec => []WakeupsMeanIt
<1>1. IInv => WakeupsMeanIt
    BY DEF IInv
<1> QED
    BY <1>1, ProcessInvariance, PTL

(***************************************************************************)
(* process_refcount_free () has freed the struct of every process that     *)
(* exited and that no parent lists or works on any more.                   *)
(***************************************************************************)
THEOREM ExitedIsFreed == Spec => []NothingLeft
<1>1. IInv => NothingLeft
    <2> SUFFICES ASSUME IInv, NEW c \in Process, pc[c] = "dead",
                        \A p \in Process : /\ c \notin children[p]
                                           /\ ~(UsesChild(p) /\ child[p] = c)
                 PROVE  alloc[c] = "freed"
        BY Zenon DEF NothingLeft
    <2>1. TypeOK /\ Counts /\ Unborn
        BY DEF IInv
    <2>2. ~ParentRef(c) /\ ~OwnRef(c)
        BY DEF ParentRef, OwnRef, UsesChild
    <2>3. alloc[c] # "live" /\ alloc[c] # "none"
        BY <2>1, <2>2 DEF Counts, Unborn
    <2> QED
        BY <2>1, <2>3 DEF TypeOK
<1> QED
    BY <1>1, ProcessInvariance, PTL
===============================================================================
