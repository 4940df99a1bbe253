----------------------------- MODULE SynchTheorems ----------------------------
(***************************************************************************)
(* Proofs about Synch, for any number of threads, locks, semaphores,       *)
(* conditions and priorities.  First come lemmas: what a donation changes; *)
(* what the steps of the semaphores do to the scheduler and to the         *)
(* waiters.  Then IInv is shown to be inductive, one lemma per group of    *)
(* its conjuncts and one step per action: types and places, mutual         *)
(* exclusion and the owners of locks, the scheduler, wake-ups, donations.  *)
(* The theorems at the end follow from it.                                 *)
(***************************************************************************)
EXTENDS Synch, ThreadsTheorems

\* Zenon proves the leaves that name no prover.
USE Zenon

\* Max picks a greatest element of a set of priorities.
LEMMA MaxPriority ==
    ASSUME NEW S, S \subseteq Priority, S # {}
    PROVE  Max(S) \in S /\ \A y \in S : y <= Max(S)
<1>1. S \subseteq Int /\ PRI_MAX \in Int /\ \A y \in S : y <= PRI_MAX
    BY SMT, PriorityAssumption DEF Priority
<1>2. PICK x \in S : \A y \in S : y <= x
    BY ZenonT(40), <1>1, GreatestInt
<1>3. \A y \in S : x >= y
    BY <1>1, <1>2
<1>4. Max(S) \in S /\ \A y \in S : Max(S) >= y
    BY <1>2, <1>3 DEF Max
<1> QED
    BY <1>1, <1>4

(***************************************************************************)
(* Donation leaves priorities in range, lowers nobody, and gives the same  *)
(* to priority and to donated_priority.                                    *)
(***************************************************************************)
LEMMA DonationOK ==
    ASSUME TypeOK, NEW p, NEW path
    PROVE  /\ PriorityAfter(p, path) \in [AllThread -> Priority]
           /\ DonatedAfter(p, path) \in [AllThread -> Priority]
           /\ MaxPriorityAfter(p, path) \in [Lock -> Priority]
           /\ \A h \in Thread :
                 /\ priority[h] <= PriorityAfter(p, path)[h]
                 /\ \/ PriorityAfter(p, path)[h] = priority[h]
                    \/ PriorityAfter(p, path)[h] <= DonatedAfter(p, path)[h]
                 /\ donated_priority[h] <= DonatedAfter(p, path)[h]
<1>1. /\ priority \in [AllThread -> Priority]
      /\ donated_priority \in [AllThread -> Priority]
      /\ max_priority \in [Lock -> Priority]
    BY DEF TypeOK, ThreadTypeOK
<1>2. ASSUME NEW h \in Thread
      PROVE  LET a == Max({priority[h]} \cup ToThread(p, path, h))
                 b == Max({donated_priority[h]} \cup ToThread(p, path, h))
             IN  /\ a \in Priority /\ b \in Priority
                 /\ priority[h] <= a /\ donated_priority[h] <= b
                 /\ a = priority[h] \/ a <= b
    <2> DEFINE T == ToThread(p, path, h)
               A == {priority[h]} \cup T
               B == {donated_priority[h]} \cup T
    <2>1. T \subseteq Priority /\ priority[h] \in Priority /\ donated_priority[h] \in Priority
        BY <1>1 DEF ToThread, AllThread
    <2> HIDE DEF T
    <2>2. A \subseteq Priority /\ A # {} /\ B \subseteq Priority /\ B # {}
        BY <2>1
    <2>3. /\ Max(A) \in A /\ \A y \in A : y <= Max(A)
          /\ Max(B) \in B /\ \A y \in B : y <= Max(B)
        BY <2>2, MaxPriority
    <2> QED
        BY <2>1, <2>2, <2>3 DEF T
<1>3. ASSUME NEW l \in Lock
      PROVE  Max({max_priority[l]} \cup ToLock(p, path, l)) \in Priority
    <2> DEFINE A == {max_priority[l]} \cup ToLock(p, path, l)
    <2>1. A \subseteq Priority /\ A # {}
        BY <1>1 DEF ToLock
    <2>2. Max(A) \in A
        BY <2>1, MaxPriority
    <2> QED
        BY <2>1, <2>2
<1>4. PriorityAfter(p, path) \in [AllThread -> Priority]
    BY ZenonT(40), <1>1, <1>2 DEF PriorityAfter, AllThread
<1>5. DonatedAfter(p, path) \in [AllThread -> Priority]
    BY ZenonT(40), <1>1, <1>2 DEF DonatedAfter, AllThread
<1>6. MaxPriorityAfter(p, path) \in [Lock -> Priority]
    BY <1>3 DEF MaxPriorityAfter
<1>7. ASSUME NEW h \in Thread
      PROVE  /\ PriorityAfter(p, path)[h] = Max({priority[h]} \cup ToThread(p, path, h))
             /\ DonatedAfter(p, path)[h] = Max({donated_priority[h]} \cup ToThread(p, path, h))
    BY ThreadAssumption DEF PriorityAfter, DonatedAfter, AllThread
<1> QED
    BY ZenonT(40), <1>2, <1>4, <1>5, <1>6, <1>7

(***************************************************************************)
(* The path of a donation, a recursive function, is what its definition    *)
(* says; from a lock without a holder it leads nowhere.                    *)
(***************************************************************************)
LEMMA PathEquation ==
    ASSUME NEW l, NEW waiting
    PROVE  DonationPath(l, waiting) =
              [i \in Depth |-> IF i = 0 THEN l ELSE NextLock(DonationPath(l, waiting)[i - 1], waiting)]
<1> DEFINE G(f, n) == f = [i \in 0..n |-> IF i = 0 THEN l ELSE NextLock(f[i - 1], waiting)]
           Bad == {n \in Nat : ~ \E f : G(f, n)}
<1>1. Bad = {}
    <2> SUFFICES ASSUME Bad # {} PROVE FALSE
        OBVIOUS
    <2>1. PICK n \in Bad : \A m \in Bad : n <= m
        BY ZenonT(40), LeastNat
    <2>2. n # 0
        <3> DEFINE f == [i \in 0..0 |-> l]
        <3>1. G(f, 0)
            BY SMT
        <3> QED
            BY ZenonT(40), <3>1, <2>1
    <2>3. n - 1 \in Nat /\ n - 1 \notin Bad
        <3>1. Bad \subseteq Nat
            OBVIOUS
        <3> HIDE DEF Bad
        <3>2. n \in Nat /\ n - 1 \in Nat /\ ~ (n <= n - 1)
            BY SMT, <3>1, <2>1, <2>2
        <3> QED
            BY <3>2, <2>1
    <2>4. PICK f : G(f, n - 1)
        BY <2>3
    <2> DEFINE g == [i \in 0..n |-> IF i = n THEN NextLock(f[n - 1], waiting) ELSE f[i]]
    <2>5. \A i \in 0..n - 1 : f[i] = IF i = 0 THEN l ELSE NextLock(f[i - 1], waiting)
        BY <2>4
    <2> HIDE DEF G
    <2>6. \A i \in 0..n : g[i] = IF i = 0 THEN l ELSE NextLock(g[i - 1], waiting)
        <3> TAKE i \in 0..n
        <3>1. CASE i = n
            <4>1. g[i] = NextLock(f[n - 1], waiting) /\ i # 0
                BY <3>1, <2>2
            <4>2. n - 1 \in 0..n /\ n - 1 # n /\ g[n - 1] = f[n - 1]
                BY SMT, <2>1, <2>3
            <4> QED
                BY <3>1, <4>1, <4>2
        <3>2. CASE i # n
            <4>1. i \in 0..n - 1 /\ g[i] = f[i]
                BY SMT, <3>2, <2>1
            <4>2. CASE i = 0
                BY <4>1, <4>2, <2>5
            <4>3. CASE i # 0
                <5>1. i - 1 \in 0..n /\ i - 1 # n /\ g[i - 1] = f[i - 1]
                    BY SMT, <4>1, <4>3, <2>1
                <5> QED
                    BY <4>1, <4>3, <5>1, <2>5
            <4> QED
                BY <4>2, <4>3
        <3> QED
            BY <3>1, <3>2
    <2>7. G(g, n)
        <3> DEFINE R(h) == [i \in 0..n |-> IF i = 0 THEN l ELSE NextLock(h[i - 1], waiting)]
        <3>1. DOMAIN g = 0..n /\ g = [i \in 0..n |-> g[i]]
            OBVIOUS
        <3> HIDE DEF g
        <3>2. g = R(g)
            BY ZenonT(40), <3>1, <2>6
        <3> QED
            BY <3>2 DEF G
    <2> QED
        BY <2>1, <2>7
<1>2. \E f : G(f, MAX_DONATION_DEPTH)
    BY <1>1, SynchAssumption
<1>3. G(CHOOSE f : G(f, MAX_DONATION_DEPTH), MAX_DONATION_DEPTH)
    BY ZenonT(40), <1>2
<1>4. DonationPath(l, waiting) = CHOOSE f : G(f, MAX_DONATION_DEPTH)
    BY DEF DonationPath, Depth
<1> QED
    BY <1>3, <1>4 DEF Depth

\* A thread that finds a lock without holder donates nothing.
LEMMA FreeLockDonatesNothing ==
    ASSUME NEW l \in Lock, NEW waiting, holder[l] = NULL, TypeOK
    PROVE  \A p : PriorityAfter(p, DonationPath(l, waiting)) = priority
<1> DEFINE path == DonationPath(l, waiting)
<1>1. /\ path = [i \in Depth |-> IF i = 0 THEN l ELSE NextLock(path[i - 1], waiting)]
      /\ MAX_DONATION_DEPTH \in Nat
    BY PathEquation, SynchAssumption
<1> HIDE DEF path
<1>2. \A i \in Depth : path[i] = IF i = 0 THEN l ELSE NextLock(path[i - 1], waiting)
    BY ZenonT(40), <1>1
<1>3. \A i \in Depth : i # 0 => path[i] = NULL
    <2> DEFINE Bad == {i \in Depth : i # 0 /\ path[i] # NULL}
    <2> SUFFICES ASSUME Bad # {} PROVE FALSE
        OBVIOUS
    <2>1. Bad \subseteq Nat
        BY SMT, <1>1 DEF Depth
    <2>2. PICK i \in Bad : \A j \in Bad : i <= j
        BY ZenonT(40), <2>1, LeastNat
    <2>3. i \in Depth /\ i # 0 /\ path[i] # NULL
        BY <2>2
    <2>4. i - 1 \in Depth /\ ~ (i <= i - 1)
        BY SMT, <2>3, <1>1 DEF Depth
    <2>5. i - 1 = 0 \/ path[i - 1] = NULL
        BY ZenonT(40), <2>2, <2>4
    <2>6. path[i] = NextLock(path[i - 1], waiting)
        BY <2>3, <1>2
    <2>7. CASE i - 1 = 0
        <3>1. path[i - 1] = l
            BY <2>4, <2>7, <1>2
        <3> QED
            BY <3>1, <2>3, <2>6 DEF NextLock
    <2>8. CASE path[i - 1] = NULL
        BY <2>3, <2>6, <2>8 DEF NextLock
    <2> QED
        BY <2>5, <2>7, <2>8
<1>4. \A i \in Depth : HolderAt(path, i) = NULL
    BY <1>2, <1>3 DEF HolderAt
<1>5. \A p : \A h \in Thread : ToThread(p, path, h) = {}
    BY <1>4, SynchAssumption DEF ToThread, AllThread
<1>6. priority \in [AllThread -> Priority]
    BY DEF TypeOK, ThreadTypeOK
<1>7. \A h \in Thread : Max({priority[h]} \cup {}) = priority[h]
    <2> TAKE h \in Thread
    <2>1. {priority[h]} \subseteq Priority
        BY <1>6 DEF AllThread
    <2>2. Max({priority[h]}) \in {priority[h]}
        BY <2>1, MaxPriority
    <2>3. {priority[h]} \cup {} = {priority[h]}
        OBVIOUS
    <2> QED
        BY <2>2, <2>3
<1>8. ASSUME NEW p PROVE PriorityAfter(p, path) = priority
    <2>1. \A h \in AllThread : PriorityAfter(p, path)[h] = priority[h]
        BY <1>5, <1>7 DEF PriorityAfter, AllThread
    <2>2. PriorityAfter(p, path) \in [AllThread -> Priority]
        BY DonationOK
    <2> QED
        BY SMT, <1>6, <2>1, <2>2
<1> QED
    BY <1>8 DEF path

-------------------------------------------------------------------------------
\* What rescheduling with priorities pri establishes.
Consistent(pri) ==
    /\ status' \in [AllThread -> Status]
    /\ ready_list' \in Seq(Thread)
    /\ current' \in AllThread
    /\ SchedulerOK'
    /\ Ordered(ready_list', pri)
    /\ \A t \in Elements(ready_list') : pri[t] <= pri[current']

\* What the invariant says of the scheduler, in the form its lemmas take.
LEMMA IInvScheduler ==
    ASSUME IInv
    PROVE  /\ Matches(ready_list, status, priority)
           /\ current \in AllThread
           /\ \A t \in AllThread : status[t] = "RUNNING" <=> t = current
           /\ Thread \subseteq AllThread
           /\ SchedulerInv
<1>1. ThreadTypeOK /\ SchedulerOK
    BY DEF IInv, TypeOK
<1>2. SchedulerInv
    BY <1>1 DEF IInv, ReadyOrdered, SchedulerInv
<1> QED
    BY <1>1, <1>2, SchedulerMatches DEF AllThread

\* Giving up the processor keeps everything and blocks nobody.
LEMMA PlainYieldOK ==
    ASSUME IInv, thread_yield(ready_list, status, priority)
    PROVE  /\ Consistent(priority)
           /\ \A u \in Thread : status'[u] = "BLOCKED" <=> status[u] = "BLOCKED"
<1> DEFINE st == [status EXCEPT ![current] = "READY"]
<1>1. Rescheduled(st, priority)
    BY IInvScheduler, YieldOK
<1>2. Consistent(priority)
    BY <1>1 DEF Consistent, Rescheduled
<1>3. \A u \in Thread : status'[u] = "BLOCKED" <=> st[u] = "BLOCKED"
    BY ZenonT(40), <1>1, RescheduledBlocked
<1>4. \A u \in Thread : st[u] = "BLOCKED" <=> status[u] = "BLOCKED"
    BY IInvScheduler DEF Matches
<1> QED
    BY <1>2, <1>3, <1>4

(***************************************************************************)
(* sema_up: the scheduler stays consistent, and a set W of at most one     *)
(* waiter leaves the waiters and is blocked no more.                       *)
(***************************************************************************)
LEMMA SemaUpOK ==
    ASSUME IInv, NEW s \in Sema, sema_up(s)
    PROVE  /\ Consistent(priority)
           /\ value' \in [Sema -> Nat]
           /\ waiters' \in [Sema -> Seq(Thread)]
           /\ Distinct(waiters'[s])
           /\ \A x \in Sema : x # s => waiters'[x] = waiters[x]
           /\ \E W \in SUBSET Elements(waiters[s]) :
                 /\ Elements(waiters'[s]) = Elements(waiters[s]) \ W
                 /\ \A u \in Thread :
                       status'[u] = "BLOCKED" <=> status[u] = "BLOCKED" /\ u \notin W
<1>1. /\ value \in [Sema -> Nat] /\ waiters \in [Sema -> Seq(Thread)]
      /\ priority \in [AllThread -> Priority] /\ status \in [AllThread -> Status]
    BY DEF IInv, TypeOK, ThreadTypeOK
<1>2. /\ Distinct(waiters[s])
      /\ Elements(waiters[s]) =
            {t \in Thread : status[t] = "BLOCKED" /\ pc[t] = "down" /\ arg[t] = s}
    BY DEF IInv, WaitersAreBlocked
<1>3. value' \in [Sema -> Nat]
    BY SMT, <1>1 DEF sema_up
<1>4. CASE waiters[s] = <<>>
    <2>1. ~Wakes(s)
        BY <1>4 DEF Wakes
    <2>2. waiters' = waiters /\ thread_yield(ready_list, status, priority)
        BY <1>1, <2>1 DEF sema_up, AfterUp
    <2>3. /\ Consistent(priority)
          /\ \A u \in Thread : status'[u] = "BLOCKED" <=> status[u] = "BLOCKED"
        BY <2>2, PlainYieldOK
    <2>4. /\ {} \in SUBSET Elements(waiters[s])
          /\ Elements(waiters'[s]) = Elements(waiters[s]) \ {}
          /\ \A u \in Thread :
                status'[u] = "BLOCKED" <=> status[u] = "BLOCKED" /\ u \notin {}
        BY <2>2, <2>3
    <2>5. /\ waiters' \in [Sema -> Seq(Thread)]
          /\ Distinct(waiters'[s])
          /\ \A x \in Sema : x # s => waiters'[x] = waiters[x]
        BY <1>1, <1>2, <2>2
    <2> QED
        BY ZenonT(40), <1>3, <2>3, <2>4, <2>5
<1>5. CASE waiters[s] # <<>>
    <2> DEFINE sorted == list_sort(waiters[s], priority)
               w == list_front(sorted)
               rl == UnblockedList(ready_list, w, priority)
               st == UnblockedStatus(status, w)
               after == [st EXCEPT ![current] = "READY"]
    <2>1. \A x \in Thread : priority[x] \in Int
        BY ZenonT(40), <1>1, PriorityIsInt DEF AllThread
    <2>2. /\ sorted \in Seq(Thread) /\ sorted # <<>> /\ Distinct(sorted)
          /\ Elements(sorted) = Elements(waiters[s])
        BY SMT, <1>1, <1>2, <1>5, <2>1, SortElements
    <2>3. /\ w \in Thread /\ list_rest(sorted) \in Seq(Thread)
          /\ Distinct(list_rest(sorted))
          /\ Elements(waiters[s]) = Elements(list_rest(sorted)) \cup {w}
          /\ w \notin Elements(list_rest(sorted))
        BY <2>2, FrontRest
    <2>4. /\ waiters' = [waiters EXCEPT ![s] = list_rest(sorted)]
          /\ thread_yield(rl, st, priority)
        BY <1>5 DEF sema_up, Wakes, PopWaiter, AfterUp
    <2> HIDE DEF sorted, w
    <2>5. status[w] = "BLOCKED"
        BY <1>2, <2>3
    <2>6. Matches(rl, st, priority)
        BY <2>3, <2>5, IInvScheduler, UnblockOK
    <2>7. st \in [AllThread -> Status] /\ \A u \in AllThread : st[u] = IF u = w THEN "READY" ELSE status[u]
        BY <1>1, <2>3 DEF UnblockedStatus, Status, AllThread
    <2>8. \A u \in AllThread : st[u] = "RUNNING" <=> u = current
        BY <2>5, <2>7, IInvScheduler
    <2> HIDE DEF rl, st
    <2>9. Rescheduled(after, priority)
        BY <2>4, <2>6, <2>8, IInvScheduler, YieldOK
    <2>10. Consistent(priority)
        BY <2>9 DEF Consistent, Rescheduled
    <2>11. \A u \in Thread : status'[u] = "BLOCKED" <=> after[u] = "BLOCKED"
        BY ZenonT(40), <2>9, RescheduledBlocked
    <2>12. \A u \in Thread : after[u] = "BLOCKED" <=> status[u] = "BLOCKED" /\ u \notin {w}
        BY <2>7, IInvScheduler
    <2>13. waiters' \in [Sema -> Seq(Thread)] /\ waiters'[s] = list_rest(sorted)
        BY <1>1, <2>3, <2>4
    <2>14. Elements(waiters'[s]) = Elements(waiters[s]) \ {w} /\ {w} \in SUBSET Elements(waiters[s])
        BY <2>3, <2>13
    <2>15. \A x \in Sema : x # s => waiters'[x] = waiters[x]
        BY <1>1, <2>4
    <2> QED
        BY ZenonT(40), <1>3, <2>3, <2>10, <2>11, <2>12, <2>13, <2>14, <2>15
<1> QED
    BY ZenonT(40), <1>4, <1>5

\* sema_up keeps the waiters and the blocked threads in agreement.
LEMMA UpKeepsWaiters ==
    ASSUME IInv, NEW s \in Sema, sema_up(s),
           \A u \in Thread : u # current => pc'[u] = pc[u] /\ arg'[u] = arg[u]
    PROVE  WaitersAreBlocked'
<1>1. PICK W \in SUBSET Elements(waiters[s]) :
          /\ Elements(waiters'[s]) = Elements(waiters[s]) \ W
          /\ \A u \in Thread :
                status'[u] = "BLOCKED" <=> status[u] = "BLOCKED" /\ u \notin W
    BY ZenonT(40), SemaUpOK
<1>2. Distinct(waiters'[s]) /\ \A x \in Sema : x # s => waiters'[x] = waiters[x]
    BY SemaUpOK
<1>3. \A x \in Sema :
          /\ Elements(waiters[x]) =
                {t \in Thread : status[t] = "BLOCKED" /\ pc[t] = "down" /\ arg[t] = x}
          /\ Distinct(waiters[x])
    BY DEF IInv, WaitersAreBlocked
<1>4. \A u \in Thread : status[u] = "BLOCKED" => u # current
    BY IInvScheduler
<1> SUFFICES ASSUME NEW x \in Sema
             PROVE  /\ Elements(waiters'[x]) =
                          {t \in Thread : status'[t] = "BLOCKED" /\ pc'[t] = "down" /\ arg'[t] = x}
                    /\ Distinct(waiters'[x])
    BY DEF WaitersAreBlocked
<1>5. CASE x = s
    BY <1>1, <1>2, <1>3, <1>4, <1>5
<1>6. CASE x # s
    BY SMT, <1>1, <1>2, <1>3, <1>4, <1>6
<1> QED
    BY <1>5, <1>6

(***************************************************************************)
(* sema_down that has to wait: the running thread t joins the waiters of s *)
(* and blocks, with priorities pri (raised by a donation, or unchanged).   *)
(***************************************************************************)
LEMMA WaitOnOK ==
    ASSUME IInv, NEW t \in Thread, current = t, NEW s \in Sema, NEW pri,
           pri \in [AllThread -> Priority], WaitOn(t, s, pri)
    PROVE  /\ Consistent(pri)
           /\ value' = value
           /\ waiters' \in [Sema -> Seq(Thread)]
           /\ WaitersAreBlocked'
<1> DEFINE m == list_insert_ordered(waiters[s], t, pri)
           st == [status EXCEPT ![current] = "BLOCKED"]
<1>1. /\ waiters \in [Sema -> Seq(Thread)] /\ status \in [AllThread -> Status]
      /\ pc \in [Thread -> PC] /\ arg \in [Thread -> Sema \cup Condition \cup {NULL}]
    BY DEF IInv, TypeOK, ThreadTypeOK
<1>2. \A x \in Sema :
          /\ Elements(waiters[x]) =
                {u \in Thread : status[u] = "BLOCKED" /\ pc[u] = "down" /\ arg[u] = x}
          /\ Distinct(waiters[x])
    BY DEF IInv, WaitersAreBlocked
<1>3. status[t] = "RUNNING" /\ t \in AllThread
    BY IInvScheduler
<1>4. /\ m \in Seq(Thread) /\ Distinct(m)
      /\ Elements(m) = Elements(waiters[s]) \cup {t}
    <2>1. t \notin Elements(waiters[s])
        BY <1>2, <1>3
    <2> QED
        BY SMT, <1>1, <1>2, <2>1, InsertElements
<1>5. /\ waiters' = [waiters EXCEPT ![s] = m]
      /\ thread_block(ready_list, status, pri)
      /\ pc' = [pc EXCEPT ![t] = "down"]
      /\ arg' = [arg EXCEPT ![t] = s]
      /\ value' = value
    BY DEF WaitOn, Goto
<1> HIDE DEF m
<1>6. Matches(ready_list, status, pri)
    BY IInvScheduler DEF Matches
<1>7. Rescheduled(st, pri)
    BY <1>5, <1>6, IInvScheduler, BlockOK
<1>8. Consistent(pri)
    BY <1>7 DEF Consistent, Rescheduled
<1>9. \A u \in Thread : status'[u] = "BLOCKED" <=> st[u] = "BLOCKED"
    BY ZenonT(40), <1>7, RescheduledBlocked
<1>10. \A u \in Thread : status'[u] = "BLOCKED" <=> status[u] = "BLOCKED" \/ u = t
    BY <1>1, <1>9, IInvScheduler
<1>11. waiters' \in [Sema -> Seq(Thread)]
    BY <1>1, <1>4, <1>5
<1>12. \A u \in Thread : /\ pc'[u] = IF u = t THEN "down" ELSE pc[u]
                         /\ arg'[u] = IF u = t THEN s ELSE arg[u]
    BY <1>1, <1>5
<1>13. \A x \in Sema : waiters'[x] = IF x = s THEN m ELSE waiters[x]
    BY <1>1, <1>5
<1>14. ASSUME NEW x \in Sema
       PROVE  /\ Elements(waiters'[x]) =
                    {u \in Thread : status'[u] = "BLOCKED" /\ pc'[u] = "down" /\ arg'[u] = x}
              /\ Distinct(waiters'[x])
    <2>1. CASE x = s
        BY SMT, <1>2, <1>4, <1>10, <1>12, <1>13, <2>1
    <2>2. CASE x # s
        BY SMT, <1>2, <1>3, <1>10, <1>12, <1>13, <2>2
    <2> QED
        BY <2>1, <2>2
<1> QED
    BY <1>5, <1>8, <1>11, <1>14 DEF WaitersAreBlocked

(***************************************************************************)
(* A step that blocks and wakes nobody and leaves the members of every     *)
(* waiters list alone.                                                     *)
(***************************************************************************)
LEMMA WaitersKept ==
    ASSUME IInv,
           \A u \in Thread : status'[u] = "BLOCKED" <=> status[u] = "BLOCKED",
           \A x \in Sema : /\ Elements(waiters'[x]) = Elements(waiters[x])
                           /\ Distinct(waiters'[x]),
           \A u \in Thread : u # current => pc'[u] = pc[u] /\ arg'[u] = arg[u]
    PROVE  WaitersAreBlocked'
<1>1. \A x \in Sema :
          Elements(waiters[x]) =
             {t \in Thread : status[t] = "BLOCKED" /\ pc[t] = "down" /\ arg[t] = x}
    BY DEF IInv, WaitersAreBlocked
<1>2. \A u \in Thread : status[u] = "BLOCKED" => u # current
    BY IInvScheduler
<1>3. ASSUME NEW x \in Sema
      PROVE  Elements(waiters'[x]) =
                {t \in Thread : status'[t] = "BLOCKED" /\ pc'[t] = "down" /\ arg'[t] = x}
    BY SMT, <1>1, <1>2
<1> QED
    BY <1>3 DEF WaitersAreBlocked

\* sema_down that need not wait, as the end of lock_acquire, sorts the waiters.
LEMMA AcquiredOK ==
    ASSUME IInv, NEW t \in Thread, NEW l \in Lock, NEW pri, NEW maxp,
           pri \in [AllThread -> Priority], maxp \in [Lock -> Priority],
           value[l] > 0, Acquired(t, l, pri, maxp)
    PROVE  /\ value' \in [Sema -> Nat]
           /\ waiters' \in [Sema -> Seq(Thread)]
           /\ max_priority' \in [Lock -> Priority]
           /\ \A x \in Sema : /\ Elements(waiters'[x]) = Elements(waiters[x])
                              /\ Distinct(waiters'[x])
<1> DEFINE sorted == list_sort(waiters[l], pri)
<1>1. value \in [Sema -> Nat] /\ waiters \in [Sema -> Seq(Thread)] /\ l \in Sema
    BY DEF IInv, TypeOK, Sema
<1>2. \A x \in Sema : Distinct(waiters[x])
    BY DEF IInv, WaitersAreBlocked
<1>3. \A x \in Thread : pri[x] \in Int /\ pri[x] \in Priority
    BY ZenonT(40), PriorityIsInt DEF AllThread
<1>4. /\ sorted \in Seq(Thread) /\ Distinct(sorted)
      /\ Elements(sorted) = Elements(waiters[l])
    BY <1>1, <1>2, <1>3, SortElements
<1>5. /\ value' = [value EXCEPT ![l] = value[l] - 1]
      /\ waiters' = [waiters EXCEPT ![l] = sorted]
      /\ max_priority' = [maxp EXCEPT ![l] =
            IF sorted = <<>> THEN PRI_MIN ELSE pri[list_front(sorted)]]
    BY DEF Acquired, TakeSema
<1> HIDE DEF sorted
<1>6. sorted # <<>> => pri[list_front(sorted)] \in Priority
    BY <1>3, <1>4, FrontRest
<1>7. max_priority' \in [Lock -> Priority]
    BY SMT, <1>5, <1>6, PriorityAssumption DEF Priority
<1>8. value' \in [Sema -> Nat]
    <2>1. value[l] - 1 \in Nat
        BY SMT, <1>1
    <2> QED
        BY <1>1, <1>5, <2>1
<1> QED
    BY <1>1, <1>2, <1>4, <1>5, <1>7, <1>8

-------------------------------------------------------------------------------
(***************************************************************************)
(* Types.  TypeOK needs Where: an object is used according to the place a  *)
(* thread is at.                                                           *)
(***************************************************************************)
LEMMA GotoOK ==
    ASSUME TypeOK, NEW t \in Thread, NEW where \in PC,
           NEW what \in Sema \cup Condition \cup {NULL}, Goto(t, where, what)
    PROVE  /\ pc' \in [Thread -> PC]
           /\ arg' \in [Thread -> Sema \cup Condition \cup {NULL}]
           /\ \A u \in Thread : /\ pc'[u] = IF u = t THEN where ELSE pc[u]
                                /\ arg'[u] = IF u = t THEN what ELSE arg[u]
<1>1. pc \in [Thread -> PC] /\ arg \in [Thread -> Sema \cup Condition \cup {NULL}]
    BY DEF TypeOK
<1> QED
    BY <1>1 DEF Goto

\* The variables the scheduler's operations change.
LEMMA SchedulerTypes ==
    ASSUME TypeOK, NEW pri, Consistent(pri),
           UNCHANGED <<priority, base_priority, donated_priority>>
    PROVE  ThreadTypeOK'
BY DEF TypeOK, ThreadTypeOK, Consistent

\* Where, when only thread t moves.
LEMMA WhereKept ==
    ASSUME IInv, NEW t \in Thread,
           \A u \in Thread : u # t => /\ pc'[u] = pc[u] /\ arg'[u] = arg[u]
                                      /\ cond'[u] = cond[u] /\ locks'[u] = locks[u],
           /\ pc'[t] \in {"try", "store", "holder", "up"} => arg'[t] \in Lock \ locks'[t]
           /\ pc'[t] = "down" => arg'[t] \in Lock \cup Semaphore \cup {t}
           /\ pc'[t] = "down" /\ arg'[t] = t => cond'[t] \in Condition
           /\ pc'[t] \in {"release", "wait", "acquire"} => cond'[t] \in Condition
           /\ pc'[t] = "broadcast" => arg'[t] \in Condition
    PROVE  Where'
<1>1. Where
    BY DEF IInv
<1> SUFFICES ASSUME NEW u \in Thread
             PROVE  /\ pc'[u] \in {"try", "store", "holder", "up"} => arg'[u] \in Lock \ locks'[u]
                    /\ pc'[u] = "down" => arg'[u] \in Lock \cup Semaphore \cup {u}
                    /\ pc'[u] = "down" /\ arg'[u] = u => cond'[u] \in Condition
                    /\ pc'[u] \in {"release", "wait", "acquire"} => cond'[u] \in Condition
                    /\ pc'[u] = "broadcast" => arg'[u] \in Condition
    BY DEF Where
<1>2. CASE u = t
    BY <1>2
<1>3. CASE u # t
    BY <1>1, <1>3 DEF Where
<1> QED
    BY <1>2, <1>3

\* Every step keeps the types and the places of the threads.
LEMMA TypeStep ==
    ASSUME IInv, Next
    PROVE  TypeOK' /\ Where'
<1>1. TypeOK /\ Where /\ ThreadTypeOK
    BY DEF IInv, TypeOK
<1>2. /\ value \in [Sema -> Nat] /\ waiters \in [Sema -> Seq(Thread)]
      /\ holder \in [Lock -> Thread \cup {NULL}] /\ max_priority \in [Lock -> Priority]
      /\ waiting_lock \in [Thread -> Lock \cup {NULL}] /\ locks \in [Thread -> SUBSET Lock]
      /\ cond_waiters \in [Condition -> Seq(Thread)] /\ captured \in [Thread -> Priority]
      /\ pc \in [Thread -> PC] /\ arg \in [Thread -> Sema \cup Condition \cup {NULL}]
      /\ cond \in [Thread -> Condition \cup {NULL}] /\ saved \in [Thread -> Priority]
    BY <1>1 DEF TypeOK
<1>3. Lock \subseteq Sema /\ Semaphore \subseteq Sema /\ Thread \subseteq Sema
    BY DEF Sema
<1>4. Thread \subseteq AllThread /\ PRI_MIN \in Priority
    BY SMT, PriorityAssumption DEF AllThread, Priority
<1>5. priority \in [AllThread -> Priority] /\ donated_priority \in [AllThread -> Priority]
    BY <1>1 DEF ThreadTypeOK
<1>6. /\ {"run", "down", "try", "release", "store", "holder", "up", "reset",
          "wait", "acquire", "broadcast"} \subseteq PC
      /\ NULL \in Sema \cup Condition \cup {NULL}
    BY DEF PC
<1> DEFINE Typed == TypeOK' /\ Where'
<1>7. ASSUME NEW t \in Thread, lock_try_holder(t) PROVE Typed
    <2>1. arg[t] \in Lock
        BY <1>1, <1>7 DEF lock_try_holder, Where
    <2>2. /\ holder' \in [Lock -> Thread \cup {NULL}]
          /\ locks' \in [Thread -> SUBSET Lock]
          /\ \A u \in Thread : u # t => locks'[u] = locks[u]
        BY <1>2, <1>7, <2>1 DEF lock_try_holder
    <2>3. /\ pc' \in [Thread -> PC] /\ arg' \in [Thread -> Sema \cup Condition \cup {NULL}]
          /\ \A u \in Thread : /\ pc'[u] = IF u = t THEN "run" ELSE pc[u]
                               /\ arg'[u] = IF u = t THEN NULL ELSE arg[u]
        BY <1>1, <1>6, <1>7, GotoOK DEF lock_try_holder
    <2>4. UNCHANGED <<threadVars, value, waiters, max_priority, waiting_lock,
                      cond_waiters, captured, cond, saved>>
        BY <1>7 DEF lock_try_holder
    <2>5. ThreadTypeOK'
        BY <1>1, <2>4 DEF ThreadTypeOK, threadVars
    <2>6. TypeOK'
        BY <1>2, <2>2, <2>3, <2>4, <2>5 DEF TypeOK
    <2>7. Where'
        BY <2>2, <2>3, <2>4, WhereKept
    <2> QED
        BY <2>6, <2>7
<1>8. ASSUME NEW t \in Thread, NEW s \in Semaphore, sema_try_down(t, s) PROVE Typed
    <2>1. value' = [value EXCEPT ![s] = value[s] - 1] /\ value[s] > 0 /\ s \in Sema
        BY <1>3, <1>8 DEF sema_try_down, TakeSema, CanTryDown
    <2>2. value' \in [Sema -> Nat]
        BY SMT, <1>2, <2>1
    <2>3. UNCHANGED <<threadVars, waiters, holder, max_priority, waiting_lock, locks,
                      cond_waiters, captured, pc, arg, cond, saved>>
        BY <1>8 DEF sema_try_down
    <2> QED
        BY <1>1, <1>2, <2>2, <2>3 DEF TypeOK, ThreadTypeOK, threadVars, Where
<1>9. ASSUME NEW t \in Thread, NEW l \in TryLock, lock_try_acquire(t, l) PROVE Typed
    <2>1. l \in Lock /\ l \in Sema
        BY <1>3, SynchAssumption
    <2>2. value' = [value EXCEPT ![l] = value[l] - 1] /\ value[l] > 0
        BY <1>9 DEF lock_try_acquire, TakeSema, CanTryDown
    <2>3. value' \in [Sema -> Nat]
        BY SMT, <1>2, <2>1, <2>2
    <2>4. /\ pc' \in [Thread -> PC] /\ arg' \in [Thread -> Sema \cup Condition \cup {NULL}]
          /\ \A u \in Thread : /\ pc'[u] = IF u = t THEN "try" ELSE pc[u]
                               /\ arg'[u] = IF u = t THEN l ELSE arg[u]
        BY <1>1, <1>6, <1>9, <2>1, GotoOK DEF lock_try_acquire
    <2>5. l \notin locks[t]
        BY <1>9, <2>1 DEF lock_try_acquire, IInv, LockFields
    <2>6. UNCHANGED <<threadVars, waiters, holder, max_priority, waiting_lock, locks,
                      cond_waiters, captured, cond, saved>>
        BY <1>9 DEF lock_try_acquire
    <2>7. TypeOK'
        BY <1>1, <1>2, <2>3, <2>4, <2>6 DEF TypeOK, ThreadTypeOK, threadVars
    <2>8. Where'
        BY <2>1, <2>4, <2>5, <2>6, WhereKept
    <2> QED
        BY <2>7, <2>8
<1>10. ASSUME NEW t \in Thread, NEW l \in Lock, lock_release(t, l) PROVE Typed
    <2> DEFINE left == locks[t] \ {l}
               P == {PRI_MIN} \cup {max_priority[k] : k \in left}
    <2>1. /\ locks' = [locks EXCEPT ![t] = left]
          /\ saved' = [saved EXCEPT ![t] = Max(P)]
          /\ Goto(t, "store", l)
          /\ UNCHANGED <<threadVars, value, waiters, holder, max_priority, waiting_lock,
                         cond_waiters, captured, cond>>
        BY <1>10 DEF lock_release
    <2>2. P \subseteq Priority /\ P # {}
        BY <1>2, <1>4
    <2>3. Max(P) \in Priority
        BY <2>2, MaxPriority
    <2> HIDE DEF P
    <2>4. saved' \in [Thread -> Priority] /\ locks' \in [Thread -> SUBSET Lock]
        BY <1>2, <2>1, <2>3
    <2>5. /\ pc' \in [Thread -> PC] /\ arg' \in [Thread -> Sema \cup Condition \cup {NULL}]
          /\ \A u \in Thread : /\ pc'[u] = IF u = t THEN "store" ELSE pc[u]
                               /\ arg'[u] = IF u = t THEN l ELSE arg[u]
        BY <1>1, <1>3, <1>6, <2>1, GotoOK
    <2>6. TypeOK'
        BY <1>1, <1>2, <2>1, <2>4, <2>5 DEF TypeOK, ThreadTypeOK, threadVars
    <2>7. l \notin locks'[t] /\ \A u \in Thread : u # t => locks'[u] = locks[u]
        BY <1>2, <2>1
    <2>8. Where'
        BY <2>1, <2>5, <2>7, WhereKept
    <2> QED
        BY <2>6, <2>8
<1>11. ASSUME NEW t \in Thread, lock_release_store(t) PROVE Typed
    <2>1. /\ donated_priority' = [donated_priority EXCEPT ![t] = saved[t]]
          /\ saved' = [saved EXCEPT ![t] = PRI_MIN]
          /\ Goto(t, "holder", arg[t])
          /\ UNCHANGED <<status, priority, base_priority, ready_list, current, value,
                         waiters, holder, max_priority, waiting_lock, locks,
                         cond_waiters, captured, cond>>
        BY <1>11 DEF lock_release_store
    <2>2. arg[t] \in Lock \ locks[t]
        BY <1>1, <1>11 DEF lock_release_store, Where
    <2>3. saved' \in [Thread -> Priority] /\ donated_priority' \in [AllThread -> Priority]
        BY <1>2, <1>4, <1>5, <2>1
    <2>4. /\ pc' \in [Thread -> PC] /\ arg' \in [Thread -> Sema \cup Condition \cup {NULL}]
          /\ \A u \in Thread : /\ pc'[u] = IF u = t THEN "holder" ELSE pc[u]
                               /\ arg'[u] = IF u = t THEN arg[t] ELSE arg[u]
        BY <1>1, <1>2, <1>6, <2>1, GotoOK
    <2>5. TypeOK'
        BY <1>1, <1>2, <2>1, <2>3, <2>4 DEF TypeOK, ThreadTypeOK
    <2>6. Where'
        BY <2>1, <2>2, <2>4, WhereKept
    <2> QED
        BY <2>5, <2>6
<1>12. ASSUME NEW t \in Thread, lock_release_holder(t) PROVE Typed
    <2>1. /\ holder' = [holder EXCEPT ![arg[t]] = NULL]
          /\ Goto(t, "up", arg[t])
          /\ UNCHANGED <<threadVars, value, waiters, max_priority, waiting_lock, locks,
                         cond_waiters, captured, cond, saved>>
        BY <1>12 DEF lock_release_holder
    <2>2. arg[t] \in Lock \ locks[t]
        BY <1>1, <1>12 DEF lock_release_holder, Where
    <2>3. holder' \in [Lock -> Thread \cup {NULL}]
        BY ZenonT(40), <1>2, <2>1
    <2>4. /\ pc' \in [Thread -> PC] /\ arg' \in [Thread -> Sema \cup Condition \cup {NULL}]
          /\ \A u \in Thread : /\ pc'[u] = IF u = t THEN "up" ELSE pc[u]
                               /\ arg'[u] = IF u = t THEN arg[t] ELSE arg[u]
        BY <1>1, <1>2, <1>6, <2>1, GotoOK
    <2>5. TypeOK'
        BY <1>1, <1>2, <2>1, <2>3, <2>4 DEF TypeOK, ThreadTypeOK, threadVars
    <2>6. Where'
        BY <2>1, <2>2, <2>4, WhereKept
    <2> QED
        BY <2>5, <2>6
<1>13. ASSUME NEW t \in Thread, lock_release_up(t) PROVE Typed
    <2>1. /\ sema_up(arg[t])
          /\ Goto(t, "reset", NULL)
          /\ UNCHANGED <<priority, base_priority, donated_priority, holder, max_priority,
                         waiting_lock, locks, cond_waiters, captured, cond, saved>>
        BY <1>13 DEF lock_release_up
    <2>2. arg[t] \in Sema
        BY <1>1, <1>3, <1>13 DEF lock_release_up, Where
    <2>3. /\ Consistent(priority) /\ value' \in [Sema -> Nat]
          /\ waiters' \in [Sema -> Seq(Thread)]
        BY <2>1, <2>2, SemaUpOK
    <2>4. /\ pc' \in [Thread -> PC] /\ arg' \in [Thread -> Sema \cup Condition \cup {NULL}]
          /\ \A u \in Thread : /\ pc'[u] = IF u = t THEN "reset" ELSE pc[u]
                               /\ arg'[u] = IF u = t THEN NULL ELSE arg[u]
        BY <1>1, <1>6, <2>1, GotoOK
    <2>5. ThreadTypeOK'
        BY <1>1, <2>1, <2>3, SchedulerTypes
    <2>6. TypeOK'
        BY <1>2, <2>1, <2>3, <2>4, <2>5 DEF TypeOK
    <2>7. Where'
        BY <2>1, <2>4, WhereKept
    <2> QED
        BY <2>6, <2>7
<1>14. ASSUME NEW t \in Thread, lock_release_reset(t) PROVE Typed
    <2> DEFINE where == IF cond[t] = NULL THEN "run" ELSE "wait"
    <2>1. /\ current = t
          /\ thread_set_priority(t, base_priority[t])
          /\ Goto(t, where, NULL)
          /\ UNCHANGED <<value, waiters, holder, max_priority, waiting_lock, locks,
                         cond_waiters, captured, cond, saved>>
        BY <1>14 DEF lock_release_reset
    <2>2. base_priority[t] \in Priority
        BY <1>1, <1>4 DEF ThreadTypeOK
    <2>3. ThreadTypeOK'
        BY ZenonT(40), <2>1, <2>2, IInvScheduler, SetPriorityOK DEF SchedulerInv
    <2>4. /\ pc' \in [Thread -> PC] /\ arg' \in [Thread -> Sema \cup Condition \cup {NULL}]
          /\ \A u \in Thread : /\ pc'[u] = IF u = t THEN where ELSE pc[u]
                               /\ arg'[u] = IF u = t THEN NULL ELSE arg[u]
        BY SMTT(40), <1>1, <1>6, <2>1, GotoOK
    <2>5. TypeOK'
        BY <1>2, <2>1, <2>3, <2>4 DEF TypeOK
    <2>6. Where'
        BY ZenonT(40), <1>2, <2>1, <2>4, WhereKept
    <2> QED
        BY <2>5, <2>6
<1>15. ASSUME NEW t \in Thread, NEW l \in Lock, lock_acquire(t, l) PROVE Typed
    <2> DEFINE path == DonationPath(l, [waiting_lock EXCEPT ![t] = l])
               pri == PriorityAfter(priority[t], path)
               don == DonatedAfter(priority[t], path)
               maxp == MaxPriorityAfter(priority[t], path)
    <2>1. /\ pri \in [AllThread -> Priority] /\ don \in [AllThread -> Priority]
          /\ maxp \in [Lock -> Priority] /\ l \in Sema
        BY <1>1, <1>3, DonationOK
    <2>2. /\ current = t /\ priority' = pri /\ donated_priority' = don
          /\ UNCHANGED <<base_priority, cond_waiters, captured, saved>>
        BY <1>15 DEF lock_acquire
    <2>3. CASE value[l] > 0
        <3>1. Acquired(t, l, pri, maxp) /\ UNCHANGED <<status, ready_list, current>>
            BY <1>15, <2>3 DEF lock_acquire
        <3>2. /\ waiting_lock' = [waiting_lock EXCEPT ![t] = NULL]
              /\ locks' = [locks EXCEPT ![t] = locks[t] \cup {l}]
              /\ holder' = [holder EXCEPT ![l] = t]
              /\ Goto(t, "run", NULL)
              /\ cond' = [cond EXCEPT ![t] = NULL]
            BY <3>1 DEF Acquired
        <3> HIDE DEF pri, don, maxp
        <3>3. /\ value' \in [Sema -> Nat] /\ waiters' \in [Sema -> Seq(Thread)]
              /\ max_priority' \in [Lock -> Priority]
            BY <2>1, <2>3, <3>1, AcquiredOK
        <3>4. /\ pc' \in [Thread -> PC] /\ arg' \in [Thread -> Sema \cup Condition \cup {NULL}]
              /\ \A u \in Thread : /\ pc'[u] = IF u = t THEN "run" ELSE pc[u]
                                   /\ arg'[u] = IF u = t THEN NULL ELSE arg[u]
            BY <1>1, <1>6, <3>2, GotoOK
        <3>5. /\ waiting_lock' \in [Thread -> Lock \cup {NULL}]
              /\ locks' \in [Thread -> SUBSET Lock]
              /\ holder' \in [Lock -> Thread \cup {NULL}]
              /\ cond' \in [Thread -> Condition \cup {NULL}]
              /\ \A u \in Thread : u # t => locks'[u] = locks[u] /\ cond'[u] = cond[u]
            BY <1>2, <3>2
        <3>6. ThreadTypeOK'
            BY <1>1, <2>1, <2>2, <3>1 DEF ThreadTypeOK
        <3>7. TypeOK'
            BY <1>2, <2>2, <3>3, <3>4, <3>5, <3>6 DEF TypeOK
        <3>8. Where'
            BY <3>4, <3>5, WhereKept
        <3> QED
            BY <3>7, <3>8
    <2>4. CASE ~ (value[l] > 0)
        <3>1. /\ WaitOn(t, l, pri)
              /\ waiting_lock' = [waiting_lock EXCEPT ![t] = l]
              /\ max_priority' = maxp
              /\ UNCHANGED <<locks, holder, cond>>
            BY <1>15, <2>4 DEF lock_acquire
        <3> HIDE DEF pri, don, maxp
        <3>2. Consistent(pri) /\ value' = value /\ waiters' \in [Sema -> Seq(Thread)]
            BY <2>1, <2>2, <3>1, WaitOnOK
        <3>3. /\ pc' \in [Thread -> PC] /\ arg' \in [Thread -> Sema \cup Condition \cup {NULL}]
              /\ \A u \in Thread : /\ pc'[u] = IF u = t THEN "down" ELSE pc[u]
                                   /\ arg'[u] = IF u = t THEN l ELSE arg[u]
            BY <1>1, <1>6, <2>1, <3>1, GotoOK DEF WaitOn
        <3>4. waiting_lock' \in [Thread -> Lock \cup {NULL}]
            BY <1>2, <3>1
        <3>5. ThreadTypeOK'
            BY <1>1, <2>1, <2>2, <3>2 DEF ThreadTypeOK, Consistent
        <3>6. TypeOK'
            BY <1>2, <2>1, <2>2, <3>1, <3>2, <3>3, <3>4, <3>5 DEF TypeOK
        <3>7. l # t
            BY SynchAssumption
        <3>8. Where'
            BY <3>1, <3>3, <3>7, WhereKept
        <3> QED
            BY <3>6, <3>8
    <2> QED
        BY <2>3, <2>4
<1>16. ASSUME NEW t \in Thread, NEW s \in Semaphore \cup {t}, sema_down(t, s) PROVE Typed
    <2>1. /\ s \in Sema /\ current = t
          /\ UNCHANGED <<priority, base_priority, donated_priority, holder, max_priority,
                         waiting_lock, locks, cond_waiters, captured, cond, saved>>
        BY ZenonT(40), <1>3, <1>16 DEF sema_down
    <2>2. s = t => cond[t] \in Condition
        BY ZenonT(40), <1>1, <1>16, SynchAssumption DEF sema_down, Where
    <2>3. CASE value[s] > 0
        <3> DEFINE where == IF s = t THEN "acquire" ELSE "run"
        <3>1. /\ value' = [value EXCEPT ![s] = value[s] - 1]
              /\ Goto(t, where, NULL)
              /\ UNCHANGED <<waiters, status, ready_list, current>>
            BY <1>16, <2>3 DEF sema_down, TakeSema
        <3>2. value' \in [Sema -> Nat]
            BY SMT, <1>2, <2>1, <2>3, <3>1
        <3>3. /\ pc' \in [Thread -> PC] /\ arg' \in [Thread -> Sema \cup Condition \cup {NULL}]
              /\ \A u \in Thread : /\ pc'[u] = IF u = t THEN where ELSE pc[u]
                                   /\ arg'[u] = IF u = t THEN NULL ELSE arg[u]
            BY <1>1, <1>6, <3>1, GotoOK
        <3>4. TypeOK'
            BY <1>1, <1>2, <2>1, <3>1, <3>2, <3>3 DEF TypeOK, ThreadTypeOK
        <3>5. Where'
            BY <2>1, <2>2, <3>3, WhereKept
        <3> QED
            BY <3>4, <3>5
    <2>4. CASE ~ (value[s] > 0)
        <3>1. WaitOn(t, s, priority)
            BY <1>16, <2>4 DEF sema_down
        <3>2. Consistent(priority) /\ value' = value /\ waiters' \in [Sema -> Seq(Thread)]
            BY <1>5, <2>1, <3>1, WaitOnOK
        <3>3. /\ pc' \in [Thread -> PC] /\ arg' \in [Thread -> Sema \cup Condition \cup {NULL}]
              /\ \A u \in Thread : /\ pc'[u] = IF u = t THEN "down" ELSE pc[u]
                                   /\ arg'[u] = IF u = t THEN s ELSE arg[u]
            BY <1>1, <1>6, <2>1, <3>1, GotoOK DEF WaitOn
        <3>4. ThreadTypeOK'
            BY <1>1, <2>1, <3>2, SchedulerTypes
        <3>5. TypeOK'
            BY <1>2, <2>1, <3>2, <3>3, <3>4 DEF TypeOK
        <3>6. Where'
            BY <2>1, <2>2, <3>3, WhereKept
        <3> QED
            BY <3>5, <3>6
    <2> QED
        BY <2>3, <2>4
<1>17. ASSUME NEW t \in Thread, sema_down_resume(t) PROVE Typed
    <2> DEFINE s == arg[t]
    <2>1. /\ s \in Lock \cup Semaphore \cup {t} /\ s \in Sema /\ current = t
          /\ s = t => cond[t] \in Condition
          /\ UNCHANGED <<priority, base_priority, donated_priority,
                         cond_waiters, captured, saved>>
        BY ZenonT(40), <1>1, <1>3, <1>17 DEF sema_down_resume, Where
    <2>2. CASE MustWait(s)
        <3>1. WaitOn(t, s, priority) /\ UNCHANGED <<holder, max_priority, waiting_lock, locks, cond>>
            BY ZenonT(40), <1>17, <2>2 DEF sema_down_resume
        <3>2. Consistent(priority) /\ value' = value /\ waiters' \in [Sema -> Seq(Thread)]
            BY <1>5, <2>1, <3>1, WaitOnOK
        <3>3. /\ pc' \in [Thread -> PC] /\ arg' \in [Thread -> Sema \cup Condition \cup {NULL}]
              /\ \A u \in Thread : /\ pc'[u] = IF u = t THEN "down" ELSE pc[u]
                                   /\ arg'[u] = IF u = t THEN s ELSE arg[u]
            BY ZenonT(40), <1>1, <1>6, <2>1, <3>1, GotoOK DEF WaitOn
        <3>4. ThreadTypeOK'
            BY <1>1, <2>1, <3>2, SchedulerTypes
        <3>5. TypeOK'
            BY <1>2, <2>1, <3>1, <3>2, <3>3, <3>4 DEF TypeOK
        <3>6. Where'
            BY <2>1, <3>1, <3>3, WhereKept
        <3> QED
            BY <3>5, <3>6
    <2>3. CASE ~MustWait(s) /\ s \in Lock
        <3>1. Acquired(t, s, priority, max_priority) /\ UNCHANGED <<status, ready_list, current>>
            BY ZenonT(40), <1>17, <2>3 DEF sema_down_resume
        <3>2. /\ waiting_lock' = [waiting_lock EXCEPT ![t] = NULL]
              /\ locks' = [locks EXCEPT ![t] = locks[t] \cup {s}]
              /\ holder' = [holder EXCEPT ![s] = t]
              /\ Goto(t, "run", NULL)
              /\ cond' = [cond EXCEPT ![t] = NULL]
            BY <3>1 DEF Acquired
        <3>3. value[s] > 0
            BY SMT, <1>2, <2>1, <2>3 DEF MustWait
        <3>4. /\ value' \in [Sema -> Nat] /\ waiters' \in [Sema -> Seq(Thread)]
              /\ max_priority' \in [Lock -> Priority]
            BY ZenonT(40), <1>2, <1>5, <2>3, <3>1, <3>3, AcquiredOK
        <3>5. /\ pc' \in [Thread -> PC] /\ arg' \in [Thread -> Sema \cup Condition \cup {NULL}]
              /\ \A u \in Thread : /\ pc'[u] = IF u = t THEN "run" ELSE pc[u]
                                   /\ arg'[u] = IF u = t THEN NULL ELSE arg[u]
            BY <1>1, <1>6, <3>2, GotoOK
        <3>6. /\ waiting_lock' \in [Thread -> Lock \cup {NULL}]
              /\ locks' \in [Thread -> SUBSET Lock]
              /\ holder' \in [Lock -> Thread \cup {NULL}]
              /\ cond' \in [Thread -> Condition \cup {NULL}]
              /\ \A u \in Thread : u # t => locks'[u] = locks[u] /\ cond'[u] = cond[u]
            BY <1>2, <2>3, <3>2
        <3>7. TypeOK'
            BY ZenonT(40), <1>1, <1>2, <2>1, <3>1, <3>4, <3>5, <3>6 DEF TypeOK, ThreadTypeOK
        <3>8. Where'
            BY <3>5, <3>6, WhereKept
        <3> QED
            BY <3>7, <3>8
    <2>4. CASE ~MustWait(s) /\ s \notin Lock
        <3> DEFINE where == IF s = t THEN "acquire" ELSE "run"
        <3>1. /\ value' = [value EXCEPT ![s] = value[s] - 1]
              /\ Goto(t, where, NULL)
              /\ UNCHANGED <<waiters, holder, max_priority, waiting_lock, locks, cond,
                             status, ready_list, current>>
            BY <1>17, <2>4 DEF sema_down_resume, TakeSema
        <3>2. value[s] > 0
            BY SMT, <1>2, <2>1, <2>4 DEF MustWait
        <3>3. value' \in [Sema -> Nat]
            BY SMT, <1>2, <2>1, <3>1, <3>2
        <3>4. /\ pc' \in [Thread -> PC] /\ arg' \in [Thread -> Sema \cup Condition \cup {NULL}]
              /\ \A u \in Thread : /\ pc'[u] = IF u = t THEN where ELSE pc[u]
                                   /\ arg'[u] = IF u = t THEN NULL ELSE arg[u]
            BY SMTT(40), <1>1, <1>6, <3>1, GotoOK
        <3>5. TypeOK'
            BY <1>1, <1>2, <2>1, <3>1, <3>3, <3>4 DEF TypeOK, ThreadTypeOK
        <3>6. Where'
            BY ZenonT(40), <2>1, <3>1, <3>4, WhereKept
        <3> QED
            BY <3>5, <3>6
    <2> QED
        BY <2>2, <2>3, <2>4
<1>18. ASSUME NEW s \in Semaphore, sema_up(s),
              UNCHANGED <<priority, base_priority, donated_priority, holder, max_priority,
                          waiting_lock, locks, cond_waiters, captured, pc, arg, cond, saved>>
       PROVE  Typed
    <2>1. /\ Consistent(priority) /\ value' \in [Sema -> Nat]
          /\ waiters' \in [Sema -> Seq(Thread)]
        BY ZenonT(40), <1>3, <1>18, SemaUpOK
    <2>2. ThreadTypeOK'
        BY <1>1, <1>18, <2>1, SchedulerTypes
    <2> QED
        BY <1>1, <1>2, <1>18, <2>1, <2>2 DEF TypeOK, Where
<1>19. ASSUME Preempt PROVE Typed
    <2>1. UNCHANGED <<priority, base_priority, donated_priority, synchVars>>
        BY <1>19 DEF Preempt
    <2>2. Consistent(priority)
        BY ZenonT(40), <1>19, PlainYieldOK DEF Preempt
    <2>3. ThreadTypeOK'
        BY <1>1, <2>1, <2>2, SchedulerTypes
    <2> QED
        BY <1>1, <1>2, <2>1, <2>3 DEF TypeOK, Where, synchVars
<1>20. ASSUME NEW t \in Thread, NEW p \in NewPriority, SetPriority(t, p) PROVE Typed
    <2>1. p \in Priority
        BY SynchAssumption
    <2>2. ThreadTypeOK'
        BY <1>20, <2>1, IInvScheduler, SetPriorityOK DEF SchedulerInv, SetPriority
    <2>3. UNCHANGED synchVars
        BY <1>20 DEF SetPriority
    <2> QED
        BY ZenonT(40), <1>1, <1>2, <2>2, <2>3 DEF TypeOK, Where, synchVars
<1>21. ASSUME NEW t \in Thread, NEW c \in Condition, cond_wait(t, c) PROVE Typed
    <2>1. /\ value' = [value EXCEPT ![t] = 0]
          /\ captured' = [captured EXCEPT ![t] = priority[t]]
          /\ cond_waiters' = [cond_waiters EXCEPT ![c] =
                list_insert_ordered(cond_waiters[c], t, captured')]
          /\ cond' = [cond EXCEPT ![t] = c]
          /\ Goto(t, "release", NULL)
          /\ UNCHANGED <<threadVars, waiters, holder, max_priority, waiting_lock, locks, saved>>
        BY <1>21 DEF cond_wait
    <2>2. list_insert_ordered(cond_waiters[c], t, captured') \in Seq(Thread)
        BY <1>2, InsertElements
    <2>3. /\ value' \in [Sema -> Nat] /\ captured' \in [Thread -> Priority]
          /\ cond_waiters' \in [Condition -> Seq(Thread)]
          /\ cond' \in [Thread -> Condition \cup {NULL}]
          /\ \A u \in Thread : cond'[u] = IF u = t THEN c ELSE cond[u]
        BY <1>2, <1>3, <1>4, <1>5, <2>1, <2>2
    <2>4. /\ pc' \in [Thread -> PC] /\ arg' \in [Thread -> Sema \cup Condition \cup {NULL}]
          /\ \A u \in Thread : /\ pc'[u] = IF u = t THEN "release" ELSE pc[u]
                               /\ arg'[u] = IF u = t THEN NULL ELSE arg[u]
        BY <1>1, <1>6, <2>1, GotoOK
    <2>5. TypeOK'
        BY ZenonT(40), <1>1, <1>2, <2>1, <2>3, <2>4 DEF TypeOK, ThreadTypeOK, threadVars
    <2>6. Where'
        BY ZenonT(40), <2>1, <2>3, <2>4, WhereKept
    <2> QED
        BY <2>5, <2>6
<1>22. ASSUME NEW t \in Thread, NEW c \in Condition, SignalOne(t, c),
              UNCHANGED <<priority, base_priority, donated_priority, holder, max_priority,
                          waiting_lock, locks, captured, cond, saved>>,
              \/ UNCHANGED <<pc, arg>>
              \/ Goto(t, "broadcast", c)
              \/ Goto(t, "run", NULL)
       PROVE  Typed
    <2> DEFINE sorted == list_sort(cond_waiters[c], captured)
    <2>1. /\ cond_waiters[c] # <<>>
          /\ cond_waiters' = [cond_waiters EXCEPT ![c] = list_rest(sorted)]
          /\ sema_up(list_front(sorted))
        BY <1>22 DEF SignalOne, PopWaiter
    <2>2. \A x \in Thread : captured[x] \in Int
        BY ZenonT(40), <1>2, PriorityIsInt
    <2>3. sorted \in Seq(Thread) /\ sorted # <<>>
        BY SMT, <1>2, <2>1, <2>2, SortElements
    <2>4. list_front(sorted) \in Thread /\ list_rest(sorted) \in Seq(Thread)
        BY <2>3, FrontRest
    <2> HIDE DEF sorted
    <2>5. /\ Consistent(priority) /\ value' \in [Sema -> Nat]
          /\ waiters' \in [Sema -> Seq(Thread)]
        BY <1>3, <2>1, <2>4, SemaUpOK
    <2>6. ThreadTypeOK'
        BY <1>1, <1>22, <2>5, SchedulerTypes
    <2>7. cond_waiters' \in [Condition -> Seq(Thread)]
        BY <1>2, <2>1, <2>4
    <2>8. CASE UNCHANGED <<pc, arg>>
        BY ZenonT(40), <1>1, <1>2, <1>22, <2>5, <2>6, <2>7, <2>8 DEF TypeOK, Where
    <2>9. ASSUME NEW where \in {"broadcast", "run"}, NEW what \in Condition \cup {NULL},
                 where = "broadcast" => what \in Condition, Goto(t, where, what)
          PROVE  Typed
        <3>1. /\ pc' \in [Thread -> PC] /\ arg' \in [Thread -> Sema \cup Condition \cup {NULL}]
              /\ \A u \in Thread : /\ pc'[u] = IF u = t THEN where ELSE pc[u]
                                   /\ arg'[u] = IF u = t THEN what ELSE arg[u]
            BY <1>1, <1>6, <2>9, GotoOK
        <3>2. TypeOK'
            BY <1>2, <1>22, <2>5, <2>6, <2>7, <3>1 DEF TypeOK
        <3>3. Where'
            BY ZenonT(40), <1>22, <2>9, <3>1, WhereKept
        <3> QED
            BY <3>2, <3>3
    <2>10. CASE Goto(t, "broadcast", c)
        BY <2>9, <2>10
    <2>11. CASE Goto(t, "run", NULL)
        BY <2>9, <2>11
    <2> QED
        BY <1>22, <2>8, <2>10, <2>11
<1>23. ASSUME NEW t \in Thread, NEW s \in Semaphore, Up(t, s) PROVE Typed
    BY <1>18, <1>23 DEF Up
<1>24. ASSUME NEW s \in Semaphore, InterruptUp(s) PROVE Typed
    BY <1>18, <1>24 DEF InterruptUp
<1>25. ASSUME NEW t \in Thread, NEW c \in Condition, cond_signal(t, c) PROVE Typed
    BY <1>22, <1>25 DEF cond_signal
<1>26. ASSUME NEW t \in Thread, NEW c \in Condition, cond_broadcast(t, c) PROVE Typed
    BY <1>22, <1>26 DEF cond_broadcast
<1> HIDE DEF Typed
<1>27. Typed
    BY <1>7, <1>8, <1>9, <1>10, <1>11, <1>12, <1>13, <1>14, <1>15, <1>16, <1>17,
       <1>19, <1>20, <1>21, <1>23, <1>24, <1>25, <1>26 DEF Next
<1> QED
    BY <1>27 DEF Typed

-------------------------------------------------------------------------------
(***************************************************************************)
(* Locks.  The owners of the locks, and the fields that record them.       *)
(***************************************************************************)
LEMMA LockView ==
    ASSUME IInv
    PROVE  /\ \A u \in Thread, m \in Lock :
                 holder[m] = u <=> (m \in locks[u] \/ (pc[u] \in {"store", "holder"} /\ arg[u] = m))
           /\ \A u \in Thread :
                 waiting_lock[u] = IF pc[u] = "down" /\ arg[u] \in Lock THEN arg[u] ELSE NULL
           /\ \A m \in Lock :
                 /\ \A u, v \in Thread : Owns(u, m) /\ Owns(v, m) => u = v
                 /\ value[m] = IF \E u \in Thread : Owns(u, m) THEN 0 ELSE 1
                 /\ holder[m] \in Thread \cup {NULL}
                 /\ \A u \in Thread : holder[m] = u => Owns(u, m)
           /\ \A u \in Thread :
                 pc[u] \in {"try", "store", "holder", "up"} => arg[u] \in Lock \ locks[u]
           /\ NULL \notin Thread /\ NULL \notin Lock
<1>1. holder \in [Lock -> Thread \cup {NULL}] /\ Where /\ LockFields /\ MutualExclusion
    BY DEF IInv, TypeOK
<1> QED
    BY SMT, <1>1, SynchAssumption DEF LockFields, MutualExclusion, Where, AllThread

\* MutualExclusion after a step, with the holder named by a variable.
LEMMA MutexAfter ==
    ASSUME \A m \in Lock :
              /\ \A u, v \in Thread : Owns(u, m)' /\ Owns(v, m)' => u = v
              /\ value'[m] = IF \E u \in Thread : Owns(u, m)' THEN 0 ELSE 1
              /\ holder'[m] \in Thread \cup {NULL}
              /\ \A u \in Thread : holder'[m] = u => Owns(u, m)'
    PROVE  MutualExclusion'
BY DEF MutualExclusion, Owns

\* What a step does to the owners of the locks and to the threads that wait.
OwnersKept ==
    /\ \A u \in Thread, m \in Lock : Owns(u, m)' <=> Owns(u, m)
    /\ waiting_lock' = waiting_lock

OwnersWait(t, l) ==
    /\ waiting_lock[t] = NULL
    /\ ~Owns(t, l) /\ \E u \in Thread : Owns(u, l)
    /\ \A u \in Thread, m \in Lock : Owns(u, m)' <=> Owns(u, m)
    /\ waiting_lock' = [waiting_lock EXCEPT ![t] = l]

OwnersTake(t, l) ==
    /\ waiting_lock[t] \in {NULL, l}
    /\ \A u \in Thread : ~Owns(u, l)
    /\ \A u \in Thread, m \in Lock : Owns(u, m)' <=> (Owns(u, m) \/ (u = t /\ m = l))
    /\ waiting_lock' = [waiting_lock EXCEPT ![t] = NULL]

OwnersRelease(t, l) ==
    /\ waiting_lock[t] = NULL
    /\ Owns(t, l)
    /\ \A u \in Thread, m \in Lock : Owns(u, m)' <=> (Owns(u, m) /\ ~ (u = t /\ m = l))
    /\ waiting_lock' = waiting_lock

OwnersMove ==
    \/ OwnersKept
    \/ \E t \in Thread, l \in Lock :
          OwnersWait(t, l) \/ OwnersTake(t, l) \/ OwnersRelease(t, l)

LocksOK == LockFields' /\ MutualExclusion' /\ OwnersMove

\* A step that changes no lock and moves thread t between places outside the
\* lock operations.
LEMMA LocksKept ==
    ASSUME IInv, UNCHANGED <<holder, locks, waiting_lock>>,
           \A m \in Lock : value'[m] = value[m],
           NEW t \in Thread,
           \A u \in Thread : u # t => pc'[u] = pc[u] /\ arg'[u] = arg[u],
           \/ pc'[t] = pc[t] /\ arg'[t] = arg[t]
           \/ /\ pc[t] \notin {"try", "store", "holder", "up"}
              /\ pc'[t] \notin {"try", "store", "holder", "up"}
              /\ ~ (pc[t] = "down" /\ arg[t] \in Lock)
              /\ ~ (pc'[t] = "down" /\ arg'[t] \in Lock)
    PROVE  LocksOK
<1>1. \A u \in Thread, m \in Lock : Owns(u, m)' <=> Owns(u, m)
    BY DEF Owns
<1>2. MutualExclusion'
    BY SMT, <1>1, LockView, MutexAfter
<1>3. LockFields'
    BY SMTT(40), LockView DEF LockFields
<1> QED
    BY <1>1, <1>2, <1>3 DEF LocksOK, OwnersMove, OwnersKept

\* The end of lock_acquire: t becomes the owner of a lock that has none.
LEMMA LockTaken ==
    ASSUME IInv, NEW t \in Thread, NEW l \in Lock, NEW pri, NEW maxp, value[l] > 0,
           pc[t] \notin {"try", "store", "holder", "up"}, waiting_lock[t] \in {NULL, l},
           Acquired(t, l, pri, maxp)
    PROVE  LocksOK
<1>1. /\ value \in [Sema -> Nat] /\ Lock \subseteq Sema
      /\ holder \in [Lock -> Thread \cup {NULL}]
      /\ waiting_lock \in [Thread -> Lock \cup {NULL}] /\ locks \in [Thread -> SUBSET Lock]
      /\ pc \in [Thread -> PC] /\ arg \in [Thread -> Sema \cup Condition \cup {NULL}]
    BY DEF IInv, TypeOK, Sema
<1>2. /\ \A m \in Lock : value'[m] = IF m = l THEN value[l] - 1 ELSE value[m]
      /\ \A u \in Thread : waiting_lock'[u] = IF u = t THEN NULL ELSE waiting_lock[u]
      /\ \A u \in Thread : locks'[u] = IF u = t THEN locks[t] \cup {l} ELSE locks[u]
      /\ \A m \in Lock : holder'[m] = IF m = l THEN t ELSE holder[m]
      /\ \A u \in Thread : /\ pc'[u] = IF u = t THEN "run" ELSE pc[u]
                           /\ arg'[u] = IF u = t THEN NULL ELSE arg[u]
    BY <1>1 DEF Acquired, TakeSema, Goto
<1>3. /\ \A u \in Thread : ~Owns(u, l)
      /\ value[l] = 1 /\ holder[l] = NULL
    BY SMT, LockView
<1>4. \A u \in Thread, m \in Lock : Owns(u, m)' <=> (Owns(u, m) \/ (u = t /\ m = l))
    BY SMT, <1>2 DEF Owns
<1>5. MutualExclusion'
    <2> SUFFICES ASSUME NEW m \in Lock
                 PROVE  /\ \A u, v \in Thread : Owns(u, m)' /\ Owns(v, m)' => u = v
                        /\ value'[m] = IF \E u \in Thread : Owns(u, m)' THEN 0 ELSE 1
                        /\ holder'[m] \in Thread \cup {NULL}
                        /\ \A u \in Thread : holder'[m] = u => Owns(u, m)'
        BY MutexAfter
    <2>1. CASE m = l
        BY SMTT(40), <1>2, <1>3, <1>4, <2>1
    <2>2. CASE m # l
        BY SMTT(40), <1>2, <1>4, <2>2, LockView
    <2> QED
        BY <2>1, <2>2
<1>6. LockFields'
    BY SMTT(40), <1>2, <1>3, LockView DEF LockFields, Owns
<1>7. OwnersTake(t, l)
    BY <1>3, <1>4 DEF Acquired, OwnersTake
<1> QED
    BY <1>5, <1>6, <1>7 DEF LocksOK, OwnersMove

\* Every step keeps the lock fields and mutual exclusion, and moves the owners
\* as OwnersMove says.
LEMMA LockStep ==
    ASSUME IInv, Next
    PROVE  LocksOK
<1>1. /\ value \in [Sema -> Nat] /\ Lock \subseteq Sema /\ Thread \subseteq Sema
      /\ Semaphore \subseteq Sema
      /\ holder \in [Lock -> Thread \cup {NULL}]
      /\ waiting_lock \in [Thread -> Lock \cup {NULL}] /\ locks \in [Thread -> SUBSET Lock]
      /\ pc \in [Thread -> PC] /\ arg \in [Thread -> Sema \cup Condition \cup {NULL}]
      /\ cond_waiters \in [Condition -> Seq(Thread)] /\ captured \in [Thread -> Priority]
    BY DEF IInv, TypeOK, Sema
<1>2. Lock \cap Semaphore = {} /\ Lock \cap Thread = {} /\ NULL \notin Lock
    BY SynchAssumption
<1>3. ASSUME NEW t \in Thread, NEW where, NEW what, Goto(t, where, what)
      PROVE  \A u \in Thread : /\ pc'[u] = IF u = t THEN where ELSE pc[u]
                               /\ arg'[u] = IF u = t THEN what ELSE arg[u]
    BY <1>1, <1>3 DEF Goto
<1>4. ASSUME NEW t \in Thread, NEW l \in Lock, lock_acquire(t, l) PROVE LocksOK
    <2> DEFINE path == DonationPath(l, [waiting_lock EXCEPT ![t] = l])
               pri == PriorityAfter(priority[t], path)
               maxp == MaxPriorityAfter(priority[t], path)
    <2>1. pc[t] \in {"run", "acquire"} /\ holder[l] # t
        BY <1>4 DEF lock_acquire
    <2>2. waiting_lock[t] = NULL
        BY <2>1, LockView
    <2>3. CASE value[l] > 0
        <3>1. Acquired(t, l, pri, maxp)
            BY ZenonT(40), <1>4, <2>3 DEF lock_acquire
        <3> HIDE DEF pri, maxp
        <3> QED
            BY <2>1, <2>2, <2>3, <3>1, LockTaken
    <2>4. CASE ~ (value[l] > 0)
        <3>1. WaitOn(t, l, pri)
            BY ZenonT(40), <1>4, <2>4 DEF lock_acquire
        <3> HIDE DEF pri, maxp
        <3>2. /\ waiting_lock' = [waiting_lock EXCEPT ![t] = l]
              /\ UNCHANGED <<locks, holder, value>>
              /\ \A u \in Thread : /\ pc'[u] = IF u = t THEN "down" ELSE pc[u]
                                   /\ arg'[u] = IF u = t THEN l ELSE arg[u]
            BY ZenonT(40), <1>3, <1>4, <2>4, <3>1 DEF lock_acquire, WaitOn
        <3>3. \A u \in Thread, m \in Lock : Owns(u, m)' <=> Owns(u, m)
            BY <2>1, <3>2 DEF Owns
        <3>4. MutualExclusion'
            BY <3>2, <3>3, LockView, MutexAfter
        <3>5. \A u \in Thread : waiting_lock'[u] = IF u = t THEN l ELSE waiting_lock[u]
            BY <1>1, <3>2
        <3>6. LockFields'
            BY SMTT(40), <2>1, <3>2, <3>5, LockView DEF LockFields
        <3>7. ~Owns(t, l)
            BY <2>1, LockView DEF Owns
        <3>8. \E u \in Thread : Owns(u, l)
            BY SMT, <2>4, LockView
        <3>9. OwnersWait(t, l)
            BY <2>2, <3>2, <3>3, <3>7, <3>8 DEF OwnersWait
        <3> QED
            BY <3>4, <3>6, <3>9 DEF LocksOK, OwnersMove
    <2> QED
        BY <2>3, <2>4
<1>5. ASSUME NEW t \in Thread, NEW l \in Lock, lock_release(t, l) PROVE LocksOK
    <2>1. /\ pc[t] \in {"run", "release"} /\ holder[l] = t /\ UNCHANGED <<value, holder, waiting_lock>>
          /\ \A u \in Thread : locks'[u] = IF u = t THEN locks[t] \ {l} ELSE locks[u]
          /\ \A u \in Thread : /\ pc'[u] = IF u = t THEN "store" ELSE pc[u]
                               /\ arg'[u] = IF u = t THEN l ELSE arg[u]
        BY ZenonT(40), <1>1, <1>3, <1>5 DEF lock_release, MayRelease
    <2>2. l \in locks[t]
        BY <2>1, LockView
    <2>3. \A u \in Thread, m \in Lock : Owns(u, m)' <=> Owns(u, m)
        BY ZenonT(40), <2>1, <2>2 DEF Owns
    <2>4. MutualExclusion'
        BY ZenonT(40), <2>1, <2>3, LockView, MutexAfter
    <2>5. LockFields'
        BY SMT, <2>1, <2>2, LockView DEF LockFields
    <2> QED
        BY <2>1, <2>3, <2>4, <2>5 DEF LocksOK, OwnersMove, OwnersKept
<1>6. ASSUME NEW t \in Thread, NEW l \in TryLock, lock_try_acquire(t, l) PROVE LocksOK
    <2>1. /\ l \in Lock /\ value[l] > 0 /\ pc[t] = "run"
          /\ UNCHANGED <<locks, holder, waiting_lock>>
          /\ \A m \in Lock : value'[m] = IF m = l THEN value[l] - 1 ELSE value[m]
          /\ \A u \in Thread : /\ pc'[u] = IF u = t THEN "try" ELSE pc[u]
                               /\ arg'[u] = IF u = t THEN l ELSE arg[u]
        BY <1>1, <1>3, <1>6, SynchAssumption DEF lock_try_acquire, CanTryDown, TakeSema
    <2>2. /\ \A u \in Thread : ~Owns(u, l)
          /\ value[l] = 1 /\ holder[l] = NULL
        BY SMT, <2>1, LockView
    <2>3. \A u \in Thread, m \in Lock : Owns(u, m)' <=> (Owns(u, m) \/ (u = t /\ m = l))
        BY <2>1 DEF Owns
    <2>4. ASSUME NEW m \in Lock
          PROVE  /\ \A u, v \in Thread : Owns(u, m)' /\ Owns(v, m)' => u = v
                 /\ value'[m] = IF \E u \in Thread : Owns(u, m)' THEN 0 ELSE 1
                 /\ holder'[m] \in Thread \cup {NULL}
                 /\ \A u \in Thread : holder'[m] = u => Owns(u, m)'
        <3>1. CASE m = l
            BY SMT, <2>1, <2>2, <2>3, <3>1, LockView
        <3>2. CASE m # l
            BY ZenonT(40), <2>1, <2>3, <3>2, LockView
        <3> QED
            BY <3>1, <3>2
    <2>5. MutualExclusion'
        BY <2>4, MutexAfter
    <2>6. LockFields'
        BY SMT, <2>1, LockView DEF LockFields
    <2>7. waiting_lock[t] = NULL /\ waiting_lock' = [waiting_lock EXCEPT ![t] = NULL]
        BY SMT, <1>1, <2>1, LockView
    <2>8. OwnersTake(t, l)
        BY <2>2, <2>3, <2>7 DEF OwnersTake
    <2> QED
        BY <2>1, <2>5, <2>6, <2>8 DEF LocksOK, OwnersMove
<1>7. ASSUME NEW t \in Thread, lock_try_holder(t) PROVE LocksOK
    <2>1. arg[t] \in Lock \ locks[t] /\ pc[t] = "try"
        BY <1>7, LockView DEF lock_try_holder
    <2>2. /\ UNCHANGED <<value, waiting_lock>>
          /\ \A m \in Lock : holder'[m] = IF m = arg[t] THEN t ELSE holder[m]
          /\ \A u \in Thread : locks'[u] = IF u = t THEN locks[t] \cup {arg[t]} ELSE locks[u]
          /\ \A u \in Thread : /\ pc'[u] = IF u = t THEN "run" ELSE pc[u]
                               /\ arg'[u] = IF u = t THEN NULL ELSE arg[u]
        BY <1>1, <1>3, <1>7, <2>1 DEF lock_try_holder
    <2>3. Owns(t, arg[t])
        BY <2>1 DEF Owns
    <2>4. \A u \in Thread, m \in Lock : Owns(u, m)' <=> Owns(u, m)
        BY SMTT(40), <2>1, <2>2 DEF Owns
    <2>5. MutualExclusion'
        BY SMT, <2>1, <2>2, <2>3, <2>4, LockView, MutexAfter
    <2>6. \A u \in Thread : holder[arg[t]] = u => u = t
        BY SMT, <2>1, <2>3, LockView
    <2>7. LockFields'
        BY SMTT(40), <2>1, <2>2, <2>6, LockView DEF LockFields
    <2> QED
        BY <2>2, <2>4, <2>5, <2>7 DEF LocksOK, OwnersMove, OwnersKept
<1>8. ASSUME NEW t \in Thread, lock_release_store(t) PROVE LocksOK
    <2>1. /\ pc[t] = "store" /\ UNCHANGED <<value, holder, waiting_lock, locks>>
          /\ \A u \in Thread : /\ pc'[u] = IF u = t THEN "holder" ELSE pc[u]
                               /\ arg'[u] = arg[u]
        BY ZenonT(40), <1>3, <1>8 DEF lock_release_store
    <2>2. \A u \in Thread, m \in Lock : Owns(u, m)' <=> Owns(u, m)
        BY <2>1 DEF Owns
    <2>3. MutualExclusion'
        BY <2>1, <2>2, LockView, MutexAfter
    <2>4. LockFields'
        BY SMT, <2>1, LockView DEF LockFields
    <2> QED
        BY <2>1, <2>2, <2>3, <2>4 DEF LocksOK, OwnersMove, OwnersKept
<1>9. ASSUME NEW t \in Thread, lock_release_holder(t) PROVE LocksOK
    <2>1. arg[t] \in Lock \ locks[t] /\ pc[t] = "holder"
        BY <1>9, LockView DEF lock_release_holder
    <2>2. /\ UNCHANGED <<value, waiting_lock, locks>>
          /\ \A m \in Lock : holder'[m] = IF m = arg[t] THEN NULL ELSE holder[m]
          /\ \A u \in Thread : /\ pc'[u] = IF u = t THEN "up" ELSE pc[u]
                               /\ arg'[u] = arg[u]
        BY <1>1, <1>3, <1>9, <2>1 DEF lock_release_holder
    <2>3. \A u \in Thread, m \in Lock : Owns(u, m)' <=> Owns(u, m)
        BY <2>1, <2>2 DEF Owns
    <2>4. MutualExclusion'
        BY SMT, <2>1, <2>2, <2>3, LockView, MutexAfter
    <2>5. holder[arg[t]] = t
        BY <2>1, LockView
    <2>6. LockFields'
        BY SMT, <2>1, <2>2, <2>5, LockView DEF LockFields
    <2> QED
        BY <2>2, <2>3, <2>4, <2>6 DEF LocksOK, OwnersMove, OwnersKept
<1>10. ASSUME NEW t \in Thread, lock_release_up(t) PROVE LocksOK
    <2>1. arg[t] \in Lock \ locks[t] /\ pc[t] = "up"
        BY <1>10, LockView DEF lock_release_up
    <2>2. /\ UNCHANGED <<holder, waiting_lock, locks>>
          /\ value' = [value EXCEPT ![arg[t]] = value[arg[t]] + 1]
          /\ \A u \in Thread : /\ pc'[u] = IF u = t THEN "reset" ELSE pc[u]
                               /\ arg'[u] = IF u = t THEN NULL ELSE arg[u]
        BY ZenonT(40), <1>3, <1>10 DEF lock_release_up, sema_up
    <2>3. \A m \in Lock : value'[m] = IF m = arg[t] THEN value[m] + 1 ELSE value[m]
        BY <1>1, <2>2
    <2>4. Owns(t, arg[t]) /\ value[arg[t]] = 0
        BY ZenonT(40), <2>1, LockView DEF Owns
    <2>5. \A u \in Thread, m \in Lock :
              Owns(u, m)' <=> (Owns(u, m) /\ ~ (u = t /\ m = arg[t]))
        BY <2>1, <2>2 DEF Owns
    <2>6. \A u \in Thread : holder[arg[t]] # u
        <3> SUFFICES ASSUME NEW u \in Thread, holder[arg[t]] = u PROVE FALSE
            OBVIOUS
        <3>1. u = t
            BY ZenonT(40), <2>1, <2>4, LockView
        <3> QED
            BY <2>1, <3>1, LockView
    <2>7. ASSUME NEW m \in Lock
          PROVE  /\ \A u, v \in Thread : Owns(u, m)' /\ Owns(v, m)' => u = v
                 /\ value'[m] = IF \E u \in Thread : Owns(u, m)' THEN 0 ELSE 1
                 /\ holder'[m] \in Thread \cup {NULL}
                 /\ \A u \in Thread : holder'[m] = u => Owns(u, m)'
        <3>1. CASE m = arg[t]
            <4>1. \A u \in Thread : ~Owns(u, m)'
                BY <2>4, <2>5, <3>1, LockView
            <4> QED
                BY SMTT(40), <2>2, <2>3, <2>4, <2>6, <3>1, <4>1, LockView
        <3>2. CASE m # arg[t]
            BY SMTT(40), <2>2, <2>3, <2>5, <3>2, LockView
        <3> QED
            BY <3>1, <3>2
    <2>8. MutualExclusion'
        BY <2>7, MutexAfter
    <2>9. LockFields'
        BY SMTT(40), <2>1, <2>2, LockView DEF LockFields
    <2>10. OwnersRelease(t, arg[t])
        BY <2>1, <2>2, <2>4, <2>5, LockView DEF OwnersRelease
    <2> QED
        BY <2>1, <2>8, <2>9, <2>10 DEF LocksOK, OwnersMove
<1>11. ASSUME NEW t \in Thread, lock_release_reset(t) PROVE LocksOK
    <2>1. /\ pc[t] = "reset" /\ UNCHANGED <<value, holder, waiting_lock, locks>>
          /\ \A u \in Thread : /\ pc'[u] = IF u = t THEN IF cond[t] = NULL THEN "run" ELSE "wait"
                                          ELSE pc[u]
                               /\ arg'[u] = IF u = t THEN NULL ELSE arg[u]
        BY SMT, <1>3, <1>11 DEF lock_release_reset
    <2> QED
        BY <2>1, LocksKept
<1>12. ASSUME NEW t \in Thread, NEW s \in Semaphore \cup {t}, sema_down(t, s) PROVE LocksOK
    <2>1. /\ pc[t] \in {"run", "wait"} /\ s \notin Lock /\ s \in Sema
          /\ UNCHANGED <<holder, waiting_lock, locks>>
        BY <1>1, <1>2, <1>12 DEF sema_down
    <2>2. CASE value[s] > 0
        <3>1. /\ value' = [value EXCEPT ![s] = value[s] - 1]
              /\ Goto(t, IF s = t THEN "acquire" ELSE "run", NULL)
            BY <1>12, <2>2 DEF sema_down, TakeSema
        <3>2. /\ \A m \in Lock : value'[m] = value[m]
              /\ \A u \in Thread : u # t => pc'[u] = pc[u] /\ arg'[u] = arg[u]
              /\ pc'[t] \in {"acquire", "run"}
            BY <1>1, <1>3, <2>1, <3>1
        <3> QED
            BY <2>1, <3>2, LocksKept
    <2>3. CASE ~ (value[s] > 0)
        <3>1. value' = value /\ Goto(t, "down", s)
            BY ZenonT(40), <1>12, <2>3 DEF sema_down, WaitOn
        <3>2. /\ \A u \in Thread : u # t => pc'[u] = pc[u] /\ arg'[u] = arg[u]
              /\ pc'[t] = "down" /\ arg'[t] = s
            BY ZenonT(40), <1>3, <3>1
        <3> QED
            BY <2>1, <3>1, <3>2, LocksKept
    <2> QED
        BY <2>2, <2>3
<1>13. ASSUME NEW t \in Thread, sema_down_resume(t) PROVE LocksOK
    <2>1. pc[t] = "down"
        BY <1>13 DEF sema_down_resume
    <2>2. arg[t] \in Sema
        BY <1>1, <2>1 DEF IInv, Where
    <2>3. CASE MustWait(arg[t])
        <3>1. /\ value' = value /\ Goto(t, "down", arg[t])
              /\ UNCHANGED <<holder, waiting_lock, locks>>
            BY ZenonT(40), <1>13, <2>3 DEF sema_down_resume, WaitOn
        <3>2. \A u \in Thread : pc'[u] = pc[u] /\ arg'[u] = arg[u]
            BY SMT, <1>3, <2>1, <3>1
        <3> QED
            BY <3>1, <3>2, LocksKept
    <2>4. CASE ~MustWait(arg[t]) /\ arg[t] \in Lock
        <3>1. Acquired(t, arg[t], priority, max_priority)
            BY <1>13, <2>4 DEF sema_down_resume
        <3>2. value[arg[t]] > 0
            BY SMTT(40), <1>1, <2>2, <2>4 DEF MustWait
        <3>3. waiting_lock[t] = arg[t]
            BY ZenonT(40), <2>1, <2>4, LockView
        <3> QED
            BY <2>1, <2>4, <3>1, <3>2, <3>3, LockTaken
    <2>5. CASE ~MustWait(arg[t]) /\ arg[t] \notin Lock
        <3>1. /\ value' = [value EXCEPT ![arg[t]] = value[arg[t]] - 1]
              /\ Goto(t, IF arg[t] = t THEN "acquire" ELSE "run", NULL)
              /\ UNCHANGED <<holder, waiting_lock, locks>>
            BY ZenonT(40), <1>13, <2>5 DEF sema_down_resume, TakeSema
        <3>2. /\ \A m \in Lock : value'[m] = value[m]
              /\ \A u \in Thread : u # t => pc'[u] = pc[u] /\ arg'[u] = arg[u]
              /\ pc'[t] \in {"acquire", "run"}
            BY <1>1, <1>3, <2>2, <2>5, <3>1
        <3> QED
            BY <2>1, <2>5, <3>1, <3>2, LocksKept
    <2> QED
        BY <2>3, <2>4, <2>5
<1>14. ASSUME UNCHANGED <<holder, waiting_lock, locks, pc, arg>>,
              \A m \in Lock : value'[m] = value[m]
       PROVE  LocksOK
    <2>1. \A u \in Thread, m \in Lock : Owns(u, m)' <=> Owns(u, m)
        BY <1>14 DEF Owns
    <2>2. MutualExclusion'
        BY <1>14, <2>1, LockView, MutexAfter
    <2>3. LockFields'
        BY ZenonT(40), <1>14, LockView DEF LockFields
    <2> QED
        BY ZenonT(40), <1>14, <2>1, <2>2, <2>3 DEF LocksOK, OwnersMove, OwnersKept
<1>15. ASSUME NEW s \in Sema \ Lock, sema_up(s) PROVE \A m \in Lock : value'[m] = value[m]
    BY <1>1, <1>15 DEF sema_up
<1>16. ASSUME NEW t \in Thread, NEW s \in Semaphore, sema_try_down(t, s) PROVE LocksOK
    <2>1. \A m \in Lock : value'[m] = value[m]
        BY <1>1, <1>2, <1>16 DEF sema_try_down, TakeSema
    <2> QED
        BY ZenonT(40), <1>14, <1>16, <2>1 DEF sema_try_down
<1>17. ASSUME NEW t \in Thread, NEW s \in Semaphore, Up(t, s) PROVE LocksOK
    BY <1>1, <1>2, <1>14, <1>15, <1>17 DEF Up
<1>18. ASSUME NEW s \in Semaphore, InterruptUp(s) PROVE LocksOK
    BY <1>1, <1>2, <1>14, <1>15, <1>18 DEF InterruptUp
<1>19. ASSUME Preempt PROVE LocksOK
    BY <1>14, <1>19 DEF Preempt, synchVars
<1>20. ASSUME NEW t \in Thread, NEW p \in NewPriority, SetPriority(t, p) PROVE LocksOK
    BY <1>14, <1>20 DEF SetPriority, synchVars
<1>21. ASSUME NEW t \in Thread, NEW c \in Condition, cond_wait(t, c) PROVE LocksOK
    <2>1. /\ pc[t] = "run" /\ value' = [value EXCEPT ![t] = 0]
          /\ Goto(t, "release", NULL) /\ UNCHANGED <<holder, waiting_lock, locks>>
        BY <1>21 DEF cond_wait
    <2>2. /\ \A m \in Lock : value'[m] = value[m]
          /\ \A u \in Thread : u # t => pc'[u] = pc[u] /\ arg'[u] = arg[u]
          /\ pc'[t] = "release"
        BY SMT, <1>1, <1>2, <1>3, <2>1
    <2> QED
        BY <2>1, <2>2, LocksKept
<1>22. ASSUME NEW t \in Thread, NEW c \in Condition, SignalOne(t, c)
       PROVE  \A m \in Lock : value'[m] = value[m]
    <2> DEFINE sorted == list_sort(cond_waiters[c], captured)
    <2>1. cond_waiters[c] # <<>> /\ sema_up(list_front(sorted))
        BY <1>22 DEF SignalOne
    <2>2. \A x \in Thread : captured[x] \in Int
        BY ZenonT(40), <1>1, PriorityIsInt
    <2>3. sorted \in Seq(Thread) /\ sorted # <<>>
        BY <1>1, <2>1, <2>2, SortElements
    <2>4. list_front(sorted) \in Thread
        BY <2>3, FrontRest
    <2> HIDE DEF sorted
    <2> QED
        BY <1>1, <1>2, <1>15, <2>1, <2>4
<1>23. ASSUME NEW t \in Thread, NEW c \in Condition, cond_signal(t, c) PROVE LocksOK
    BY <1>14, <1>22, <1>23 DEF cond_signal
<1>24. ASSUME NEW t \in Thread, NEW c \in Condition, cond_broadcast(t, c) PROVE LocksOK
    <2>1. /\ pc[t] \in {"run", "broadcast"} /\ UNCHANGED <<holder, waiting_lock, locks>>
          /\ Goto(t, "broadcast", c) \/ Goto(t, "run", NULL)
        BY <1>24 DEF cond_broadcast
    <2>2. \A m \in Lock : value'[m] = value[m]
        BY <1>22, <1>24 DEF cond_broadcast
    <2>3. /\ \A u \in Thread : u # t => pc'[u] = pc[u] /\ arg'[u] = arg[u]
          /\ pc'[t] \in {"broadcast", "run"}
        BY <1>3, <2>1
    <2> QED
        BY <2>1, <2>2, <2>3, LocksKept
<1> QED
    BY <1>4, <1>5, <1>6, <1>7, <1>8, <1>9, <1>10, <1>11, <1>12, <1>13, <1>16, <1>17,
       <1>18, <1>19, <1>20, <1>21, <1>23, <1>24 DEF Next

-------------------------------------------------------------------------------
(***************************************************************************)
(* The scheduler.                                                          *)
(***************************************************************************)
Scheduled == SchedulerOK' /\ ReadyOrdered' /\ HighestRuns' /\ WaitersAreBlocked'

\* A step of the running thread that does not reschedule.
LEMMA SchedulerKept ==
    ASSUME IInv, UNCHANGED <<status, priority, ready_list, current>>,
           \A x \in Sema : /\ Elements(waiters'[x]) = Elements(waiters[x])
                           /\ Distinct(waiters'[x]),
           \A u \in Thread : u # current => pc'[u] = pc[u] /\ arg'[u] = arg[u]
    PROVE  Scheduled
<1>1. WaitersAreBlocked'
    BY WaitersKept
<1>2. SchedulerOK' /\ ReadyOrdered' /\ HighestRuns'
    BY DEF IInv, SchedulerOK, OneRunning, QueueIsReady, ReadyOrdered, HighestRuns, Ordered
<1> QED
    BY <1>1, <1>2 DEF Scheduled

\* A step that reschedules.
LEMMA SchedulerNew ==
    ASSUME Consistent(priority'), WaitersAreBlocked'
    PROVE  Scheduled
<1>1. SchedulerOK'
    BY DEF Consistent
<1>2. ReadyOrdered' /\ HighestRuns'
    BY DEF Consistent, ReadyOrdered, HighestRuns
<1> QED
    BY <1>1, <1>2 DEF Scheduled

\* Every step keeps the scheduler and the waiters consistent.
LEMMA SchedStep ==
    ASSUME IInv, Next
    PROVE  Scheduled
<1>1. /\ value \in [Sema -> Nat] /\ Lock \subseteq Sema /\ Thread \subseteq Sema
      /\ Semaphore \subseteq Sema
      /\ waiters \in [Sema -> Seq(Thread)]
      /\ max_priority \in [Lock -> Priority]
      /\ priority \in [AllThread -> Priority] /\ base_priority \in [AllThread -> Priority]
      /\ pc \in [Thread -> PC] /\ arg \in [Thread -> Sema \cup Condition \cup {NULL}]
      /\ cond_waiters \in [Condition -> Seq(Thread)] /\ captured \in [Thread -> Priority]
      /\ TypeOK /\ Thread \subseteq AllThread
    BY DEF IInv, TypeOK, ThreadTypeOK, Sema, AllThread
<1>2. \A x \in Sema : Distinct(waiters[x])
    BY ZenonT(40) DEF IInv, WaitersAreBlocked
<1>3. ASSUME NEW t \in Thread, NEW where, NEW what, Goto(t, where, what)
      PROVE  \A u \in Thread : u # t => pc'[u] = pc[u] /\ arg'[u] = arg[u]
    BY <1>1, <1>3 DEF Goto
<1>4. ASSUME NEW t \in Thread, NEW l \in Lock, lock_acquire(t, l) PROVE Scheduled
    <2> DEFINE path == DonationPath(l, [waiting_lock EXCEPT ![t] = l])
               pri == PriorityAfter(priority[t], path)
               maxp == MaxPriorityAfter(priority[t], path)
    <2>1. pri \in [AllThread -> Priority] /\ maxp \in [Lock -> Priority]
        BY <1>1, DonationOK
    <2>2. current = t /\ priority' = pri
        BY ZenonT(40), <1>4 DEF lock_acquire
    <2>3. CASE value[l] > 0
        <3>1. Acquired(t, l, pri, maxp) /\ UNCHANGED <<status, ready_list, current>>
            BY ZenonT(40), <1>4, <2>3 DEF lock_acquire
        <3>2. holder[l] = NULL
            BY SMT, <2>3, LockView
        <3>3. pri = priority
            BY <1>1, <3>2, FreeLockDonatesNothing
        <3> HIDE DEF pri, maxp
        <3>4. \A x \in Sema : /\ Elements(waiters'[x]) = Elements(waiters[x])
                              /\ Distinct(waiters'[x])
            BY <2>1, <2>3, <3>1, AcquiredOK
        <3>5. Goto(t, "run", NULL)
            BY <3>1 DEF Acquired
        <3> QED
            BY SMTT(40), SMTT(40), <1>3, <2>2, <3>1, <3>3, <3>4, <3>5, SchedulerKept
    <2>4. CASE ~ (value[l] > 0)
        <3>1. WaitOn(t, l, pri)
            BY ZenonT(40), <1>4, <2>4 DEF lock_acquire
        <3> HIDE DEF pri, maxp
        <3>2. Consistent(pri) /\ WaitersAreBlocked'
            BY <1>1, <2>1, <2>2, <3>1, WaitOnOK
        <3> QED
            BY <2>2, <3>2, SchedulerNew
    <2> QED
        BY <2>3, <2>4
<1>5. ASSUME NEW t \in Thread, current = t, NEW where, NEW what, Goto(t, where, what),
             UNCHANGED <<status, priority, ready_list, current, waiters>>
      PROVE  Scheduled
    BY <1>2, <1>3, <1>5, SchedulerKept
<1>6. ASSUME NEW s \in Sema, sema_up(s), UNCHANGED priority,
             \A u \in Thread : u # current => pc'[u] = pc[u] /\ arg'[u] = arg[u]
      PROVE  Scheduled
    <2>1. Consistent(priority') /\ WaitersAreBlocked'
        BY <1>6, SemaUpOK, UpKeepsWaiters
    <2> QED
        BY <2>1, SchedulerNew
<1>7. ASSUME NEW t \in Thread, NEW p \in Priority, current = t, thread_set_priority(t, p),
             UNCHANGED waiters,
             \A u \in Thread : u # current => pc'[u] = pc[u] /\ arg'[u] = arg[u]
      PROVE  Scheduled
    <2>1. /\ SchedulerInv'
          /\ \A u \in Thread : status'[u] = "BLOCKED" <=> status[u] = "BLOCKED"
        BY <1>7, IInvScheduler, SetPriorityOK
    <2>2. WaitersAreBlocked'
        BY <1>2, <1>7, <2>1, WaitersKept
    <2> QED
        BY <2>1, <2>2 DEF SchedulerInv, Scheduled, ReadyOrdered
<1>8. ASSUME NEW t \in Thread, NEW s \in Sema, current = t, WaitOn(t, s, priority),
             UNCHANGED priority
      PROVE  Scheduled
    <2>1. Consistent(priority') /\ WaitersAreBlocked'
        BY <1>1, <1>8, WaitOnOK
    <2> QED
        BY <2>1, SchedulerNew
<1>9. ASSUME NEW t \in Thread, NEW l \in Lock, lock_release(t, l) PROVE Scheduled
    BY <1>5, <1>9 DEF lock_release, threadVars
<1>10. ASSUME NEW t \in Thread, NEW l \in TryLock, lock_try_acquire(t, l) PROVE Scheduled
    BY <1>5, <1>10 DEF lock_try_acquire, threadVars
<1>11. ASSUME NEW t \in Thread, lock_try_holder(t) PROVE Scheduled
    BY ZenonT(40), <1>5, <1>11 DEF lock_try_holder, threadVars
<1>12. ASSUME NEW t \in Thread, lock_release_store(t) PROVE Scheduled
    BY <1>5, <1>12 DEF lock_release_store
<1>13. ASSUME NEW t \in Thread, lock_release_holder(t) PROVE Scheduled
    BY <1>5, <1>13 DEF lock_release_holder, threadVars
<1>14. ASSUME NEW t \in Thread, lock_release_up(t) PROVE Scheduled
    <2>1. /\ sema_up(arg[t]) /\ UNCHANGED priority /\ current = t
          /\ Goto(t, "reset", NULL) /\ pc[t] = "up"
        BY <1>14 DEF lock_release_up
    <2>2. arg[t] \in Sema
        BY ZenonT(40), <1>1, <2>1, LockView
    <2> QED
        BY <1>3, <1>6, <2>1, <2>2
<1>15. ASSUME NEW t \in Thread, lock_release_reset(t) PROVE Scheduled
    <2>1. /\ current = t /\ thread_set_priority(t, base_priority[t]) /\ UNCHANGED waiters
          /\ Goto(t, IF cond[t] = NULL THEN "run" ELSE "wait", NULL)
        BY <1>15 DEF lock_release_reset
    <2> QED
        BY ZenonT(40), <1>1, <1>3, <1>7, <2>1
<1>16. ASSUME NEW t \in Thread, NEW s \in Semaphore \cup {t}, sema_down(t, s) PROVE Scheduled
    <2>1. s \in Sema /\ current = t /\ UNCHANGED priority
        BY <1>1, <1>16 DEF sema_down
    <2>2. CASE value[s] > 0
        <3>1. /\ Goto(t, IF s = t THEN "acquire" ELSE "run", NULL)
              /\ UNCHANGED <<waiters, status, ready_list, current>>
            BY <1>16, <2>2 DEF sema_down
        <3> QED
            BY <1>5, <2>1, <3>1
    <2>3. CASE ~ (value[s] > 0)
        BY <1>8, <1>16, <2>1, <2>3 DEF sema_down
    <2> QED
        BY <2>2, <2>3
<1>17. ASSUME NEW t \in Thread, sema_down_resume(t) PROVE Scheduled
    <2>1. current = t /\ pc[t] = "down" /\ UNCHANGED priority
        BY ZenonT(40), <1>17 DEF sema_down_resume
    <2>2. arg[t] \in Sema
        BY <1>1, <2>1 DEF IInv, Where
    <2>3. CASE MustWait(arg[t])
        BY <1>8, <1>17, <2>1, <2>2, <2>3 DEF sema_down_resume
    <2>4. CASE ~MustWait(arg[t]) /\ arg[t] \in Lock
        <3>1. /\ Acquired(t, arg[t], priority, max_priority)
              /\ UNCHANGED <<status, ready_list, current>>
            BY <1>17, <2>4 DEF sema_down_resume
        <3>2. value[arg[t]] > 0
            BY SMT, <1>1, <2>2, <2>4 DEF MustWait
        <3>3. \A x \in Sema : /\ Elements(waiters'[x]) = Elements(waiters[x])
                              /\ Distinct(waiters'[x])
            BY ZenonT(40), <1>1, <2>4, <3>1, <3>2, AcquiredOK
        <3>4. Goto(t, "run", NULL)
            BY <3>1 DEF Acquired
        <3> QED
            BY <1>3, <2>1, <3>1, <3>3, <3>4, SchedulerKept
    <2>5. CASE ~MustWait(arg[t]) /\ arg[t] \notin Lock
        <3>1. /\ Goto(t, IF arg[t] = t THEN "acquire" ELSE "run", NULL)
              /\ UNCHANGED <<waiters, status, ready_list, current>>
            BY ZenonT(40), <1>17, <2>5 DEF sema_down_resume
        <3> QED
            BY <1>5, <2>1, <3>1
    <2> QED
        BY <2>3, <2>4, <2>5
<1>18. ASSUME NEW t \in Thread, NEW s \in Semaphore, sema_try_down(t, s) PROVE Scheduled
    BY ZenonT(40), <1>2, <1>18, SchedulerKept DEF sema_try_down, threadVars
<1>19. ASSUME NEW t \in Thread, NEW s \in Semaphore, Up(t, s) PROVE Scheduled
    BY <1>1, <1>6, <1>19 DEF Up
<1>20. ASSUME NEW s \in Semaphore, InterruptUp(s) PROVE Scheduled
    BY <1>1, <1>6, <1>20 DEF InterruptUp
<1>21. ASSUME Preempt PROVE Scheduled
    <2>1. /\ thread_yield(ready_list, status, priority)
          /\ UNCHANGED <<priority, waiters, pc, arg>>
        BY <1>21 DEF Preempt, synchVars
    <2>2. /\ Consistent(priority')
          /\ \A u \in Thread : status'[u] = "BLOCKED" <=> status[u] = "BLOCKED"
        BY <2>1, PlainYieldOK
    <2>3. WaitersAreBlocked'
        BY ZenonT(40), <1>2, <2>1, <2>2, WaitersKept
    <2> QED
        BY <2>2, <2>3, SchedulerNew
<1>22. ASSUME NEW t \in Thread, NEW p \in NewPriority, SetPriority(t, p) PROVE Scheduled
    BY <1>7, <1>22, SynchAssumption DEF SetPriority, synchVars
<1>23. ASSUME NEW t \in Thread, NEW c \in Condition, cond_wait(t, c) PROVE Scheduled
    BY <1>5, <1>23 DEF cond_wait, threadVars
<1>24. ASSUME NEW c \in Condition, NEW t \in Thread, SignalOne(t, c)
       PROVE  \E s \in Sema : sema_up(s)
    <2> DEFINE sorted == list_sort(cond_waiters[c], captured)
    <2>1. cond_waiters[c] # <<>> /\ sema_up(list_front(sorted))
        BY <1>24 DEF SignalOne
    <2>2. \A x \in Thread : captured[x] \in Int
        BY ZenonT(40), <1>1, PriorityIsInt
    <2>3. sorted \in Seq(Thread) /\ sorted # <<>>
        BY SMT, <1>1, <2>1, <2>2, SortElements
    <2>4. list_front(sorted) \in Thread
        BY <2>3, FrontRest
    <2> HIDE DEF sorted
    <2> QED
        BY <1>1, <2>1, <2>4
<1>25. ASSUME NEW t \in Thread, NEW c \in Condition, cond_signal(t, c) PROVE Scheduled
    <2>1. SignalOne(t, c) /\ UNCHANGED <<priority, pc, arg>>
        BY <1>25 DEF cond_signal
    <2>2. PICK s \in Sema : sema_up(s)
        BY <1>24, <2>1
    <2> QED
        BY <1>6, <2>1, <2>2
<1>26. ASSUME NEW t \in Thread, NEW c \in Condition, cond_broadcast(t, c) PROVE Scheduled
    <2>1. /\ SignalOne(t, c) /\ UNCHANGED priority /\ current = t
          /\ Goto(t, "broadcast", c) \/ Goto(t, "run", NULL)
        BY ZenonT(40), <1>26 DEF cond_broadcast
    <2>2. PICK s \in Sema : sema_up(s)
        BY <1>24, <2>1
    <2>3. \A u \in Thread : u # current => pc'[u] = pc[u] /\ arg'[u] = arg[u]
        BY <1>3, <2>1
    <2> QED
        BY <1>6, <2>1, <2>2, <2>3
<1> QED
    BY ZenonT(40), <1>4, <1>9, <1>10, <1>11, <1>12, <1>13, <1>14, <1>15, <1>16, <1>17, <1>18, <1>19,
       <1>20, <1>21, <1>22, <1>23, <1>25, <1>26 DEF Next

-------------------------------------------------------------------------------
(***************************************************************************)
(* Priorities.                                                             *)
(***************************************************************************)
LEMMA EarnedKept ==
    ASSUME IInv, UNCHANGED <<priority, base_priority>>,
           \A u \in Thread : pc'[u] \notin {"store", "holder", "up", "reset"} =>
              /\ pc[u] \notin {"store", "holder", "up", "reset"}
              /\ donated_priority'[u] = donated_priority[u]
    PROVE  PriorityEarned'
<1>1. PriorityEarned
    BY DEF IInv
<1> QED
    BY ZenonT(40), <1>1 DEF PriorityEarned, Releasing, Larger

\* thread_set_priority, of a thread or at the end of lock_release, leaves a
\* priority that is earned.
LEMMA EarnedAfterSet ==
    ASSUME IInv, NEW t \in Thread, NEW new \in Priority, thread_set_priority(t, new),
           \A u \in Thread : u # t => pc'[u] = pc[u]
    PROVE  PriorityEarned'
<1> DEFINE p == PriorityAfterSet(t, new)
<1>1. /\ priority \in [AllThread -> Priority] /\ base_priority \in [AllThread -> Priority]
      /\ donated_priority \in [AllThread -> Priority] /\ Thread \subseteq AllThread
      /\ PriorityEarned
    BY DEF IInv, TypeOK, ThreadTypeOK, AllThread
<1>2. /\ priority[t] \in Int /\ donated_priority[t] \in Int /\ new \in Int
    BY <1>1, PriorityIsInt
<1>3. new <= p /\ p <= Larger(new, donated_priority[t])
    BY SMT, <1>2 DEF PriorityAfterSet, Larger
<1>4. /\ base_priority' = [base_priority EXCEPT ![t] = new]
      /\ priority' = [priority EXCEPT ![t] = p]
      /\ donated_priority' = donated_priority
    BY ZenonT(40) DEF thread_set_priority
<1> HIDE DEF p
<1> SUFFICES ASSUME NEW u \in Thread
             PROVE  /\ base_priority'[u] <= priority'[u]
                    /\ ~Releasing(u)' =>
                          priority'[u] <= Larger(base_priority'[u], donated_priority'[u])
    BY DEF PriorityEarned, Larger
<1>5. CASE u = t
    BY <1>1, <1>3, <1>4, <1>5
<1>6. CASE u # t
    BY <1>1, <1>4, <1>6 DEF PriorityEarned, Releasing
<1> QED
    BY <1>5, <1>6

\* Every step keeps every priority earned.
LEMMA EarnedStep ==
    ASSUME IInv, Next
    PROVE  PriorityEarned'
<1>1. /\ priority \in [AllThread -> Priority] /\ base_priority \in [AllThread -> Priority]
      /\ donated_priority \in [AllThread -> Priority] /\ Thread \subseteq AllThread
      /\ pc \in [Thread -> PC] /\ arg \in [Thread -> Sema \cup Condition \cup {NULL}]
      /\ TypeOK /\ PriorityEarned
    BY DEF IInv, TypeOK, ThreadTypeOK, AllThread
<1>2. ASSUME NEW t \in Thread, NEW where, NEW what, Goto(t, where, what)
      PROVE  \A u \in Thread : pc'[u] = IF u = t THEN where ELSE pc[u]
    BY <1>1, <1>2 DEF Goto
<1>3. ASSUME NEW t \in Thread, NEW l \in Lock, lock_acquire(t, l) PROVE PriorityEarned'
    <2> DEFINE path == DonationPath(l, [waiting_lock EXCEPT ![t] = l])
               pri == PriorityAfter(priority[t], path)
               don == DonatedAfter(priority[t], path)
    <2>1. /\ pri \in [AllThread -> Priority] /\ don \in [AllThread -> Priority]
          /\ \A h \in Thread : /\ priority[h] <= pri[h]
                               /\ pri[h] = priority[h] \/ pri[h] <= don[h]
                               /\ donated_priority[h] <= don[h]
        BY <1>1, DonationOK
    <2>2. /\ priority' = pri /\ donated_priority' = don /\ UNCHANGED base_priority
          /\ pc[t] \in {"run", "acquire"}
        BY ZenonT(40), <1>3 DEF lock_acquire
    <2>3. Goto(t, "run", NULL) \/ Goto(t, "down", l)
        BY ZenonT(40), <1>3 DEF lock_acquire, Acquired, WaitOn
    <2>4. \A u \in Thread : u # t => pc'[u] = pc[u]
        BY <1>2, <2>3
    <2> HIDE DEF pri, don
    <2> SUFFICES ASSUME NEW u \in Thread
                 PROVE  /\ base_priority'[u] <= priority'[u]
                        /\ ~Releasing(u)' =>
                              priority'[u] <= Larger(base_priority'[u], donated_priority'[u])
        BY DEF PriorityEarned, Larger
    <2>5. /\ priority[u] \in Int /\ base_priority[u] \in Int /\ donated_priority[u] \in Int
          /\ pri[u] \in Int /\ don[u] \in Int
        BY ZenonT(40), <1>1, <2>1, PriorityIsInt
    <2>6. /\ base_priority[u] <= priority[u] /\ priority[u] <= pri[u]
          /\ pri[u] = priority[u] \/ pri[u] <= don[u]
          /\ donated_priority[u] <= don[u]
        BY <1>1, <2>1 DEF PriorityEarned
    <2>7. ~Releasing(u)' => ~Releasing(u)
        BY <2>2, <2>4 DEF Releasing
    <2>8. ~Releasing(u) => priority[u] <= Larger(base_priority[u], donated_priority[u])
        BY <1>1 DEF PriorityEarned
    <2> QED
        BY SMT, <2>2, <2>5, <2>6, <2>7, <2>8 DEF Larger
<1>4. ASSUME NEW t \in Thread, NEW where, NEW what, Goto(t, where, what),
             UNCHANGED <<priority, base_priority, donated_priority>>,
             \/ pc[t] \notin {"store", "holder", "up", "reset"}
             \/ where \in {"store", "holder", "up", "reset"}
      PROVE  PriorityEarned'
    BY <1>2, <1>4, EarnedKept
<1>5. ASSUME UNCHANGED <<priority, base_priority, donated_priority, pc>>
      PROVE  PriorityEarned'
    BY <1>5, EarnedKept
<1>6. ASSUME NEW t \in Thread, NEW l \in Lock, lock_release(t, l) PROVE PriorityEarned'
    BY <1>4, <1>6 DEF lock_release, threadVars
<1>7. ASSUME NEW t \in Thread, NEW l \in TryLock, lock_try_acquire(t, l) PROVE PriorityEarned'
    BY <1>4, <1>7 DEF lock_try_acquire, threadVars
<1>8. ASSUME NEW t \in Thread, lock_try_holder(t) PROVE PriorityEarned'
    BY ZenonT(40), <1>4, <1>8 DEF lock_try_holder, threadVars
<1>9. ASSUME NEW t \in Thread, lock_release_store(t) PROVE PriorityEarned'
    <2>1. /\ UNCHANGED <<priority, base_priority>> /\ Goto(t, "holder", arg[t])
          /\ donated_priority' = [donated_priority EXCEPT ![t] = saved[t]]
        BY <1>9 DEF lock_release_store
    <2>2. \A u \in Thread : u # t => /\ pc'[u] = pc[u]
                                     /\ donated_priority'[u] = donated_priority[u]
        BY <1>1, <1>2, <2>1
    <2>3. pc'[t] = "holder"
        BY <1>2, <2>1
    <2> QED
        BY <2>1, <2>2, <2>3, EarnedKept
<1>10. ASSUME NEW t \in Thread, lock_release_holder(t) PROVE PriorityEarned'
    BY <1>4, <1>10 DEF lock_release_holder, threadVars
<1>11. ASSUME NEW t \in Thread, lock_release_up(t) PROVE PriorityEarned'
    BY <1>4, <1>11 DEF lock_release_up
<1>12. ASSUME NEW t \in Thread, lock_release_reset(t) PROVE PriorityEarned'
    <2>1. /\ thread_set_priority(t, base_priority[t])
          /\ Goto(t, IF cond[t] = NULL THEN "run" ELSE "wait", NULL)
        BY <1>12 DEF lock_release_reset
    <2>2. base_priority[t] \in Priority /\ \A u \in Thread : u # t => pc'[u] = pc[u]
        BY <1>1, <1>2, <2>1
    <2> QED
        BY <2>1, <2>2, EarnedAfterSet
<1>13. ASSUME NEW t \in Thread, NEW s \in Semaphore \cup {t}, sema_down(t, s)
       PROVE  PriorityEarned'
    <2>1. \E where, what : Goto(t, where, what)
        BY ZenonT(40), <1>13 DEF sema_down, WaitOn
    <2>2. /\ pc[t] \notin {"store", "holder", "up", "reset"}
          /\ UNCHANGED <<priority, base_priority, donated_priority>>
        BY ZenonT(40), <1>13 DEF sema_down
    <2> QED
        BY <1>4, <2>1, <2>2
<1>14. ASSUME NEW t \in Thread, sema_down_resume(t) PROVE PriorityEarned'
    <2>1. \E where, what : Goto(t, where, what)
        BY ZenonT(40), <1>14 DEF sema_down_resume, WaitOn, Acquired
    <2>2. /\ pc[t] \notin {"store", "holder", "up", "reset"}
          /\ UNCHANGED <<priority, base_priority, donated_priority>>
        BY ZenonT(40), <1>14 DEF sema_down_resume
    <2> QED
        BY <1>4, <2>1, <2>2
<1>15. ASSUME NEW t \in Thread, NEW s \in Semaphore, sema_try_down(t, s) PROVE PriorityEarned'
    BY <1>5, <1>15 DEF sema_try_down, threadVars
<1>16. ASSUME NEW t \in Thread, NEW s \in Semaphore, Up(t, s) PROVE PriorityEarned'
    BY <1>5, <1>16 DEF Up
<1>17. ASSUME NEW s \in Semaphore, InterruptUp(s) PROVE PriorityEarned'
    BY <1>5, <1>17 DEF InterruptUp
<1>18. ASSUME Preempt PROVE PriorityEarned'
    BY <1>5, <1>18 DEF Preempt, synchVars
<1>19. ASSUME NEW t \in Thread, NEW p \in NewPriority, SetPriority(t, p) PROVE PriorityEarned'
    <2>1. p \in Priority /\ thread_set_priority(t, p) /\ UNCHANGED pc
        BY <1>19, SynchAssumption DEF SetPriority, synchVars
    <2> QED
        BY <2>1, EarnedAfterSet
<1>20. ASSUME NEW t \in Thread, NEW c \in Condition, cond_wait(t, c) PROVE PriorityEarned'
    BY <1>4, <1>20 DEF cond_wait, threadVars
<1>21. ASSUME NEW t \in Thread, NEW c \in Condition, cond_signal(t, c) PROVE PriorityEarned'
    BY <1>5, <1>21 DEF cond_signal
<1>22. ASSUME NEW t \in Thread, NEW c \in Condition, cond_broadcast(t, c) PROVE PriorityEarned'
    BY <1>4, <1>22 DEF cond_broadcast
<1> QED
    BY ZenonT(40), <1>3, <1>6, <1>7, <1>8, <1>9, <1>10, <1>11, <1>12, <1>13, <1>14, <1>15, <1>16,
       <1>17, <1>18, <1>19, <1>20, <1>21, <1>22 DEF Next

-------------------------------------------------------------------------------
(***************************************************************************)
(* The invariant holds initially and is inductive.                         *)
(***************************************************************************)
LEMMA InitOK == Init => IInv
<1> SUFFICES ASSUME Init PROVE IInv
    OBVIOUS
<1> DEFINE sorted == list_sort(CreationOrder, priority)
<1>1. /\ priority \in [AllThread -> Priority] /\ base_priority = priority
      /\ donated_priority = [t \in AllThread |-> PRI_MIN]
      /\ current = next_thread_to_run(CreationOrder, priority)
      /\ ready_list = list_rest(sorted)
      /\ status = [t \in AllThread |-> CASE t = current -> "RUNNING"
                                         [] t = idle_thread -> "BLOCKED"
                                         [] OTHER -> "READY"]
    BY DEF Init
<1>2. /\ value = [s \in Sema |-> IF s \in Lock THEN 1 ELSE 0]
      /\ waiters = [s \in Sema |-> <<>>]
      /\ holder = [l \in Lock |-> NULL]
      /\ max_priority = [l \in Lock |-> PRI_MIN]
      /\ waiting_lock = [t \in Thread |-> NULL]
      /\ locks = [t \in Thread |-> {}]
      /\ cond_waiters = [c \in Condition |-> <<>>]
      /\ captured = [t \in Thread |-> PRI_MIN]
      /\ pc = [t \in Thread |-> "run"]
      /\ arg = [t \in Thread |-> NULL]
      /\ cond = [t \in Thread |-> NULL]
      /\ saved = [t \in Thread |-> PRI_MIN]
    BY DEF Init
<1>3. PRI_MIN \in Priority /\ Thread \subseteq AllThread /\ idle_thread \notin Thread
    BY SMT, PriorityAssumption, ThreadAssumption DEF Priority, AllThread
<1>4. \A x \in Thread : priority[x] \in Int
    BY <1>1, <1>3, PriorityIsInt
<1>5. /\ sorted \in Seq(Thread) /\ sorted # <<>> /\ Distinct(sorted)
      /\ Elements(sorted) = Thread
    BY SMT, <1>4, CreationAssumption, SortElements
<1>6. Ordered(sorted, priority)
    BY <1>4, CreationAssumption, SortOrdered
<1>7. current = list_front(sorted)
    BY <1>1, CreationAssumption DEF next_thread_to_run
<1> HIDE DEF sorted
<1>8. /\ current \in Thread /\ ready_list \in Seq(Thread) /\ Distinct(ready_list)
      /\ Thread = Elements(ready_list) \cup {current} /\ current \notin Elements(ready_list)
    BY SMT, <1>1, <1>5, <1>7, FrontRest
<1>9. /\ Ordered(ready_list, priority)
      /\ \A x \in Elements(ready_list) : priority[current] >= priority[x]
    BY <1>1, <1>5, <1>6, <1>7, FrontRestOrdered
<1>10. /\ status \in [AllThread -> Status]
       /\ \A t \in AllThread : status[t] = "RUNNING" <=> t = current
       /\ \A t \in Thread : status[t] = IF t = current THEN "RUNNING" ELSE "READY"
    <2>1. \A t \in AllThread : status[t] = IF t = current THEN "RUNNING"
                                           ELSE IF t = idle_thread THEN "BLOCKED"
                                           ELSE "READY"
        BY <1>1, <1>3, <1>8
    <2>2. status = [t \in AllThread |-> status[t]]
        BY SMT, <1>1
    <2> QED
        BY <1>3, <2>1, <2>2 DEF Status
<1>11. TypeOK
    <2>1. ThreadTypeOK
        BY <1>1, <1>3, <1>8, <1>10 DEF ThreadTypeOK
    <2>2. <<>> \in Seq(Thread) /\ "run" \in PC
        BY SMT DEF PC
    <2> QED
        BY <1>2, <1>3, <2>1, <2>2 DEF TypeOK
<1>12. Where
    BY <1>2 DEF Where
<1>13. NULL \notin Thread /\ NULL \notin Lock
    BY SynchAssumption DEF AllThread
<1>14. LockFields
    BY <1>2, <1>13 DEF LockFields
<1>15. \A t \in Thread, l \in Lock : ~Owns(t, l)
    BY <1>2 DEF Owns
<1>16. MutualExclusion
    BY <1>2, <1>15 DEF MutualExclusion, Sema
<1>17. SchedulerOK
    BY <1>8, <1>10 DEF SchedulerOK, OneRunning, QueueIsReady
<1>18. ReadyOrdered /\ HighestRuns
    <2>1. \A x \in Elements(ready_list) : priority[current] \in Int /\ priority[x] \in Int
        BY <1>4, <1>8
    <2> QED
        BY <1>9, <2>1 DEF ReadyOrdered, HighestRuns
<1>19. WaitersAreBlocked
    <2>1. \A s \in Sema : Elements(waiters[s]) = {} /\ Distinct(waiters[s])
        BY SMT, <1>2 DEF Elements, Distinct
    <2> QED
        BY <1>2, <2>1 DEF WaitersAreBlocked
<1>20. PriorityEarned
    <2>1. base_priority = priority /\ donated_priority = [t \in AllThread |-> PRI_MIN]
        BY <1>1
    <2>2. \A t \in Thread : /\ base_priority[t] = priority[t] /\ priority[t] \in Int
                            /\ donated_priority[t] = PRI_MIN /\ PRI_MIN \in Int
        BY <1>3, <1>4, <2>1, PriorityIsInt
    <2> QED
        BY SMT, <2>2 DEF PriorityEarned, Larger
<1> QED
    BY <1>11, <1>12, <1>14, <1>16, <1>17, <1>18, <1>19, <1>20 DEF IInv

\* The invariant depends on the variables only.
LEMMA StutterOK == IInv /\ UNCHANGED vars => IInv'
<1> SUFFICES ASSUME IInv, UNCHANGED vars PROVE IInv'
    OBVIOUS
<1> QED
    BY SMTT(40) DEF IInv, vars, threadVars, synchVars, TypeOK, ThreadTypeOK, Where, LockFields,
           MutualExclusion, Owns, SchedulerOK, OneRunning, QueueIsReady, ReadyOrdered,
           HighestRuns, WaitersAreBlocked, PriorityEarned, Releasing, Ordered, Distinct,
           Elements, Larger

\* The invariant is inductive.
LEMMA NextOK == IInv /\ [Next]_vars => IInv'
<1> SUFFICES ASSUME IInv, [Next]_vars PROVE IInv'
    OBVIOUS
<1>1. CASE Next
    <2>1. TypeOK' /\ Where'
        BY <1>1, TypeStep
    <2>2. LockFields' /\ MutualExclusion'
        BY <1>1, LockStep DEF LocksOK
    <2>3. SchedulerOK' /\ ReadyOrdered' /\ HighestRuns' /\ WaitersAreBlocked'
        BY <1>1, SchedStep DEF Scheduled
    <2>4. PriorityEarned'
        BY <1>1, EarnedStep
    <2> QED
        BY <2>1, <2>2, <2>3, <2>4 DEF IInv
<1>2. CASE UNCHANGED vars
    BY <1>2, StutterOK
<1> QED
    BY <1>1, <1>2

\* IInv, the inductive invariant, holds in every reachable state of Synch.
THEOREM Invariance == Spec => []IInv
<1>1. Init => IInv
    BY InitOK
<1>2. IInv /\ [Next]_vars => IInv'
    BY NextOK
<1> QED
    BY <1>1, <1>2, PTL DEF Spec

(***************************************************************************)
(* Type correctness of the scheduler's and synch.c's data.                 *)
(***************************************************************************)
THEOREM TypeCorrect == Spec => []TypeOK
<1>1. IInv => TypeOK
    BY DEF IInv
<1> QED
    BY <1>1, Invariance, PTL

(***************************************************************************)
(* lock_acquire (), lock_try_acquire () and lock_release () never give a   *)
(* lock two owners, for any number of threads and locks.                   *)
(***************************************************************************)
THEOREM Mutex == Spec => []MutualExclusion
<1>1. IInv => MutualExclusion
    BY DEF IInv
<1> QED
    BY <1>1, Invariance, PTL

(***************************************************************************)
(* schedule () and its callers keep exactly the current thread RUNNING and *)
(* exactly the READY threads on the run queue.                             *)
(***************************************************************************)
THEOREM SchedulerCorrect == Spec => []SchedulerOK
<1>1. IInv => SchedulerOK
    BY DEF IInv
<1> QED
    BY <1>1, Invariance, PTL

(***************************************************************************)
(* The running thread always has the highest priority, and the run queue   *)
(* is in order.                                                            *)
(***************************************************************************)
THEOREM PriorityScheduling == Spec => [](HighestRuns /\ ReadyOrdered)
<1>1. IInv => HighestRuns /\ ReadyOrdered
    BY DEF IInv
<1> QED
    BY <1>1, Invariance, PTL

(***************************************************************************)
(* sema_down () and sema_up () keep exactly the threads that are blocked   *)
(* on a semaphore on its waiters.                                          *)
(***************************************************************************)
THEOREM WaitersCorrect == Spec => []WaitersAreBlocked
<1>1. IInv => WaitersAreBlocked
    BY DEF IInv
<1> QED
    BY <1>1, Invariance, PTL

(***************************************************************************)
(* Nobody runs above both its base and its donated priority, or below its  *)
(* base priority.                                                          *)
(***************************************************************************)
THEOREM PrioritiesEarned == Spec => []PriorityEarned
<1>1. IInv => PriorityEarned
    BY DEF IInv
<1> QED
    BY <1>1, Invariance, PTL

-------------------------------------------------------------------------------
(***************************************************************************)
(* Synch implements AbstractLock.                                          *)
(***************************************************************************)
OwnerFact ==
    /\ \A l \in Lock : /\ Owner[l] \in Thread \cup {NULL}
                       /\ \A t \in Thread : Owner[l] = t <=> Owns(t, l)
    /\ Owner = [l \in Lock |-> Owner[l]]

\* The refinement mapping: Owner names the one thread that owns a lock.
LEMMA OwnerIs == IInv => OwnerFact
<1> SUFFICES ASSUME IInv PROVE OwnerFact
    OBVIOUS
<1>1. Owner = [l \in Lock |-> Owner[l]]
    BY DEF Owner
<1>2. ASSUME NEW l \in Lock
      PROVE  /\ Owner[l] \in Thread \cup {NULL}
             /\ \A t \in Thread : Owner[l] = t <=> Owns(t, l)
    <2>1. CASE \E t \in Thread : Owns(t, l)
        <3>1. Owner[l] = CHOOSE t \in Thread : Owns(t, l)
            BY <2>1 DEF Owner
        <3>2. Owner[l] \in Thread /\ Owns(Owner[l], l)
            BY <2>1, <3>1
        <3> QED
            BY <3>2, LockView
    <2>2. CASE ~ \E t \in Thread : Owns(t, l)
        <3>1. Owner[l] = NULL
            BY <2>2 DEF Owner
        <3> QED
            BY <2>2, <3>1, LockView
    <2> QED
        BY <2>1, <2>2
<1> QED
    BY <1>1, <1>2 DEF OwnerFact

\* Every step of Synch is a step of AbstractLock or leaves its variables alone.
LEMMA OwnerStep ==
    ASSUME IInv, IInv', Next
    PROVE  Abstract!Next \/ (Owner' = Owner /\ waiting_lock' = waiting_lock)
<1>1. OwnerFact
    BY OwnerIs
<1>2. IInv' => OwnerFact'
    BY OwnerIs, PTL
<1>3. /\ \A l \in Lock : /\ Owner'[l] \in Thread \cup {NULL}
                         /\ \A t \in Thread : Owner'[l] = t <=> Owns(t, l)'
      /\ Owner' = [l \in Lock |-> Owner'[l]]
    BY <1>2 DEF OwnerFact
<1>4. /\ \A l \in Lock : /\ Owner[l] \in Thread \cup {NULL}
                         /\ \A t \in Thread : Owner[l] = t <=> Owns(t, l)
      /\ Owner = [l \in Lock |-> Owner[l]]
    BY <1>1 DEF OwnerFact
<1>5. NULL \notin Thread
    BY LockView
<1>6. OwnersMove
    BY LockStep DEF LocksOK
<1>7. ASSUME \A u \in Thread, m \in Lock : Owns(u, m)' <=> Owns(u, m)
      PROVE  Owner' = Owner
    <2>1. \A m \in Lock : Owner'[m] = Owner[m]
        BY <1>3, <1>4, <1>7
    <2> QED
        BY <1>3, <1>4, <2>1
<1>8. CASE OwnersKept
    BY <1>7, <1>8 DEF OwnersKept
<1>9. ASSUME NEW t \in Thread, NEW l \in Lock, OwnersWait(t, l)
      PROVE  Abstract!Wait(t, l)
    <2>1. Owner[l] \notin {NULL, t}
        BY <1>4, <1>5, <1>9 DEF OwnersWait
    <2> QED
        BY <1>7, <1>9, <2>1 DEF OwnersWait, Abstract!Wait
<1>10. ASSUME NEW t \in Thread, NEW l \in Lock, OwnersTake(t, l)
       PROVE  Abstract!Take(t, l)
    <2>1. Owner[l] = NULL
        BY <1>4, <1>10 DEF OwnersTake
    <2>2. \A m \in Lock : Owner'[m] = IF m = l THEN t ELSE Owner[m]
        BY <1>3, <1>4, <1>10 DEF OwnersTake
    <2>3. Owner' = [Owner EXCEPT ![l] = t]
        BY <1>3, <1>4, <2>2
    <2> QED
        BY <1>10, <2>1, <2>3 DEF OwnersTake, Abstract!Take
<1>11. ASSUME NEW t \in Thread, NEW l \in Lock, OwnersRelease(t, l)
       PROVE  Abstract!Release(t, l)
    <2>1. Owner[l] = t
        BY <1>4, <1>11 DEF OwnersRelease
    <2>2. \A m \in Lock : Owner'[m] = IF m = l THEN NULL ELSE Owner[m]
        BY ZenonT(40), <1>3, <1>4, <1>11, <2>1 DEF OwnersRelease
    <2>3. Owner' = [Owner EXCEPT ![l] = NULL]
        BY <1>3, <1>4, <2>2
    <2> QED
        BY <1>11, <2>1, <2>3 DEF OwnersRelease, Abstract!Release
<1> QED
    BY <1>6, <1>8, <1>9, <1>10, <1>11 DEF OwnersMove, Abstract!Next

(***************************************************************************)
(* The locks of synch.c implement the abstract lock: every step of the     *)
(* kernel is a step of AbstractLock or leaves owners and waiters alone.    *)
(***************************************************************************)
THEOREM Refinement == Spec => LocksAreMutexes
<1>1. Init => Abstract!Init
    <2> SUFFICES ASSUME Init PROVE Abstract!Init
        OBVIOUS
    <2>1. \A l \in Lock, t \in Thread : ~Owns(t, l)
        BY DEF Init, Owns
    <2>2. Owner = [l \in Lock |-> NULL]
        BY <2>1 DEF Owner
    <2> QED
        BY <2>2 DEF Init, Abstract!Init
<1>2. IInv /\ IInv' /\ [Next]_vars => [Abstract!Next]_<<Owner, waiting_lock>>
    <2> SUFFICES ASSUME IInv, IInv', [Next]_vars
                 PROVE  [Abstract!Next]_<<Owner, waiting_lock>>
        OBVIOUS
    <2>1. CASE Next
        BY <2>1, OwnerStep
    <2>2. CASE UNCHANGED vars
        <3>1. Owner' = Owner
            BY <2>2 DEF vars, synchVars, Owner, Owns
        <3>2. waiting_lock' = waiting_lock
            BY <2>2 DEF vars, synchVars
        <3> QED
            BY <3>1, <3>2
    <2> QED
        BY <2>1, <2>2
<1> QED
    BY <1>1, <1>2, Invariance, PTL DEF Spec, LocksAreMutexes, Abstract!Spec
-------------------------------------------------------------------------------
(***************************************************************************)
(* Wake-ups.  The woken threads of a semaphore are those in sema_down ()'s *)
(* loop that are no longer on its waiters, so that NoLostWakeup is about   *)
(* pc, arg, waiters and value.                                             *)
(***************************************************************************)
Downing(s) == {t \in Thread : pc[t] = "down" /\ arg[t] = s}

WokenFact ==
    \A s \in Sema : /\ Woken(s) = Downing(s) \ Elements(waiters[s])
                    /\ Elements(waiters[s]) \subseteq Downing(s)
                    /\ IsFiniteSet(Woken(s)) /\ Cardinality(Woken(s)) \in Nat
                    /\ waiters[s] = <<>> <=> Elements(waiters[s]) = {}

\* There are finitely many threads: CreationOrder lists them.
LEMMA ThreadsFinite == IsFiniteSet(Thread)
<1> DEFINE N == 1..Len(CreationOrder)
           f == [i \in N |-> CreationOrder[i]]
<1>1. Len(CreationOrder) \in Nat /\ \A i \in N : CreationOrder[i] \in Thread
    BY SMT, CreationAssumption
<1>2. IsFiniteSet(N)
    BY SMT, <1>1, FS_Interval
<1>3. f \in [N -> Thread] /\ \A t \in Thread : \E i \in N : f[i] = t
    BY <1>1, CreationAssumption DEF Elements
<1>4. f \in Surjection(N, Thread)
    BY <1>3 DEF Surjection
<1> HIDE DEF N, f
<1> QED
    BY <1>2, <1>4, FS_Surjection

\* The woken threads, by the places they are at.
LEMMA WokenIs == IInv => WokenFact
<1> SUFFICES ASSUME IInv, NEW s \in Sema
             PROVE  /\ Woken(s) = Downing(s) \ Elements(waiters[s])
                    /\ Elements(waiters[s]) \subseteq Downing(s)
                    /\ IsFiniteSet(Woken(s)) /\ Cardinality(Woken(s)) \in Nat
                    /\ waiters[s] = <<>> <=> Elements(waiters[s]) = {}
    BY DEF WokenFact
<1>1. /\ Elements(waiters[s]) =
            {t \in Thread : status[t] = "BLOCKED" /\ pc[t] = "down" /\ arg[t] = s}
      /\ waiters[s] \in Seq(Thread)
    BY DEF IInv, WaitersAreBlocked, TypeOK
<1>2. Woken(s) \in SUBSET Thread
    BY DEF Woken
<1>3. IsFiniteSet(Woken(s)) /\ Cardinality(Woken(s)) \in Nat
    BY <1>2, ThreadsFinite, FS_Subset, FS_CardinalityType
<1>4. waiters[s] = <<>> <=> Elements(waiters[s]) = {}
    <2>1. Elements(<<>>) = {}
        BY SMT DEF Elements
    <2>2. ASSUME waiters[s] # <<>> PROVE 1 \in 1..Len(waiters[s])
        BY SMT, <1>1, <2>2
    <2>3. ASSUME waiters[s] # <<>> PROVE waiters[s][1] \in Elements(waiters[s])
        BY <2>2, <2>3 DEF Elements
    <2> QED
        BY <2>1, <2>3
<1> QED
    BY <1>1, <1>3, <1>4 DEF Woken, Downing

\* The same after a step.
LEMMA WokenAfter == IInv' => WokenFact'
    BY WokenIs, PTL

\* The counting: one wake-up more or less on either side.
LEMMA CountWoken ==
    ASSUME NEW A, NEW B, IsFiniteSet(A), IsFiniteSet(B), NEW m \in Nat, m <= Cardinality(A)
    PROVE  /\ A \subseteq B => m <= Cardinality(B)
           /\ \A t : A \ {t} \subseteq B => m - 1 <= Cardinality(B)
           /\ \A w : w \notin A /\ A \cup {w} \subseteq B => m + 1 <= Cardinality(B)
<1>1. Cardinality(A) \in Nat /\ Cardinality(B) \in Nat
    BY FS_CardinalityType
<1>2. ASSUME A \subseteq B PROVE m <= Cardinality(B)
    <2>1. Cardinality(A) <= Cardinality(B)
        BY <1>2, FS_Subset
    <2> QED
        BY SMT, <1>1, <2>1
<1>3. ASSUME NEW t, A \ {t} \subseteq B PROVE m - 1 <= Cardinality(B)
    <2>1. /\ IsFiniteSet(A \ {t})
          /\ Cardinality(A \ {t}) = IF t \in A THEN Cardinality(A) - 1 ELSE Cardinality(A)
        BY FS_RemoveElement
    <2>2. Cardinality(A \ {t}) <= Cardinality(B)
        BY <1>3, FS_Subset
    <2> QED
        BY SMT, <1>1, <2>1, <2>2
<1>4. ASSUME NEW w, w \notin A, A \cup {w} \subseteq B PROVE m + 1 <= Cardinality(B)
    <2>1. Cardinality(A \cup {w}) = Cardinality(A) + 1
        BY <1>4, FS_AddElement
    <2>2. Cardinality(A \cup {w}) <= Cardinality(B)
        BY <1>4, FS_Subset
    <2> QED
        BY SMT, <1>1, <2>1, <2>2
<1> QED
    BY <1>2, <1>3, <1>4


\* NoLostWakeup depends on what each semaphore's steps do to value and to the
\* woken threads.
LEMMA WakeupsAfter ==
    ASSUME IInv, IInv', NoLostWakeup,
           \A x \in Sema : waiters'[x] # <<>> =>
              \/ value'[x] = 0
              \/ /\ waiters[x] # <<>> /\ value'[x] <= value[x]
                 /\ Woken(x) \subseteq Woken(x)'
              \/ /\ waiters[x] # <<>> /\ value'[x] = value[x] - 1
                 /\ \E t : Woken(x) \ {t} \subseteq Woken(x)'
              \/ /\ waiters[x] # <<>> /\ value'[x] = value[x] + 1
                 /\ \E w : w \notin Woken(x) /\ Woken(x) \cup {w} \subseteq Woken(x)'
    PROVE  NoLostWakeup'
<1> SUFFICES ASSUME NEW x \in Sema, waiters'[x] # <<>>
             PROVE  value'[x] <= Cardinality(Woken(x)')
    BY DEF NoLostWakeup
<1>1. value[x] \in Nat /\ value'[x] \in Nat
    BY DEF IInv, TypeOK
<1>2. IsFiniteSet(Woken(x)) /\ Cardinality(Woken(x)) \in Nat
    BY WokenIs DEF WokenFact
<1>3. IsFiniteSet(Woken(x)') /\ Cardinality(Woken(x)') \in Nat
    BY WokenAfter DEF WokenFact
<1>4. waiters[x] # <<>> => value[x] <= Cardinality(Woken(x))
    BY DEF NoLostWakeup
<1>5. CASE value'[x] = 0
    BY SMT, <1>3, <1>5
<1>6. CASE waiters[x] # <<>> /\ value'[x] <= value[x] /\ Woken(x) \subseteq Woken(x)'
    <2>1. value[x] <= Cardinality(Woken(x)')
        BY <1>1, <1>2, <1>3, <1>4, <1>6, CountWoken
    <2> QED
        BY SMT, <1>1, <1>3, <1>6, <2>1
<1>7. CASE /\ waiters[x] # <<>> /\ value'[x] = value[x] - 1
           /\ \E t : Woken(x) \ {t} \subseteq Woken(x)'
    <2>1. value[x] - 1 <= Cardinality(Woken(x)')
        BY <1>1, <1>2, <1>3, <1>4, <1>7, CountWoken
    <2> QED
        BY <1>7, <2>1
<1>8. CASE /\ waiters[x] # <<>> /\ value'[x] = value[x] + 1
           /\ \E w : w \notin Woken(x) /\ Woken(x) \cup {w} \subseteq Woken(x)'
    <2>1. value[x] + 1 <= Cardinality(Woken(x)')
        BY <1>1, <1>2, <1>3, <1>4, <1>8, CountWoken
    <2> QED
        BY <1>8, <2>1
<1> QED
    BY <1>5, <1>6, <1>7, <1>8

\* A step that raises no semaphore and wakes, blocks or lets through nobody.
LEMMA WakeupsKept ==
    ASSUME IInv, IInv', NoLostWakeup,
           \A x \in Sema : /\ value'[x] <= value[x]
                           /\ Elements(waiters'[x]) = Elements(waiters[x])
                           /\ Downing(x)' = Downing(x)
    PROVE  NoLostWakeup'
<1>1. \A x \in Sema : /\ Woken(x) = Downing(x) \ Elements(waiters[x])
                      /\ waiters[x] = <<>> <=> Elements(waiters[x]) = {}
    BY WokenIs DEF WokenFact
<1>2. \A x \in Sema : /\ Woken(x)' = Downing(x)' \ Elements(waiters'[x])
                      /\ waiters'[x] = <<>> <=> Elements(waiters'[x]) = {}
    BY WokenAfter DEF WokenFact
<1>3. \A x \in Sema : waiters'[x] # <<>> =>
          waiters[x] # <<>> /\ value'[x] <= value[x] /\ Woken(x) \subseteq Woken(x)'
    BY <1>1, <1>2
<1> QED
    BY <1>3, WakeupsAfter

\* sema_up raises one semaphore and wakes one of its waiters, if any.
LEMMA UpWakesOne ==
    ASSUME IInv, NEW s \in Sema, sema_up(s)
    PROVE  /\ \A x \in Sema : value'[x] = IF x = s THEN value[s] + 1 ELSE value[x]
           /\ \A x \in Sema : x # s => waiters'[x] = waiters[x]
           /\ waiters[s] = <<>> => waiters'[s] = <<>>
           /\ waiters[s] # <<>> =>
                 \E w \in Elements(waiters[s]) : Elements(waiters'[s]) = Elements(waiters[s]) \ {w}
<1>1. /\ value \in [Sema -> Nat] /\ waiters \in [Sema -> Seq(Thread)]
      /\ priority \in [AllThread -> Priority] /\ Distinct(waiters[s])
    BY DEF IInv, TypeOK, ThreadTypeOK, WaitersAreBlocked
<1>2. \A x \in Sema : value'[x] = IF x = s THEN value[s] + 1 ELSE value[x]
    BY <1>1 DEF sema_up
<1>3. \A x \in Sema : x # s => waiters'[x] = waiters[x]
    BY <1>1 DEF sema_up
<1>4. CASE waiters[s] = <<>>
    BY <1>1, <1>2, <1>3, <1>4 DEF sema_up, Wakes
<1>5. CASE waiters[s] # <<>>
    <2> DEFINE sorted == list_sort(waiters[s], priority)
    <2>1. \A x \in Thread : priority[x] \in Int
        BY ZenonT(40), <1>1, PriorityIsInt DEF AllThread
    <2>2. /\ sorted \in Seq(Thread) /\ sorted # <<>> /\ Distinct(sorted)
          /\ Elements(sorted) = Elements(waiters[s])
        BY SMT, <1>1, <1>5, <2>1, SortElements
    <2>3. waiters' = [waiters EXCEPT ![s] = list_rest(sorted)]
        BY <1>5 DEF sema_up, Wakes, PopWaiter
    <2> HIDE DEF sorted
    <2>4. /\ Elements(sorted) = Elements(list_rest(sorted)) \cup {list_front(sorted)}
          /\ list_front(sorted) \notin Elements(list_rest(sorted))
        BY <2>2, FrontRest
    <2>5. /\ list_front(sorted) \in Elements(waiters[s])
          /\ Elements(waiters'[s]) = Elements(waiters[s]) \ {list_front(sorted)}
        BY <1>1, <2>2, <2>3, <2>4
    <2> QED
        BY <1>2, <1>3, <1>5, <2>5
<1> QED
    BY <1>4, <1>5

\* sema_up, by a thread outside sema_down or by an interrupt.
LEMMA WakeupsRaised ==
    ASSUME IInv, IInv', NoLostWakeup, NEW s \in Sema, sema_up(s),
           \A x \in Sema : Downing(x)' = Downing(x)
    PROVE  NoLostWakeup'
<1>1. \A x \in Sema : /\ Woken(x) = Downing(x) \ Elements(waiters[x])
                      /\ Elements(waiters[x]) \subseteq Downing(x)
    BY WokenIs DEF WokenFact
<1>2. \A x \in Sema : Woken(x)' = Downing(x)' \ Elements(waiters'[x])
    BY WokenAfter DEF WokenFact
<1>3. value \in [Sema -> Nat]
    BY DEF IInv, TypeOK
<1>4. ASSUME NEW x \in Sema, x # s, waiters'[x] # <<>>
      PROVE  waiters[x] # <<>> /\ value'[x] <= value[x] /\ Woken(x) \subseteq Woken(x)'
    BY SMT, <1>1, <1>2, <1>3, <1>4, UpWakesOne
<1>5. ASSUME waiters'[s] # <<>>
      PROVE  /\ waiters[s] # <<>> /\ value'[s] = value[s] + 1
             /\ \E w : w \notin Woken(s) /\ Woken(s) \cup {w} \subseteq Woken(s)'
    <2>1. waiters[s] # <<>> /\ value'[s] = value[s] + 1
        BY <1>5, UpWakesOne
    <2>2. PICK w \in Elements(waiters[s]) : Elements(waiters'[s]) = Elements(waiters[s]) \ {w}
        BY <2>1, UpWakesOne
    <2>3. w \notin Woken(s) /\ Woken(s) \cup {w} \subseteq Woken(s)'
        BY SMT, <1>1, <1>2, <2>2
    <2> QED
        BY <2>1, <2>3
<1> QED
    BY <1>4, <1>5, WakeupsAfter

\* A thread joins the waiters of a semaphore only when it is down.
LEMMA WakeupsWaited ==
    ASSUME IInv, IInv', NoLostWakeup, NEW t \in Thread, NEW s \in Sema, NEW pri,
           value[s] = 0, WaitOn(t, s, pri), pc[t] = "down" => arg[t] = s
    PROVE  NoLostWakeup'
<1>1. \A x \in Sema : Woken(x) = Downing(x) \ Elements(waiters[x])
    BY WokenIs DEF WokenFact
<1>2. \A x \in Sema : Woken(x)' = Downing(x)' \ Elements(waiters'[x])
    BY WokenAfter DEF WokenFact
<1>3. /\ value \in [Sema -> Nat] /\ waiters \in [Sema -> Seq(Thread)]
      /\ pc \in [Thread -> PC] /\ arg \in [Thread -> Sema \cup Condition \cup {NULL}]
    BY DEF IInv, TypeOK
<1>4. /\ value' = value /\ \A x \in Sema : x # s => waiters'[x] = waiters[x]
      /\ \A u \in Thread : /\ pc'[u] = IF u = t THEN "down" ELSE pc[u]
                           /\ arg'[u] = IF u = t THEN s ELSE arg[u]
    BY <1>3 DEF WaitOn, Goto
<1>5. \A x \in Sema : x # s => Downing(x)' = Downing(x)
    BY <1>4 DEF Downing
<1>6. ASSUME NEW x \in Sema, x # s, waiters'[x] # <<>>
      PROVE  waiters[x] # <<>> /\ value'[x] <= value[x] /\ Woken(x) \subseteq Woken(x)'
    BY SMTT(40), <1>1, <1>2, <1>3, <1>4, <1>5, <1>6
<1>7. value'[s] = 0
    BY <1>4
<1> QED
    BY <1>6, <1>7, WakeupsAfter

\* A woken thread that is let through takes one from the value with it.
LEMMA WakeupsTaken ==
    ASSUME IInv, IInv', NoLostWakeup, NEW t \in Thread, NEW s \in Sema,
           pc[t] = "down" /\ arg[t] = s,
           value' = [value EXCEPT ![s] = value[s] - 1],
           \A x \in Sema : Elements(waiters'[x]) = Elements(waiters[x]),
           \A u \in Thread : u # t => pc'[u] = pc[u] /\ arg'[u] = arg[u]
    PROVE  NoLostWakeup'
<1>1. \A x \in Sema : /\ Woken(x) = Downing(x) \ Elements(waiters[x])
                      /\ waiters[x] = <<>> <=> Elements(waiters[x]) = {}
    BY WokenIs DEF WokenFact
<1>2. \A x \in Sema : /\ Woken(x)' = Downing(x)' \ Elements(waiters'[x])
                      /\ waiters'[x] = <<>> <=> Elements(waiters'[x]) = {}
    BY WokenAfter DEF WokenFact
<1>3. value \in [Sema -> Nat]
    BY DEF IInv, TypeOK
<1>4. \A x \in Sema : value'[x] = IF x = s THEN value[s] - 1 ELSE value[x]
    BY <1>3
<1>5. \A x \in Sema : Downing(x) \ {t} \subseteq Downing(x)'
    BY DEF Downing
<1>6. \A x \in Sema : x # s => Downing(x) \subseteq Downing(x)'
    BY DEF Downing
<1>7. ASSUME NEW x \in Sema, x # s, waiters'[x] # <<>>
      PROVE  waiters[x] # <<>> /\ value'[x] <= value[x] /\ Woken(x) \subseteq Woken(x)'
    BY SMTT(40), <1>1, <1>2, <1>3, <1>4, <1>6, <1>7
<1>8. ASSUME waiters'[s] # <<>>
      PROVE  /\ waiters[s] # <<>> /\ value'[s] = value[s] - 1
             /\ \E u : Woken(s) \ {u} \subseteq Woken(s)'
    BY SMTT(40), <1>1, <1>2, <1>4, <1>5, <1>8
<1> QED
    BY <1>7, <1>8, WakeupsAfter

\* cond_signal, and a turn of cond_broadcast, ups the semaphore of the waiter
\* it takes off the condition's list.
LEMMA SignalWakesFront ==
    ASSUME IInv, NEW t \in Thread, NEW c \in Condition, SignalOne(t, c)
    PROVE  \E w \in Elements(cond_waiters[c]) :
              /\ w \in Thread /\ sema_up(w)
              /\ \A d \in Condition : d # c => cond_waiters'[d] = cond_waiters[d]
              /\ Distinct(cond_waiters[c]) =>
                    /\ Distinct(cond_waiters'[c])
                    /\ Elements(cond_waiters'[c]) = Elements(cond_waiters[c]) \ {w}
<1> DEFINE sorted == list_sort(cond_waiters[c], captured)
<1>1. /\ cond_waiters \in [Condition -> Seq(Thread)] /\ captured \in [Thread -> Priority]
      /\ \A x \in Thread : captured[x] \in Int
    BY PriorityIsInt DEF IInv, TypeOK
<1>2. /\ cond_waiters[c] # <<>> /\ sema_up(list_front(sorted))
      /\ cond_waiters' = [cond_waiters EXCEPT ![c] = list_rest(sorted)]
    BY DEF SignalOne, PopWaiter
<1>3. /\ sorted \in Seq(Thread) /\ sorted # <<>>
      /\ Elements(sorted) = Elements(cond_waiters[c])
      /\ Distinct(cond_waiters[c]) => Distinct(sorted)
    BY SMT, <1>1, <1>2, SortElements
<1> HIDE DEF sorted
<1>4. /\ list_front(sorted) \in Thread
      /\ Elements(sorted) = Elements(list_rest(sorted)) \cup {list_front(sorted)}
      /\ Distinct(sorted) => /\ Distinct(list_rest(sorted))
                             /\ list_front(sorted) \notin Elements(list_rest(sorted))
    BY <1>3, FrontRest
<1>5. /\ cond_waiters'[c] = list_rest(sorted)
      /\ \A d \in Condition : d # c => cond_waiters'[d] = cond_waiters[d]
    BY <1>1, <1>2
<1>6. list_front(sorted) \in Elements(cond_waiters[c])
    BY <1>3, <1>4
<1> QED
    BY <1>2, <1>3, <1>4, <1>5, <1>6

\* Every step keeps NoLostWakeup.
LEMMA WakeupStep ==
    ASSUME IInv, IInv', NoLostWakeup, Next
    PROVE  NoLostWakeup'
<1>1. /\ value \in [Sema -> Nat] /\ waiters \in [Sema -> Seq(Thread)]
      /\ Lock \subseteq Sema /\ Semaphore \subseteq Sema /\ Thread \subseteq Sema
      /\ pc \in [Thread -> PC] /\ arg \in [Thread -> Sema \cup Condition \cup {NULL}]
      /\ cond_waiters \in [Condition -> Seq(Thread)] /\ captured \in [Thread -> Priority]
      /\ priority \in [AllThread -> Priority] /\ max_priority \in [Lock -> Priority]
      /\ TypeOK
    BY DEF IInv, TypeOK, ThreadTypeOK, Sema
<1>2. ASSUME NEW t \in Thread, NEW where, NEW what, Goto(t, where, what)
      PROVE  \A u \in Thread : /\ pc'[u] = IF u = t THEN where ELSE pc[u]
                               /\ arg'[u] = IF u = t THEN what ELSE arg[u]
    BY <1>1, <1>2 DEF Goto
<1>3. ASSUME NEW t \in Thread, NEW where, NEW what, Goto(t, where, what),
             pc[t] # "down", where # "down"
      PROVE  \A x \in Sema : Downing(x)' = Downing(x)
    BY ZenonT(40), <1>2, <1>3 DEF Downing
<1>4. ASSUME UNCHANGED <<pc, arg>> PROVE \A x \in Sema : Downing(x)' = Downing(x)
    BY <1>4 DEF Downing
<1>5. ASSUME UNCHANGED <<value, waiters>>, \A x \in Sema : Downing(x)' = Downing(x)
      PROVE  NoLostWakeup'
    BY SMT, <1>1, <1>5, WakeupsKept
<1>6. ASSUME NEW s \in Sema, value[s] > 0, TakeSema(s)
      PROVE  \A x \in Sema : value'[x] <= value[x]
    <2>1. \A x \in Sema : value'[x] = IF x = s THEN value[s] - 1 ELSE value[x]
        BY <1>1, <1>6 DEF TakeSema
    <2>2. \A x \in Sema : value[x] \in Nat
        BY <1>1
    <2>3. value[s] - 1 <= value[s]
        BY SMT, <2>2
    <2>4. \A x \in Sema : value[x] <= value[x]
        BY SMT, <2>2
    <2> QED
        BY <2>1, <2>3, <2>4
<1>7. ASSUME NEW t \in Thread, NEW l \in Lock, lock_acquire(t, l) PROVE NoLostWakeup'
    <2> DEFINE path == DonationPath(l, [waiting_lock EXCEPT ![t] = l])
               pri == PriorityAfter(priority[t], path)
               maxp == MaxPriorityAfter(priority[t], path)
    <2>1. pri \in [AllThread -> Priority] /\ maxp \in [Lock -> Priority]
        BY <1>1, DonationOK
    <2>2. pc[t] # "down"
        BY ZenonT(40), <1>7 DEF lock_acquire
    <2>3. CASE value[l] > 0
        <3>1. Acquired(t, l, pri, maxp)
            BY ZenonT(40), <1>7, <2>3 DEF lock_acquire
        <3> HIDE DEF pri, maxp
        <3>2. \A x \in Sema : Elements(waiters'[x]) = Elements(waiters[x])
            BY <2>1, <2>3, <3>1, AcquiredOK
        <3>3. Goto(t, "run", NULL) /\ TakeSema(l)
            BY <3>1 DEF Acquired
        <3>4. \A x \in Sema : value'[x] <= value[x]
            BY <1>1, <1>6, <2>3, <3>3
        <3> QED
            BY <1>3, <2>2, <3>2, <3>3, <3>4, WakeupsKept
    <2>4. CASE ~ (value[l] > 0)
        <3>1. WaitOn(t, l, pri)
            BY ZenonT(40), <1>7, <2>4 DEF lock_acquire
        <3>2. value[l] = 0
            BY SMT, <1>1, <2>4
        <3> HIDE DEF pri, maxp
        <3> QED
            BY <1>1, <2>2, <3>1, <3>2, WakeupsWaited
    <2> QED
        BY <2>3, <2>4
<1>8. ASSUME NEW t \in Thread, NEW l \in Lock, lock_release(t, l) PROVE NoLostWakeup'
    BY <1>3, <1>5, <1>8 DEF lock_release
<1>9. ASSUME NEW t \in Thread, NEW l \in TryLock, lock_try_acquire(t, l) PROVE NoLostWakeup'
    <2>1. l \in Sema
        BY <1>1, SynchAssumption
    <2>2. /\ value[l] > 0 /\ TakeSema(l) /\ Goto(t, "try", l) /\ pc[t] = "run"
          /\ UNCHANGED waiters
        BY <1>9 DEF lock_try_acquire, CanTryDown
    <2> QED
        BY <1>3, <1>6, <2>1, <2>2, WakeupsKept
<1>10. ASSUME NEW t \in Thread, lock_try_holder(t) PROVE NoLostWakeup'
    BY <1>3, <1>5, <1>10 DEF lock_try_holder
<1>11. ASSUME NEW t \in Thread, lock_release_store(t) PROVE NoLostWakeup'
    BY <1>3, <1>5, <1>11 DEF lock_release_store
<1>12. ASSUME NEW t \in Thread, lock_release_holder(t) PROVE NoLostWakeup'
    BY <1>3, <1>5, <1>12 DEF lock_release_holder
<1>13. ASSUME NEW t \in Thread, lock_release_up(t) PROVE NoLostWakeup'
    <2>1. sema_up(arg[t]) /\ Goto(t, "reset", NULL) /\ pc[t] = "up"
        BY <1>13 DEF lock_release_up
    <2>2. arg[t] \in Sema
        BY ZenonT(40), <1>1, <2>1, LockView
    <2>3. \A x \in Sema : Downing(x)' = Downing(x)
        BY <1>3, <2>1
    <2> QED
        BY <2>1, <2>2, <2>3, WakeupsRaised
<1>14. ASSUME NEW t \in Thread, lock_release_reset(t) PROVE NoLostWakeup'
    <2>1. /\ Goto(t, IF cond[t] = NULL THEN "run" ELSE "wait", NULL) /\ pc[t] = "reset"
          /\ UNCHANGED <<value, waiters>>
        BY <1>14 DEF lock_release_reset
    <2> QED
        BY <1>3, <1>5, <2>1
<1>15. ASSUME NEW t \in Thread, NEW s \in Semaphore \cup {t}, sema_down(t, s)
       PROVE  NoLostWakeup'
    <2>1. s \in Sema /\ pc[t] # "down"
        BY <1>1, <1>15 DEF sema_down
    <2>2. CASE value[s] > 0
        <3>1. /\ Goto(t, IF s = t THEN "acquire" ELSE "run", NULL)
              /\ TakeSema(s) /\ UNCHANGED waiters
            BY <1>15, <2>2 DEF sema_down
        <3> QED
            BY <1>3, <1>6, <2>1, <2>2, <3>1, WakeupsKept
    <2>3. CASE ~ (value[s] > 0)
        <3>1. WaitOn(t, s, priority)
            BY <1>15, <2>3 DEF sema_down
        <3>2. value[s] = 0
            BY SMT, <1>1, <2>1, <2>3
        <3> QED
            BY <2>1, <3>1, <3>2, WakeupsWaited
    <2> QED
        BY <2>2, <2>3
<1>16. ASSUME NEW t \in Thread, sema_down_resume(t) PROVE NoLostWakeup'
    <2>1. pc[t] = "down"
        BY ZenonT(40), <1>16 DEF sema_down_resume
    <2>2. arg[t] \in Sema
        BY <1>1, <2>1 DEF IInv, Where
    <2>3. CASE MustWait(arg[t])
        <3>1. WaitOn(t, arg[t], priority) /\ value[arg[t]] = 0
            BY <1>16, <2>3 DEF sema_down_resume, MustWait
        <3> QED
            BY <2>2, <3>1, WakeupsWaited
    <2>4. CASE ~MustWait(arg[t]) /\ arg[t] \in Lock
        <3>1. Acquired(t, arg[t], priority, max_priority)
            BY <1>16, <2>4 DEF sema_down_resume
        <3>2. value[arg[t]] > 0
            BY SMT, <1>1, <2>2, <2>4 DEF MustWait
        <3>3. \A x \in Sema : Elements(waiters'[x]) = Elements(waiters[x])
            BY ZenonT(40), <1>1, <2>4, <3>1, <3>2, AcquiredOK
        <3>4. Goto(t, "run", NULL) /\ TakeSema(arg[t])
            BY <3>1 DEF Acquired
        <3> QED
            BY <1>2, <2>1, <2>2, <3>3, <3>4, WakeupsTaken DEF TakeSema
    <2>5. CASE ~MustWait(arg[t]) /\ arg[t] \notin Lock
        <3>1. /\ Goto(t, IF arg[t] = t THEN "acquire" ELSE "run", NULL)
              /\ TakeSema(arg[t]) /\ UNCHANGED waiters
            BY ZenonT(40), <1>16, <2>5 DEF sema_down_resume
        <3> QED
            BY <1>2, <2>1, <2>2, <3>1, WakeupsTaken DEF TakeSema
    <2> QED
        BY <2>3, <2>4, <2>5
<1>17. ASSUME NEW t \in Thread, NEW s \in Semaphore, sema_try_down(t, s) PROVE NoLostWakeup'
    BY <1>1, <1>4, <1>6, <1>17, WakeupsKept DEF sema_try_down, CanTryDown
<1>18. ASSUME NEW t \in Thread, NEW s \in Semaphore, Up(t, s) PROVE NoLostWakeup'
    BY <1>1, <1>4, <1>18, WakeupsRaised DEF Up
<1>19. ASSUME NEW s \in Semaphore, InterruptUp(s) PROVE NoLostWakeup'
    BY <1>1, <1>4, <1>19, WakeupsRaised DEF InterruptUp
<1>20. ASSUME Preempt PROVE NoLostWakeup'
    BY <1>4, <1>5, <1>20 DEF Preempt, synchVars
<1>21. ASSUME NEW t \in Thread, NEW p \in NewPriority, SetPriority(t, p) PROVE NoLostWakeup'
    BY <1>4, <1>5, <1>21 DEF SetPriority, synchVars
<1>22. ASSUME NEW t \in Thread, NEW c \in Condition, cond_wait(t, c) PROVE NoLostWakeup'
    <2>1. /\ value' = [value EXCEPT ![t] = 0] /\ UNCHANGED waiters
          /\ Goto(t, "release", NULL) /\ pc[t] = "run"
        BY <1>22 DEF cond_wait
    <2>2. \A x \in Sema : value'[x] <= value[x]
        BY SMT, <1>1, <2>1
    <2> QED
        BY <1>3, <2>1, <2>2, WakeupsKept
<1>23. ASSUME NEW t \in Thread, NEW c \in Condition, cond_signal(t, c) PROVE NoLostWakeup'
    <2>1. SignalOne(t, c) /\ UNCHANGED <<pc, arg>>
        BY <1>23 DEF cond_signal
    <2>2. PICK w \in Elements(cond_waiters[c]) : sema_up(w) /\ w \in Thread
        BY <2>1, SignalWakesFront
    <2> QED
        BY <1>1, <1>4, <2>1, <2>2, WakeupsRaised
<1>24. ASSUME NEW t \in Thread, NEW c \in Condition, cond_broadcast(t, c) PROVE NoLostWakeup'
    <2>1. /\ SignalOne(t, c) /\ pc[t] # "down"
          /\ Goto(t, "broadcast", c) \/ Goto(t, "run", NULL)
        BY ZenonT(40), <1>24 DEF cond_broadcast
    <2>2. PICK w \in Elements(cond_waiters[c]) : sema_up(w) /\ w \in Thread
        BY <2>1, SignalWakesFront
    <2>3. \A x \in Sema : Downing(x)' = Downing(x)
        BY <1>3, <2>1
    <2> QED
        BY <1>1, <2>2, <2>3, WakeupsRaised
<1> QED
    BY <1>7, <1>8, <1>9, <1>10, <1>11, <1>12, <1>13, <1>14, <1>15, <1>16, <1>17, <1>18,
       <1>19, <1>20, <1>21, <1>22, <1>23, <1>24 DEF Next

(***************************************************************************)
(* No wake-up is lost, for any number of threads and semaphores: sema_up   *)
(* () wakes one waiter each time, and a woken thread that finds the        *)
(* semaphore taken again waits anew.                                       *)
(***************************************************************************)
THEOREM WakeupsArrive == Spec => []NoLostWakeup
<1>1. Init => NoLostWakeup
    <2> SUFFICES ASSUME Init PROVE NoLostWakeup
        OBVIOUS
    <2>1. waiters = [s \in Sema |-> <<>>]
        BY DEF Init
    <2> QED
        BY <2>1 DEF NoLostWakeup
<1>2. IInv /\ IInv' /\ NoLostWakeup /\ [Next]_vars => NoLostWakeup'
    <2>1. CASE UNCHANGED vars
        BY <2>1 DEF vars, threadVars, synchVars, NoLostWakeup, Woken
    <2> QED
        BY <2>1, WakeupStep
<1> QED
    BY <1>1, <1>2, Invariance, PTL DEF Spec

-------------------------------------------------------------------------------
\* The members of a list are of the list's kind.
LEMMA ElementsType ==
    ASSUME NEW S, NEW l \in Seq(S), NEW e \in Elements(l)
    PROVE  e \in S
BY SMT DEF Elements

\* A step of t that leaves the conditions' lists alone, and lets t past its own
\* semaphore only when it was up, loses no signal.
LEMMA SignalsKept ==
    ASSUME IInv, NoLostSignal, CondCleared, NEW t \in Thread,
           UNCHANGED cond_waiters,
           \A u \in Thread : u # t => /\ pc'[u] = pc[u] /\ arg'[u] = arg[u]
                                      /\ cond'[u] = cond[u] /\ value'[u] = value[u],
           AwaitsSignal(t)' => AwaitsSignal(t) /\ cond'[t] = cond[t] /\ value'[t] = value[t],
           AwaitsSignal(t) => AwaitsSignal(t)' \/ value[t] # 0,
           \/ pc'[t] \in {"run", "try", "broadcast"}
           \/ pc'[t] = "down" /\ arg'[t] \in Semaphore
           => cond'[t] = NULL
    PROVE  NoLostSignal' /\ CondCleared'
<1>1. \A u \in Thread : u # t => (AwaitsSignal(u)' <=> AwaitsSignal(u))
    BY DEF AwaitsSignal
<1>2. ASSUME NEW c \in Condition, NEW u \in Elements(cond_waiters[c]), u = t
      PROVE  AwaitsSignal(t)'
    <2>1. AwaitsSignal(t) /\ cond[t] = c
        BY <1>2 DEF NoLostSignal
    <2>2. value[t] = 0
        BY <1>2, <2>1 DEF NoLostSignal
    <2> QED
        BY <2>1, <2>2
<1>3. \A c \in Condition : \A u \in Elements(cond_waiters[c]) : u \in Thread
    BY ElementsType DEF IInv, TypeOK
<1>4. \A u \in Thread : AwaitsSignal(u)' =>
         /\ AwaitsSignal(u) /\ cond'[u] = cond[u] /\ value'[u] = value[u]
    BY <1>1
<1>5. \A u \in Thread : AwaitsSignal(u)' =>
         value'[u] = (IF u \in Elements(cond_waiters'[cond'[u]]) THEN 0 ELSE 1)
    BY <1>4 DEF NoLostSignal
<1>6. \A c \in Condition :
         /\ Distinct(cond_waiters'[c])
         /\ \A u \in Elements(cond_waiters'[c]) : AwaitsSignal(u)' /\ cond'[u] = c
    <2>1. ASSUME NEW c \in Condition, NEW u \in Elements(cond_waiters[c])
          PROVE  AwaitsSignal(u)'
        BY <1>1, <1>2, <1>3 DEF NoLostSignal
    <2> QED
        BY <1>3, <1>4, <2>1 DEF NoLostSignal
<1>7. CondCleared'
    BY DEF CondCleared
<1> QED
    BY <1>5, <1>6, <1>7 DEF NoLostSignal

\* A step that changes neither the conditions nor where any thread is.
LEMMA SignalsSame ==
    ASSUME NoLostSignal, CondCleared, UNCHANGED <<cond_waiters, pc, arg, cond>>,
           \A u \in Thread : value'[u] = value[u]
    PROVE  NoLostSignal' /\ CondCleared'
<1>1. \A u \in Thread : AwaitsSignal(u)' <=> AwaitsSignal(u)
    BY DEF AwaitsSignal
<1>2. \A u \in Thread : AwaitsSignal(u)' =>
         value'[u] = (IF u \in Elements(cond_waiters'[cond'[u]]) THEN 0 ELSE 1)
    BY <1>1 DEF NoLostSignal
<1>3. \A c \in Condition :
         /\ Distinct(cond_waiters'[c])
         /\ \A u \in Elements(cond_waiters'[c]) : AwaitsSignal(u)' /\ cond'[u] = c
    BY ZenonT(40) DEF NoLostSignal, AwaitsSignal
<1> QED
    BY <1>2, <1>3 DEF NoLostSignal, CondCleared

\* cond_signal, and a turn of cond_broadcast: the waiter taken off the list has
\* its semaphore upped in the same step.  The signalling thread itself holds the
\* lock and waits for no signal.
LEMMA SignalsSent ==
    ASSUME IInv, NoLostSignal, CondCleared, NEW t \in Thread, NEW c \in Condition,
           SignalOne(t, c), UNCHANGED cond,
           pc[t] \in {"run", "broadcast"}, pc'[t] \in {"run", "broadcast"},
           \A u \in Thread : u # t => pc'[u] = pc[u] /\ arg'[u] = arg[u]
    PROVE  NoLostSignal' /\ CondCleared'
<1>1. /\ value \in [Sema -> Nat] /\ Thread \subseteq Sema
      /\ cond_waiters \in [Condition -> Seq(Thread)]
    BY DEF IInv, TypeOK, Sema
<1>2. \A d \in Condition : \A u \in Elements(cond_waiters[d]) : u \in Thread
    BY <1>1, ElementsType
<1>3. PICK w \in Elements(cond_waiters[c]) :
         /\ w \in Thread /\ sema_up(w)
         /\ \A d \in Condition : d # c => cond_waiters'[d] = cond_waiters[d]
         /\ Distinct(cond_waiters[c]) =>
               /\ Distinct(cond_waiters'[c])
               /\ Elements(cond_waiters'[c]) = Elements(cond_waiters[c]) \ {w}
    BY SignalWakesFront
<1>4. /\ Distinct(cond_waiters'[c])
      /\ Elements(cond_waiters'[c]) = Elements(cond_waiters[c]) \ {w}
    BY <1>3 DEF NoLostSignal
<1>5. \A u \in Thread : value'[u] = IF u = w THEN value[w] + 1 ELSE value[u]
    BY <1>1, <1>3 DEF sema_up
<1>6. \A u \in Thread : AwaitsSignal(u)' <=> AwaitsSignal(u)
    <2>1. ~ AwaitsSignal(t) /\ ~ AwaitsSignal(t)'
        BY DEF AwaitsSignal
    <2>2. \A u \in Thread : u # t => (AwaitsSignal(u)' <=> AwaitsSignal(u))
        BY DEF AwaitsSignal
    <2> QED
        BY <2>1, <2>2
<1>7. AwaitsSignal(w) /\ cond[w] = c /\ value[w] = 0
    BY <1>3 DEF NoLostSignal
<1>8. ASSUME NEW u \in Thread, AwaitsSignal(u)'
      PROVE  value'[u] = (IF u \in Elements(cond_waiters'[cond'[u]]) THEN 0 ELSE 1)
    <2>1. AwaitsSignal(u) /\ cond'[u] = cond[u] /\ cond[u] \in Condition
        BY ZenonT(40), <1>6, <1>8 DEF AwaitsSignal, IInv, TypeOK
    <2>2. value[u] = (IF u \in Elements(cond_waiters[cond[u]]) THEN 0 ELSE 1)
        BY <2>1 DEF NoLostSignal
    <2>3. CASE u = w
        BY SMT, <1>3, <1>4, <1>5, <1>7, <2>1, <2>3
    <2>4. CASE u # w /\ cond[u] = c
        BY <1>4, <1>5, <2>1, <2>2, <2>4
    <2>5. CASE u # w /\ cond[u] # c
        BY <1>3, <1>5, <2>1, <2>2, <2>5
    <2> QED
        BY <2>3, <2>4, <2>5
<1>9. ASSUME NEW d \in Condition
      PROVE  /\ Distinct(cond_waiters'[d])
             /\ \A u \in Elements(cond_waiters'[d]) : AwaitsSignal(u)' /\ cond'[u] = d
    <2>1. /\ Distinct(cond_waiters'[d])
          /\ Elements(cond_waiters'[d]) \subseteq Elements(cond_waiters[d])
        BY <1>3, <1>4 DEF NoLostSignal
    <2> QED
        BY <1>2, <1>6, <2>1 DEF NoLostSignal
<1>10. CondCleared'
    BY DEF CondCleared
<1> QED
    BY <1>8, <1>9, <1>10 DEF NoLostSignal

\* cond_wait: the thread joins the list with its semaphore down, and was on no
\* list before.
LEMMA SignalsAwaited ==
    ASSUME IInv, NoLostSignal, CondCleared, NEW t \in Thread, NEW c \in Condition,
           cond_wait(t, c)
    PROVE  NoLostSignal' /\ CondCleared'
<1>1. /\ value \in [Sema -> Nat] /\ Thread \subseteq Sema
      /\ cond_waiters \in [Condition -> Seq(Thread)]
      /\ cond \in [Thread -> Condition \cup {NULL}]
      /\ captured \in [Thread -> Priority] /\ priority \in [AllThread -> Priority]
      /\ pc \in [Thread -> PC] /\ arg \in [Thread -> Sema \cup Condition \cup {NULL}]
    BY DEF IInv, TypeOK, ThreadTypeOK, Sema
<1>2. \A d \in Condition : \A u \in Elements(cond_waiters[d]) : u \in Thread
    BY <1>1, ElementsType
<1>3. /\ pc[t] = "run" /\ value' = [value EXCEPT ![t] = 0]
      /\ captured' = [captured EXCEPT ![t] = priority[t]]
      /\ cond_waiters' = [cond_waiters EXCEPT ![c] =
            list_insert_ordered(cond_waiters[c], t, captured')]
      /\ cond' = [cond EXCEPT ![t] = c] /\ Goto(t, "release", NULL)
    BY DEF cond_wait
<1>4. ~ AwaitsSignal(t)
    BY <1>3 DEF AwaitsSignal
<1>5. \A d \in Condition : t \notin Elements(cond_waiters[d])
    BY <1>4 DEF NoLostSignal
<1>6. \A u \in Thread : captured'[u] \in Int
    BY <1>1, <1>3, PriorityIsInt, SynchAssumption DEF AllThread
<1>7. /\ Elements(cond_waiters'[c]) = Elements(cond_waiters[c]) \cup {t}
      /\ Distinct(cond_waiters'[c])
    <2>1. Distinct(cond_waiters[c])
        BY DEF NoLostSignal
    <2> QED
        BY SMTT(40), <1>1, <1>3, <1>5, <1>6, <2>1, InsertElements
<1>8. \A d \in Condition : d # c => cond_waiters'[d] = cond_waiters[d]
    BY <1>1, <1>3
<1>9. \A u \in Thread :
         /\ u # t => /\ pc'[u] = pc[u] /\ arg'[u] = arg[u]
                     /\ cond'[u] = cond[u] /\ value'[u] = value[u]
         /\ pc'[t] = "release" /\ cond'[t] = c /\ value'[t] = 0
    BY <1>1, <1>3 DEF Goto
<1>10. c # NULL
    BY SynchAssumption
<1>11. \A u \in Thread : u # t => (AwaitsSignal(u)' <=> AwaitsSignal(u))
    BY <1>9 DEF AwaitsSignal
<1>12. AwaitsSignal(t)'
    BY <1>9, <1>10 DEF AwaitsSignal
<1>13. ASSUME NEW u \in Thread, AwaitsSignal(u)'
       PROVE  value'[u] = (IF u \in Elements(cond_waiters'[cond'[u]]) THEN 0 ELSE 1)
    <2>1. CASE u = t
        BY <1>7, <1>9, <2>1
    <2>2. CASE u # t
        <3>1. /\ AwaitsSignal(u) /\ cond'[u] = cond[u] /\ cond[u] \in Condition
              /\ value'[u] = value[u]
            BY SMTT(40), <1>1, <1>9, <1>11, <1>13, <2>2 DEF AwaitsSignal
        <3>2. u \in Elements(cond_waiters'[cond[u]]) <=> u \in Elements(cond_waiters[cond[u]])
            BY <1>7, <1>8, <2>2, <3>1
        <3> QED
            BY <3>1, <3>2 DEF NoLostSignal
    <2> QED
        BY <2>1, <2>2
<1>14. ASSUME NEW d \in Condition
       PROVE  /\ Distinct(cond_waiters'[d])
              /\ \A u \in Elements(cond_waiters'[d]) : AwaitsSignal(u)' /\ cond'[u] = d
    <2>1. ASSUME NEW u \in Elements(cond_waiters[d])
          PROVE  AwaitsSignal(u)' /\ cond'[u] = d
        <3>1. u \in Thread /\ u # t /\ AwaitsSignal(u) /\ cond[u] = d
            BY <1>2, <1>5, <2>1 DEF NoLostSignal
        <3> QED
            BY <1>9, <1>11, <3>1
    <2>2. CASE d = c
        BY <1>7, <1>9, <1>12, <2>1, <2>2
    <2>3. CASE d # c
        BY <1>8, <2>1, <2>3 DEF NoLostSignal
    <2> QED
        BY <2>2, <2>3
<1>15. CondCleared'
    BY <1>9 DEF CondCleared
<1> QED
    BY <1>13, <1>14, <1>15 DEF NoLostSignal

\* Every step keeps NoLostSignal and CondCleared.
LEMMA SignalStep ==
    ASSUME IInv, NoLostSignal, CondCleared, Next
    PROVE  NoLostSignal' /\ CondCleared'
<1> DEFINE Goal == NoLostSignal' /\ CondCleared'
           Values == \A u \in Thread : value'[u] = value[u]
           Same == UNCHANGED <<cond_waiters, cond>>
<1>1. /\ value \in [Sema -> Nat] /\ Sema = Lock \cup Semaphore \cup Thread
      /\ pc \in [Thread -> PC] /\ arg \in [Thread -> Sema \cup Condition \cup {NULL}]
      /\ cond \in [Thread -> Condition \cup {NULL}]
      /\ Lock \cap Thread = {} /\ Semaphore \cap Thread = {} /\ Lock \cap Semaphore = {}
      /\ NULL \notin Thread /\ NULL \notin Condition
    BY SynchAssumption DEF IInv, TypeOK, Sema, AllThread
<1>2. ASSUME NEW t \in Thread, NEW where, NEW what, Goto(t, where, what)
      PROVE  /\ pc'[t] = where /\ arg'[t] = what
             /\ \A u \in Thread : u # t => pc'[u] = pc[u] /\ arg'[u] = arg[u]
    BY <1>1, <1>2 DEF Goto
<1>3. \A t \in Thread : pc[t] = "run" => cond[t] = NULL
    BY DEF CondCleared
<1>4. ASSUME NEW s \in Lock \cup Semaphore, TakeSema(s) \/ sema_up(s)
      PROVE  Values
    BY <1>1, <1>4 DEF TakeSema, sema_up
\* A step on t's way that changes neither whether it awaits a signal nor cond.
<1>5. ASSUME NEW t \in Thread, NEW where, NEW what, Goto(t, where, what), Same, Values,
             \/ where \in {"release", "store", "holder", "up", "reset", "wait"}
                /\ (cond[t] = NULL \/ AwaitsSignal(t))
             \/ where \in {"run", "try"} /\ cond[t] = NULL
             \/ where = "down" /\ what \in Semaphore /\ cond[t] = NULL
             \/ where = "down" /\ what \in Lock /\ ~ AwaitsSignal(t)
             \/ where = "down" /\ what = t /\ AwaitsSignal(t)
      PROVE  Goal
    <2>1. AwaitsSignal(t)' <=> AwaitsSignal(t)
        BY SMTT(40), <1>1, <1>2, <1>5 DEF AwaitsSignal
    <2>2. \/ pc'[t] \in {"run", "try", "broadcast"}
          \/ pc'[t] = "down" /\ arg'[t] \in Semaphore
          => cond'[t] = NULL
        BY SMT, <1>1, <1>2, <1>5
    <2> QED
        BY <1>2, <1>5, <2>1, <2>2, SignalsKept
\* t has the lock: it is in cond_wait no more.
<1>6. ASSUME NEW t \in Thread, NEW l \in Lock, NEW pri, NEW maxp,
             Acquired(t, l, pri, maxp), UNCHANGED cond_waiters, ~ AwaitsSignal(t)
      PROVE  Goal
    <2>1. Goto(t, "run", NULL) /\ TakeSema(l) /\ cond' = [cond EXCEPT ![t] = NULL]
        BY <1>6 DEF Acquired
    <2>2. Values
        BY <1>4, <2>1
    <2>3. cond'[t] = NULL /\ \A u \in Thread : u # t => cond'[u] = cond[u]
        BY <1>1, <2>1
    <2>4. ~ AwaitsSignal(t)'
        BY <2>3 DEF AwaitsSignal
    <2> QED
        BY ZenonT(40), <1>2, <1>6, <2>1, <2>2, <2>3, <2>4, SignalsKept
\* t gets past its own semaphore: it was signalled.
<1>7. ASSUME NEW t \in Thread, TakeSema(t), value[t] # 0, Goto(t, "acquire", NULL), Same
      PROVE  Goal
    <2>1. \A u \in Thread : u # t => value'[u] = value[u]
        BY <1>1, <1>7 DEF TakeSema
    <2>2. ~ AwaitsSignal(t)'
        BY SMT, <1>2, <1>7 DEF AwaitsSignal
    <2> QED
        BY SMTT(40), <1>2, <1>7, <2>1, <2>2, SignalsKept
<1>8. ASSUME NEW t \in Thread, NEW l \in Lock, lock_acquire(t, l) PROVE Goal
    <2>1. ~ AwaitsSignal(t) /\ UNCHANGED cond_waiters
        BY ZenonT(40), <1>8 DEF lock_acquire, AwaitsSignal
    <2>2. \/ \E pri, maxp : Acquired(t, l, pri, maxp)
          \/ Goto(t, "down", l) /\ UNCHANGED <<value, cond>>
        BY ZenonT(40), <1>8 DEF lock_acquire, WaitOn
    <2> QED
        BY <1>5, <1>6, <2>1, <2>2
<1>9. ASSUME NEW t \in Thread, NEW l \in Lock, lock_release(t, l) PROVE Goal
    <2>1. /\ Goto(t, "store", l) /\ Same /\ UNCHANGED value
          /\ pc[t] = "run" \/ pc[t] = "release"
        BY <1>9 DEF lock_release
    <2>2. cond[t] = NULL \/ AwaitsSignal(t)
        BY <1>3, <2>1 DEF AwaitsSignal
    <2> QED
        BY <1>5, <2>1, <2>2
<1>10. ASSUME NEW t \in Thread, NEW l \in TryLock, lock_try_acquire(t, l) PROVE Goal
    <2>1. Goto(t, "try", l) /\ Same /\ TakeSema(l) /\ pc[t] = "run"
        BY <1>10 DEF lock_try_acquire
    <2>2. Values
        BY <1>4, <2>1, SynchAssumption
    <2> QED
        BY <1>3, <1>5, <2>1, <2>2
<1>11. ASSUME NEW t \in Thread, lock_try_holder(t) PROVE Goal
    <2>1. Goto(t, "run", NULL) /\ Same /\ UNCHANGED value /\ pc[t] = "try"
        BY <1>11 DEF lock_try_holder
    <2>2. cond[t] = NULL
        BY <2>1 DEF CondCleared
    <2> QED
        BY <1>5, <2>1, <2>2
<1>12. ASSUME NEW t \in Thread, lock_release_store(t) PROVE Goal
    <2>1. Goto(t, "holder", arg[t]) /\ Same /\ UNCHANGED value /\ pc[t] = "store"
        BY <1>12 DEF lock_release_store
    <2>2. cond[t] = NULL \/ AwaitsSignal(t)
        BY <2>1 DEF AwaitsSignal
    <2> QED
        BY <1>5, <2>1, <2>2
<1>13. ASSUME NEW t \in Thread, lock_release_holder(t) PROVE Goal
    <2>1. Goto(t, "up", arg[t]) /\ Same /\ UNCHANGED value /\ pc[t] = "holder"
        BY <1>13 DEF lock_release_holder
    <2>2. cond[t] = NULL \/ AwaitsSignal(t)
        BY <2>1 DEF AwaitsSignal
    <2> QED
        BY <1>5, <2>1, <2>2
<1>14. ASSUME NEW t \in Thread, lock_release_up(t) PROVE Goal
    <2>1. Goto(t, "reset", NULL) /\ Same /\ sema_up(arg[t]) /\ pc[t] = "up"
        BY <1>14 DEF lock_release_up
    <2>2. arg[t] \in Lock
        BY <2>1 DEF IInv, Where
    <2>3. Values
        BY <1>4, <2>1, <2>2
    <2>4. cond[t] = NULL \/ AwaitsSignal(t)
        BY <2>1 DEF AwaitsSignal
    <2> QED
        BY <1>5, <2>1, <2>3, <2>4
<1>15. ASSUME NEW t \in Thread, lock_release_reset(t) PROVE Goal
    <2>1. /\ Goto(t, IF cond[t] = NULL THEN "run" ELSE "wait", NULL)
          /\ Same /\ UNCHANGED value /\ pc[t] = "reset"
        BY <1>15 DEF lock_release_reset
    <2>2. CASE cond[t] = NULL
        BY <1>5, <2>1, <2>2
    <2>3. CASE cond[t] # NULL
        BY <1>5, <2>1, <2>3 DEF AwaitsSignal
    <2> QED
        BY <2>2, <2>3
<1>16. ASSUME NEW t \in Thread, NEW s \in Semaphore \cup {t}, sema_down(t, s) PROVE Goal
    <2>1. /\ Same
          /\ \/ pc[t] = "run" /\ s \in Semaphore
             \/ pc[t] = "wait" /\ s = t
          /\ \/ /\ value[s] > 0 /\ TakeSema(s)
                /\ Goto(t, IF s = t THEN "acquire" ELSE "run", NULL)
             \/ Goto(t, "down", s) /\ UNCHANGED value
        BY <1>16 DEF sema_down, WaitOn
    <2>2. CASE pc[t] = "run" /\ s \in Semaphore
        <3>1. cond[t] = NULL /\ s # t
            BY <1>1, <1>3, <2>2
        <3>2. \/ Goto(t, "run", NULL) /\ TakeSema(s)
              \/ Goto(t, "down", s) /\ UNCHANGED value
            <4>1. (IF s = t THEN "acquire" ELSE "run") = "run"
                BY <3>1
            <4> QED
                BY ZenonT(40), <2>1, <4>1
        <3> QED
            BY <1>4, <1>5, <2>1, <2>2, <3>1, <3>2
    <2>3. CASE pc[t] = "wait" /\ s = t
        <3>1. AwaitsSignal(t)
            BY SMTT(40), <1>1, <2>3 DEF AwaitsSignal, IInv, Where
        <3>2. \/ value[t] # 0 /\ TakeSema(t) /\ Goto(t, "acquire", NULL)
              \/ Goto(t, "down", t) /\ UNCHANGED value
            BY SMT, <1>1, <2>1, <2>3
        <3> QED
            BY <1>5, <1>7, <2>1, <3>1, <3>2
    <2> QED
        BY <2>1, <2>2, <2>3
<1>17. ASSUME NEW t \in Thread, sema_down_resume(t) PROVE Goal
    <2>1. pc[t] = "down" /\ UNCHANGED cond_waiters
        BY ZenonT(40), <1>17 DEF sema_down_resume
    <2>2. /\ arg[t] \in Lock \cup Semaphore \cup {t}
          /\ arg[t] = t => AwaitsSignal(t)
          /\ arg[t] # t => ~ AwaitsSignal(t)
          /\ arg[t] \in Semaphore => cond[t] = NULL
        BY ZenonT(40), <1>1, <2>1 DEF IInv, Where, AwaitsSignal, CondCleared
    <2>3. CASE MustWait(arg[t])
        <3>1. Goto(t, "down", arg[t]) /\ UNCHANGED <<value, cond>>
            BY ZenonT(40), <1>17, <2>3 DEF sema_down_resume, WaitOn
        <3> QED
            BY <1>1, <1>5, <2>1, <2>2, <3>1
    <2>4. CASE ~MustWait(arg[t]) /\ arg[t] \in Lock
        <3>1. Acquired(t, arg[t], priority, max_priority)
            BY ZenonT(40), <1>17, <2>4 DEF sema_down_resume
        <3> QED
            BY <1>1, <1>6, <2>1, <2>2, <2>4, <3>1
    <2>5. CASE ~MustWait(arg[t]) /\ arg[t] \notin Lock
        <3>1. /\ Goto(t, IF arg[t] = t THEN "acquire" ELSE "run", NULL)
              /\ TakeSema(arg[t]) /\ UNCHANGED cond
            BY ZenonT(40), <1>17, <2>5 DEF sema_down_resume
        <3>2. CASE arg[t] = t
            BY <1>7, <2>1, <2>5, <3>1, <3>2 DEF MustWait
        <3>3. CASE arg[t] # t
            BY <1>4, <1>5, <2>1, <2>2, <2>5, <3>1, <3>3
        <3> QED
            BY <3>2, <3>3
    <2> QED
        BY <2>3, <2>4, <2>5
<1>18. ASSUME NEW t \in Thread, NEW s \in Semaphore, sema_try_down(t, s) PROVE Goal
    BY <1>4, <1>18, SignalsSame DEF sema_try_down
<1>19. ASSUME NEW t \in Thread, NEW s \in Semaphore, Up(t, s) PROVE Goal
    BY <1>4, <1>19, SignalsSame DEF Up
<1>20. ASSUME NEW s \in Semaphore, InterruptUp(s) PROVE Goal
    BY <1>4, <1>20, SignalsSame DEF InterruptUp
<1>21. ASSUME Preempt PROVE Goal
    BY <1>21, SignalsSame DEF Preempt, synchVars
<1>22. ASSUME NEW t \in Thread, NEW p \in NewPriority, SetPriority(t, p) PROVE Goal
    BY <1>22, SignalsSame DEF SetPriority, synchVars
<1>23. ASSUME NEW t \in Thread, NEW c \in Condition, cond_wait(t, c) PROVE Goal
    BY <1>23, SignalsAwaited
<1>24. ASSUME NEW t \in Thread, NEW c \in Condition, cond_signal(t, c) PROVE Goal
    <2>1. SignalOne(t, c) /\ UNCHANGED <<pc, arg, cond>> /\ pc[t] = "run"
        BY <1>24 DEF cond_signal
    <2> QED
        BY <2>1, SignalsSent
<1>25. ASSUME NEW t \in Thread, NEW c \in Condition, cond_broadcast(t, c) PROVE Goal
    <2>1. /\ SignalOne(t, c) /\ UNCHANGED cond
          /\ pc[t] = "run" \/ pc[t] = "broadcast"
          /\ Goto(t, "broadcast", c) \/ Goto(t, "run", NULL)
        BY ZenonT(40), <1>25 DEF cond_broadcast
    <2>2. /\ pc'[t] = "run" \/ pc'[t] = "broadcast"
          /\ \A u \in Thread : u # t => pc'[u] = pc[u] /\ arg'[u] = arg[u]
        BY <1>2, <2>1
    <2> QED
        BY <2>1, <2>2, SignalsSent
<1> QED
    BY ZenonT(40), <1>8, <1>9, <1>10, <1>11, <1>12, <1>13, <1>14, <1>15, <1>16, <1>17, <1>18, <1>19,
       <1>20, <1>21, <1>22, <1>23, <1>24, <1>25 DEF Next

(***************************************************************************)
(* No signal is lost, for any number of threads and conditions, although   *)
(* cond_wait () may be preempted anywhere between joining the list and     *)
(* waiting: the signal stays in the waiter's own semaphore.                *)
(***************************************************************************)
THEOREM SignalsArrive == Spec => []NoLostSignal
<1>1. Init => NoLostSignal /\ CondCleared
    <2> SUFFICES ASSUME Init PROVE NoLostSignal /\ CondCleared
        OBVIOUS
    <2>1. /\ cond = [t \in Thread |-> NULL]
          /\ cond_waiters = [c \in Condition |-> <<>>]
        BY DEF Init
    <2>2. \A t \in Thread : cond[t] = NULL
        BY <2>1
    <2>3. \A c \in Condition : Distinct(cond_waiters[c]) /\ Elements(cond_waiters[c]) = {}
        BY SMT, <2>1 DEF Distinct, Elements
    <2> QED
        BY <2>2, <2>3 DEF NoLostSignal, CondCleared, AwaitsSignal
<1>2. IInv /\ (NoLostSignal /\ CondCleared) /\ [Next]_vars => (NoLostSignal /\ CondCleared)'
    <2>1. CASE UNCHANGED vars
        BY <2>1, SignalsSame DEF vars, threadVars, synchVars
    <2> QED
        BY <2>1, SignalStep
<1> QED
    BY <1>1, <1>2, Invariance, PTL DEF Spec
===============================================================================
