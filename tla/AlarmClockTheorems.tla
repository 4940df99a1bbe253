-------------------------- MODULE AlarmClockTheorems --------------------------
(***************************************************************************)
(* Proofs about AlarmClock and Mlfqs: under either scheduler every thread  *)
(* is accounted for, sleepers wake on their tick, the processor goes to    *)
(* the highest priority, and load_avg and recent_cpu stay bounded.         *)
(***************************************************************************)
EXTENDS Mlfqs, ThreadsTheorems

\* Zenon proves the leaves that name no prover.
USE Zenon

(***************************************************************************)
(* Waking the threads that are due.  Woken is a recursive function, and is *)
(* what its definition says.                                               *)
(***************************************************************************)
Unblocks(list, rl, due, pri, n) ==
    list = [i \in 0..n |-> IF i = 0 THEN rl ELSE UnblockedList(list[i - 1], due[i], pri)]

\* A function of that form exists for every number of threads.
LEMMA UnblocksExist ==
    ASSUME NEW rl, NEW due, NEW pri, NEW n \in Nat
    PROVE  \E list : Unblocks(list, rl, due, pri, n)
<1> DEFINE Bad == {m \in Nat : ~ \E list : Unblocks(list, rl, due, pri, m)}
<1> SUFFICES ASSUME Bad # {} PROVE FALSE
    OBVIOUS
<1>1. Bad \subseteq Nat
    OBVIOUS
<1>2. PICK m \in Bad : \A x \in Bad : m <= x
    BY ZenonT(40), <1>1, LeastNat
<1>3. m # 0
    <2> DEFINE f == [i \in 0..0 |-> rl]
    <2>1. Unblocks(f, rl, due, pri, 0)
        BY SMT DEF Unblocks
    <2> QED
        BY ZenonT(40), <2>1, <1>2
<1>4. m \in Nat /\ ~ \E list : Unblocks(list, rl, due, pri, m)
    BY <1>2
<1>5. m - 1 \in Nat /\ m - 1 \notin Bad
    <2> HIDE DEF Bad
    <2>1. m \in Nat /\ m - 1 \in Nat /\ ~ (m <= m - 1)
        BY SMT, <1>3, <1>4
    <2> QED
        BY <2>1, <1>2
<1>6. PICK f : Unblocks(f, rl, due, pri, m - 1)
    BY <1>5
<1> HIDE DEF Bad
<1> DEFINE g == [i \in 0..m |-> IF i = m THEN UnblockedList(f[m - 1], due[m], pri) ELSE f[i]]
<1>7. \A i \in 0..m - 1 : f[i] = IF i = 0 THEN rl ELSE UnblockedList(f[i - 1], due[i], pri)
    BY ZenonT(40), <1>6 DEF Unblocks
<1>8. \A i \in 0..m : g[i] = IF i = 0 THEN rl ELSE UnblockedList(g[i - 1], due[i], pri)
    <2> TAKE i \in 0..m
    <2>1. CASE i = m
        <3>1. g[i] = UnblockedList(f[m - 1], due[m], pri) /\ i # 0
            BY <2>1, <1>3
        <3>2. m - 1 \in 0..m /\ m - 1 # m /\ g[m - 1] = f[m - 1]
            BY SMT, <1>4, <1>5
        <3> QED
            BY <2>1, <3>1, <3>2
    <2>2. CASE i # m
        <3>1. i \in 0..m - 1 /\ g[i] = f[i]
            BY SMT, <2>2, <1>4
        <3>2. CASE i = 0
            BY <3>1, <3>2, <1>7
        <3>3. CASE i # 0
            <4>1. i - 1 \in 0..m /\ i - 1 # m /\ g[i - 1] = f[i - 1]
                BY SMT, <3>1, <3>3, <1>4
            <4> QED
                BY <3>1, <3>3, <4>1, <1>7
        <3> QED
            BY <3>2, <3>3
    <2> QED
        BY <2>1, <2>2
<1>9. Unblocks(g, rl, due, pri, m)
    <2>1. g = [i \in 0..m |-> g[i]]
        OBVIOUS
    <2> HIDE DEF g
    <2>2. g = [i \in 0..m |-> IF i = 0 THEN rl ELSE UnblockedList(g[i - 1], due[i], pri)]
        BY ZenonT(40), <2>1, <1>8
    <2> QED
        BY ZenonT(40), <2>2 DEF Unblocks
<1> QED
    BY <1>4, <1>9

\* Woken is the last list of such a function.
LEMMA WokenIs ==
    ASSUME NEW rl, NEW due, NEW pri, Len(due) \in Nat
    PROVE  \E list : /\ Unblocks(list, rl, due, pri, Len(due))
                     /\ Woken(rl, due, pri) = list[Len(due)]
<1> DEFINE G(f) == Unblocks(f, rl, due, pri, Len(due))
<1>1. \E f : G(f)
    BY UnblocksExist
<1>2. G(CHOOSE f : G(f))
    BY ZenonT(40), <1>1
<1>3. Woken(rl, due, pri) = (CHOOSE f : G(f))[Len(due)]
    BY DEF Woken, Unblocks
<1> QED
    BY <1>2, <1>3

\* The states when the first n threads of due have been made ready.
MadeReady(st, due, n) ==
    [t \in AllThread |-> IF \E j \in 1..n : due[j] = t THEN "READY" ELSE st[t]]

(***************************************************************************)
(* Waking every thread of due keeps the run queue in step with the states, *)
(* and ordered.                                                            *)
(***************************************************************************)
LEMMA WokenOK ==
    ASSUME NEW rl, NEW st, NEW pri, Matches(rl, st, pri), Ordered(rl, pri),
           NEW due \in Seq(Thread), Distinct(due),
           \A t \in Elements(due) : st[t] # "READY"
    PROVE  LET s == [t \in AllThread |-> IF t \in Elements(due) THEN "READY" ELSE st[t]]
           IN  /\ Matches(Woken(rl, due, pri), s, pri)
               /\ Ordered(Woken(rl, due, pri), pri)
<1> DEFINE n == Len(due)
<1>1. /\ n \in Nat /\ \A i \in 1..n : due[i] \in Thread
      /\ Thread \subseteq AllThread
    BY SMT DEF AllThread
<1>2. /\ st \in [AllThread -> Status] /\ pri \in [AllThread -> Priority]
      /\ rl \in Seq(Thread)
    BY DEF Matches
<1>3. \A x \in Thread : pri[x] \in Int
    BY ZenonT(40), <1>1, <1>2, PriorityIsInt
<1>4. PICK list : Unblocks(list, rl, due, pri, n) /\ Woken(rl, due, pri) = list[n]
    BY ZenonT(40), <1>1, WokenIs
<1>5. /\ list[0] = rl
      /\ \A i \in 1..n : list[i] = UnblockedList(list[i - 1], due[i], pri)
    BY SMT, <1>1, <1>4 DEF Unblocks
<1> DEFINE Good(i) == Matches(list[i], MadeReady(st, due, i), pri) /\ Ordered(list[i], pri)
           Bad == {i \in 0..n : ~ Good(i)}
<1>6. Good(0)
    <2>1. MadeReady(st, due, 0) = st
        BY SMT, <1>2 DEF MadeReady
    <2> QED
        BY <2>1, <1>5
<1>7. ASSUME NEW i \in 1..n, Good(i - 1) PROVE Good(i)
    <2>1. i - 1 \in 0..n /\ due[i] \in Thread /\ due[i] \in Elements(due) /\ i - 1 \in Nat
        BY SMT, <1>1 DEF Elements
    <2>2. \A j \in 1..i - 1 : j \in 1..n /\ j # i /\ due[j] # due[i]
        BY SMT, <1>1 DEF Distinct
    <2>3. MadeReady(st, due, i - 1)[due[i]] # "READY"
        BY <1>1, <2>1, <2>2 DEF MadeReady
    <2>4. Matches(UnblockedList(list[i - 1], due[i], pri),
                  UnblockedStatus(MadeReady(st, due, i - 1), due[i]), pri)
        BY <1>7, <2>1, <2>3, UnblockOK
    <2>5. UnblockedStatus(MadeReady(st, due, i - 1), due[i]) = MadeReady(st, due, i)
        <3>1. \A t \in AllThread : (\E j \in 1..i : due[j] = t) <=>
                                      (t = due[i] \/ \E j \in 1..i - 1 : due[j] = t)
            BY SMT, <1>1
        <3> QED
            BY ZenonT(40), <3>1, <1>1 DEF UnblockedStatus, MadeReady
    <2>6. list[i - 1] \in Seq(Thread)
        BY <1>7 DEF Matches
    <2>7. Ordered(UnblockedList(list[i - 1], due[i], pri), pri)
        BY <1>3, <1>7, <2>1, <2>6, InsertOrdered DEF UnblockedList
    <2> QED
        BY <1>5, <2>4, <2>5, <2>7
<1> HIDE DEF Good
<1>8. Bad = {}
    <2> SUFFICES ASSUME Bad # {} PROVE FALSE
        OBVIOUS
    <2>1. Bad \subseteq Nat
        BY SMT, <1>1
    <2>2. PICK m \in Bad : \A x \in Bad : m <= x
        BY ZenonT(40), <2>1, LeastNat
    <2>3. m \in 0..n /\ ~ Good(m)
        BY <2>2
    <2>4. m \in 1..n
        BY SMT, <2>3, <1>6, <1>1
    <2>5. m - 1 \in 0..n /\ ~ (m <= m - 1)
        BY SMT, <2>4, <1>1
    <2>6. Good(m - 1)
        BY <2>2, <2>5
    <2> QED
        BY <1>7, <2>3, <2>4, <2>6
<1>9. Good(n)
    BY SMT, <1>1, <1>8
<1>10. MadeReady(st, due, n) = [t \in AllThread |-> IF t \in Elements(due) THEN "READY" ELSE st[t]]
    BY DEF MadeReady, Elements
<1> QED
    BY <1>4, <1>9, <1>10 DEF Good

-------------------------------------------------------------------------------
(***************************************************************************)
(* schedule () of the feedback queue takes the front of the run queue as   *)
(* it finds it, which is the highest priority while the queue is ordered.  *)
(***************************************************************************)
LEMMA FrontRuns ==
    ASSUME NEW rl, NEW st, NEW pri, Matches(rl, st, pri), Ordered(rl, pri),
           \A t \in AllThread : st[t] # "RUNNING",
           Schedule(rl, st)
    PROVE  Rescheduled(st, pri)
<1>1. /\ st \in [AllThread -> Status] /\ pri \in [AllThread -> Priority]
      /\ rl \in Seq(Thread) /\ Distinct(rl)
      /\ Elements(rl) = {t \in Thread : st[t] = "READY"}
    BY DEF Matches
<1>2. /\ idle_thread \in AllThread /\ idle_thread \notin Thread /\ Thread \subseteq AllThread
      /\ \A x \in Thread : pri[x] \in Int
    <2>1. idle_thread \in AllThread /\ idle_thread \notin Thread /\ Thread \subseteq AllThread
        BY ThreadAssumption DEF AllThread
    <2> QED
        BY ZenonT(40), <1>1, <2>1, PriorityIsInt
<1>3. CASE rl = <<>>
    <2>1. /\ current' = idle_thread /\ ready_list' = <<>>
          /\ status' = [st EXCEPT ![idle_thread] = "RUNNING"]
        BY ZenonT(40), <1>3 DEF Schedule
    <2>2. Elements(<<>>) = {} /\ Distinct(<<>>) /\ Ordered(<<>>, pri) /\ <<>> \in Seq(Thread)
        BY SMT DEF Elements, Distinct, Ordered
    <2>3. status' \in [AllThread -> Status]
        BY ZenonT(40), <1>1, <2>1 DEF Status
    <2>4. \A t \in AllThread : status'[t] = IF t = idle_thread THEN "RUNNING" ELSE st[t]
        BY <1>1, <2>1
    <2>5. {t \in Thread : status'[t] = "READY"} = {}
        BY <1>1, <1>2, <1>3, <2>2, <2>4
    <2>6. SchedulerOK'
        BY <1>2, <2>1, <2>2, <2>4, <2>5 DEF SchedulerOK, OneRunning, QueueIsReady
    <2> QED
        BY <1>2, <2>1, <2>2, <2>3, <2>4, <2>6 DEF Rescheduled
<1>4. CASE rl # <<>>
    <2>1. /\ list_front(rl) \in Thread
          /\ list_rest(rl) \in Seq(Thread)
          /\ Elements(rl) = Elements(list_rest(rl)) \cup {list_front(rl)}
          /\ Distinct(list_rest(rl))
          /\ list_front(rl) \notin Elements(list_rest(rl))
        BY <1>1, <1>4, FrontRest
    <2>2. /\ Ordered(list_rest(rl), pri)
          /\ \A x \in Elements(list_rest(rl)) : pri[list_front(rl)] >= pri[x]
        BY <1>1, <1>4, FrontRestOrdered
    <2>3. /\ current' = list_front(rl) /\ ready_list' = list_rest(rl)
          /\ status' = [st EXCEPT ![list_front(rl)] = "RUNNING"]
        BY <1>4 DEF Schedule
    <2>4. current' \in AllThread /\ current' # idle_thread
        BY <1>2, <2>1, <2>3
    <2>5. status' \in [AllThread -> Status]
        BY ZenonT(40), <1>1, <2>3 DEF Status
    <2>6. \A t \in AllThread : status'[t] = IF t = current' THEN "RUNNING" ELSE st[t]
        BY <1>1, <2>3
    <2>7. st[current'] = "READY"
        BY <1>1, <2>1, <2>3
    <2>8. Elements(ready_list') = {t \in Thread : status'[t] = "READY"}
        <3>1. Elements(ready_list') = Elements(rl) \ {current'}
            BY <2>1, <2>3
        <3>2. {t \in Thread : status'[t] = "READY"} = {t \in Thread : st[t] = "READY"} \ {current'}
            BY <1>2, <2>6
        <3> QED
            BY <1>1, <3>1, <3>2
    <2>9. SchedulerOK'
        BY <2>1, <2>3, <2>4, <2>6, <2>8 DEF SchedulerOK, OneRunning, QueueIsReady
    <2>10. \A t \in Elements(ready_list') : pri[t] <= pri[current']
        <3> TAKE t \in Elements(ready_list')
        <3>1. t \in Thread /\ current' \in Thread /\ pri[current'] >= pri[t]
            BY <2>1, <2>2, <2>3, <2>8
        <3> QED
            BY <3>1, <1>2
    <2> QED
        BY <2>1, <2>2, <2>3, <2>4, <2>5, <2>6, <2>7, <2>9, <2>10 DEF Rescheduled
<1> QED
    BY <1>3, <1>4

\* thread_yield () of the feedback queue.
LEMMA YieldToOK ==
    ASSUME NEW rl, NEW st, NEW pri, Matches(rl, st, pri), Ordered(rl, pri),
           current \in AllThread, \A t \in AllThread : st[t] = "RUNNING" <=> t = current,
           YieldTo(rl, st, pri)
    PROVE  Rescheduled([st EXCEPT ![current] = "READY"], pri)
<1> DEFINE s == [st EXCEPT ![current] = "READY"]
           q == IF current = idle_thread THEN rl ELSE list_insert_ordered(rl, current, pri)
<1>1. /\ st \in [AllThread -> Status] /\ pri \in [AllThread -> Priority]
      /\ rl \in Seq(Thread) /\ Distinct(rl)
      /\ Elements(rl) = {t \in Thread : st[t] = "READY"}
    BY DEF Matches
<1>2. /\ s \in [AllThread -> Status]
      /\ \A t \in AllThread : s[t] = IF t = current THEN "READY" ELSE st[t]
    BY <1>1 DEF Status
<1>3. Schedule(q, s)
    BY DEF YieldTo
<1>4. \A x \in Thread : pri[x] \in Int
    BY ZenonT(40), <1>1, PriorityIsInt DEF AllThread
<1> HIDE DEF s
<1>5. Matches(q, s, pri) /\ Ordered(q, pri)
    <2>1. CASE current = idle_thread
        <3>1. {t \in Thread : s[t] = "READY"} = {t \in Thread : st[t] = "READY"}
            BY <1>2, <2>1, ThreadAssumption DEF AllThread
        <3>2. q = rl
            BY <2>1
        <3> QED
            BY <1>1, <1>2, <3>1, <3>2 DEF Matches
    <2>2. CASE current # idle_thread
        <3>1. current \in Thread
            BY <2>2 DEF AllThread
        <3>2. current \notin Elements(rl)
            BY <1>1
        <3>3. /\ q \in Seq(Thread) /\ Distinct(q)
              /\ Elements(q) = Elements(rl) \cup {current}
            BY SMT, <1>1, <2>2, <3>1, <3>2, InsertElements
        <3>4. {t \in Thread : s[t] = "READY"} = {t \in Thread : st[t] = "READY"} \cup {current}
            BY <1>2, <3>1 DEF AllThread
        <3>5. Ordered(q, pri)
            BY <1>1, <1>4, <2>2, <3>1, InsertOrdered
        <3> HIDE DEF q
        <3> QED
            BY <1>1, <1>2, <3>3, <3>4, <3>5 DEF Matches
    <2> QED
        BY <2>1, <2>2
<1>6. \A t \in AllThread : s[t] # "RUNNING"
    BY <1>2
<1> HIDE DEF q
<1>7. Rescheduled(s, pri)
    BY <1>3, <1>5, <1>6, FrontRuns
<1> QED
    BY <1>7 DEF s

-------------------------------------------------------------------------------
(***************************************************************************)
(* The sleepers: the list is ordered by what is left of their sleep, and   *)
(* nobody on it is due.                                                    *)
(***************************************************************************)
Asleep ==
    /\ sleeping_list \in Seq(Thread)
    /\ wakeup \in [Thread -> 0..MaxSleep]
    /\ Distinct(sleeping_list)
    /\ Ordered(sleeping_list, SleepKey(wakeup))
    /\ \A t \in Sleeping : wakeup[t] > 0

\* What a tick leaves of each sleep, and the threads whose sleep it ends.
Remaining == [t \in Thread |-> IF t \in Sleeping THEN wakeup[t] - 1 ELSE 0]
Due == SubSeq(sleeping_list, 1, DueCount(Remaining))

\* timer_interrupt () pops the front of the list up to the last thread that is
\* due, which are all the threads that are due.
LEMMA DueCounts ==
    ASSUME Asleep
    PROVE  /\ DueCount(Remaining) \in 0..Len(sleeping_list)
           /\ \A i \in 1..Len(sleeping_list) :
                 i <= DueCount(Remaining) <=> wakeup[sleeping_list[i]] = 1
<1> DEFINE n == Len(sleeping_list)
           k == DueCount(Remaining)
           P == {i \in 1..n : \A j \in 1..i : Remaining[sleeping_list[j]] <= 0}
<1>1. n \in Nat /\ \A i \in 1..n : sleeping_list[i] \in Thread /\ sleeping_list[i] \in Sleeping
    BY SMT DEF Asleep, Sleeping, Elements
<1>2. \A t \in Thread : wakeup[t] \in 0..MaxSleep /\ wakeup[t] \in Int /\ MaxSleep \in Nat
    BY SMT, AlarmAssumption DEF Asleep
<1>3. \A i \in 1..n : /\ wakeup[sleeping_list[i]] > 0 /\ wakeup[sleeping_list[i]] \in Int
                      /\ Remaining[sleeping_list[i]] = wakeup[sleeping_list[i]] - 1
    BY <1>1, <1>2 DEF Asleep, Remaining
<1>4. \A i, j \in 1..n : i < j => wakeup[sleeping_list[i]] <= wakeup[sleeping_list[j]]
    <2> TAKE i, j \in 1..n
    <2>1. i < j => - wakeup[sleeping_list[i]] >= - wakeup[sleeping_list[j]]
        BY ZenonT(40), <1>1 DEF Asleep, Ordered, SleepKey
    <2> QED
        BY SMT, <2>1, <1>3
<1>5. \A i \in 1..n : i \in P <=> wakeup[sleeping_list[i]] = 1
    <2> TAKE i \in 1..n
    <2>1. ASSUME i \in P PROVE wakeup[sleeping_list[i]] = 1
        <3>1. Remaining[sleeping_list[i]] <= 0
            BY SMT, <2>1
        <3> QED
            BY SMT, <3>1, <1>3
    <2>2. ASSUME wakeup[sleeping_list[i]] = 1 PROVE i \in P
        <3> SUFFICES ASSUME NEW j \in 1..i PROVE Remaining[sleeping_list[j]] <= 0
            OBVIOUS
        <3>1. j \in 1..n /\ (j = i \/ j < i)
            BY SMT, <1>1
        <3>2. wakeup[sleeping_list[j]] <= 1
            BY SMT, <3>1, <2>2, <1>3, <1>4
        <3> QED
            BY SMT, <3>1, <3>2, <1>3
    <2> QED
        BY <2>1, <2>2
<1>6. k = Cardinality(P)
    BY DEF DueCount
<1>7. P = 1..k
    <2>1. P \subseteq 1..n
        OBVIOUS
    <2>2. \A i \in P : \A j \in 1..i : j \in P
        BY SMT, <1>1
    <2> HIDE DEF P, n
    <2> QED
        BY ZenonT(40), <2>1, <2>2, <1>1, <1>6, InitialSegment
<1>8. k \in Nat /\ k <= n
    <2>2. P \subseteq 1..n
        OBVIOUS
    <2> HIDE DEF P, n, k
    <2>1. IsFiniteSet(1..n) /\ Cardinality(1..n) = n
        <3>1. Cardinality(1..n) = IF 1 > n THEN 0 ELSE n - 1 + 1
            BY SMT, <1>1, FS_Interval
        <3> QED
            BY SMT, <3>1, <1>1, FS_Interval
    <2>3. IsFiniteSet(P) /\ Cardinality(P) <= Cardinality(1..n)
        BY ZenonT(40), <2>1, <2>2, FS_Subset
    <2>4. Cardinality(P) \in Nat
        BY <2>3, FS_CardinalityType
    <2> QED
        BY <2>1, <2>3, <2>4, <1>6
<1> HIDE DEF P, k
<1>9. k \in 0..n
    BY SMT, <1>8, <1>1
<1>10. \A i \in 1..n : i <= k <=> wakeup[sleeping_list[i]] = 1
    BY SMT, <1>1, <1>5, <1>7, <1>8
<1> QED
    BY <1>9, <1>10 DEF k

\* The threads popped are the threads that are due.
LEMMA DueOK ==
    ASSUME Asleep
    PROVE  /\ Due \in Seq(Thread)
           /\ Distinct(Due)
           /\ Elements(Due) = {t \in Sleeping : wakeup[t] = 1}
<1> DEFINE n == Len(sleeping_list)
           k == DueCount(Remaining)
<1>1. n \in Nat /\ sleeping_list \in Seq(Thread)
    BY SMT DEF Asleep
<1>2. k \in 0..n /\ \A i \in 1..n : i <= k <=> wakeup[sleeping_list[i]] = 1
    BY DueCounts
<1>3. Due = SubSeq(sleeping_list, 1, k)
    BY DEF Due
<1> HIDE DEF k
<1>4. Due \in Seq(Thread) /\ Len(Due) = k /\ \A i \in 1..k : Due[i] = sleeping_list[i]
    BY SMT, <1>1, <1>2, <1>3
<1>5. Distinct(Due)
    BY SMTT(40), <1>1, <1>2, <1>4 DEF Distinct, Asleep
<1>6. \A i \in 1..k : i \in 1..n
    BY SMT, <1>1, <1>2
<1>7. Elements(Due) = {t \in Sleeping : wakeup[t] = 1}
    <2>1. ASSUME NEW t \in Elements(Due) PROVE t \in Sleeping /\ wakeup[t] = 1
        <3>1. PICK i \in 1..k : t = sleeping_list[i]
            BY <1>4 DEF Elements
        <3>2. i \in 1..n /\ i <= k
            BY SMT, <1>1, <1>2
        <3> QED
            BY <3>1, <3>2, <1>2 DEF Sleeping, Elements
    <2>2. ASSUME NEW t \in Sleeping, wakeup[t] = 1 PROVE t \in Elements(Due)
        <3>1. PICK i \in 1..n : t = sleeping_list[i]
            BY DEF Sleeping, Elements
        <3>2. i \in 1..k
            BY SMT, <3>1, <2>2, <1>1, <1>2
        <3> QED
            BY <3>1, <3>2, <1>4 DEF Elements
    <2> QED
        BY <2>1, <2>2
<1> QED
    BY <1>4, <1>5, <1>7

\* The others sleep on, in order.
LEMMA StillOK ==
    ASSUME Asleep, sleeping_list' = StillAsleep(DueCount(Remaining)), wakeup' = Remaining
    PROVE  /\ Asleep'
           /\ Sleeping' = {t \in Sleeping : wakeup[t] # 1}
<1> DEFINE n == Len(sleeping_list)
           k == DueCount(Remaining)
<1>1. n \in Nat /\ sleeping_list \in Seq(Thread) /\ wakeup \in [Thread -> 0..MaxSleep]
    BY SMT DEF Asleep
<1>2. k \in 0..n /\ \A i \in 1..n : i <= k <=> wakeup[sleeping_list[i]] = 1
    BY DueCounts
<1>3. sleeping_list' = SubSeq(sleeping_list, k + 1, n)
    BY DEF StillAsleep
<1> HIDE DEF k
<1>4. /\ sleeping_list' \in Seq(Thread) /\ Len(sleeping_list') = n - k
      /\ \A i \in 1..n - k : sleeping_list'[i] = sleeping_list[k + i]
    BY SMT, <1>1, <1>2, <1>3
<1>5. \A i \in 1..n - k : k + i \in 1..n /\ ~ (k + i <= k)
    BY SMT, <1>1, <1>2
<1>6. Sleeping' = {t \in Sleeping : wakeup[t] # 1}
    <2>1. ASSUME NEW t \in Sleeping' PROVE t \in Sleeping /\ wakeup[t] # 1
        <3>1. PICK i \in 1..n - k : t = sleeping_list[k + i]
            BY <1>4 DEF Sleeping, Elements
        <3> QED
            BY <3>1, <1>2, <1>5 DEF Sleeping, Elements
    <2>2. ASSUME NEW t \in Sleeping, wakeup[t] # 1 PROVE t \in Sleeping'
        <3>1. PICK i \in 1..n : t = sleeping_list[i]
            BY DEF Sleeping, Elements
        <3>2. ~ (i <= k)
            BY <3>1, <2>2, <1>2
        <3>3. i - k \in 1..n - k /\ k + (i - k) = i
            BY SMT, <3>1, <3>2, <1>1, <1>2
        <3> QED
            BY <3>1, <3>3, <1>4 DEF Sleeping, Elements
    <2> QED
        BY <2>1, <2>2
<1>7. Sleeping \subseteq Thread /\ \A t \in Sleeping : wakeup[t] > 0
    BY SMT, <1>1 DEF Asleep, Sleeping, Elements
<1>8. \A t \in Thread : wakeup[t] \in 0..MaxSleep /\ wakeup[t] \in Int /\ MaxSleep \in Nat
    BY SMT, <1>1, AlarmAssumption
<1>9. \A t \in Sleeping : wakeup'[t] = wakeup[t] - 1
    BY <1>7 DEF Remaining
<1>10. wakeup' \in [Thread -> 0..MaxSleep]
    <2>1. \A t \in Thread : (IF t \in Sleeping THEN wakeup[t] - 1 ELSE 0) \in 0..MaxSleep
        BY SMT, <1>7, <1>8
    <2> QED
        BY <2>1 DEF Remaining
<1>11. \A t \in Sleeping' : wakeup'[t] > 0
    BY SMT, <1>6, <1>7, <1>8, <1>9
<1>12. Distinct(sleeping_list')
    <2> SUFFICES ASSUME NEW i \in 1..n - k, NEW j \in 1..n - k,
                        sleeping_list'[i] = sleeping_list'[j]
                 PROVE  i = j
        BY <1>4 DEF Distinct
    <2>1. k + i = k + j
        BY <1>4, <1>5 DEF Asleep, Distinct
    <2> QED
        BY SMT, <2>1, <1>1, <1>2
<1>13. Ordered(sleeping_list', SleepKey(wakeup'))
    <2> SUFFICES ASSUME NEW i \in 1..n - k, NEW j \in 1..n - k, i < j
                 PROVE  SleepKey(wakeup')[sleeping_list'[i]] >= SleepKey(wakeup')[sleeping_list'[j]]
        BY <1>4 DEF Ordered
    <2> DEFINE a == sleeping_list[k + i]
               b == sleeping_list[k + j]
    <2>1. k + i \in 1..n /\ k + j \in 1..n /\ k + i < k + j
        BY SMT, <1>1, <1>2, <1>5
    <2>2. /\ a \in Sleeping /\ b \in Sleeping /\ a \in Thread /\ b \in Thread
          /\ sleeping_list'[i] = a /\ sleeping_list'[j] = b
        BY <2>1, <1>4, <1>7 DEF Sleeping, Elements
    <2>3. SleepKey(wakeup)[a] >= SleepKey(wakeup)[b]
        BY <2>1 DEF Asleep, Ordered
    <2> HIDE DEF a, b
    <2>4. - wakeup[a] >= - wakeup[b] /\ wakeup[a] \in Int /\ wakeup[b] \in Int
        BY <2>2, <2>3, <1>8 DEF SleepKey
    <2>5. - (wakeup[a] - 1) >= - (wakeup[b] - 1)
        BY SMTT(40), <2>4
    <2>6. SleepKey(wakeup')[a] = - (wakeup[a] - 1) /\ SleepKey(wakeup')[b] = - (wakeup[b] - 1)
        BY <2>2, <1>9 DEF SleepKey
    <2> QED
        BY <2>2, <2>5, <2>6
<1> QED
    BY <1>4, <1>6, <1>10, <1>11, <1>12, <1>13 DEF Asleep

\* timer_sleep () puts the running thread where its sleep belongs.
LEMMA FallAsleep ==
    ASSUME Asleep, NEW c \in Thread, c \notin Sleeping, NEW n \in 1..MaxSleep,
           wakeup' = [wakeup EXCEPT ![c] = n], sleeping_list' = SleepInsert(c, wakeup')
    PROVE  Asleep' /\ Sleeping' = Sleeping \cup {c}
<1>1. /\ sleeping_list \in Seq(Thread) /\ wakeup \in [Thread -> 0..MaxSleep]
      /\ Distinct(sleeping_list)
    BY DEF Asleep
<1>2. /\ MaxSleep \in Nat /\ n \in 0..MaxSleep
      /\ \A t \in Thread : wakeup'[t] = IF t = c THEN n ELSE wakeup[t]
    BY SMT, <1>1, AlarmAssumption
<1>3. wakeup' \in [Thread -> 0..MaxSleep]
    BY <1>1, <1>2
<1>4. \A x \in Thread : wakeup'[x] \in Int /\ SleepKey(wakeup')[x] \in Int
    BY SMT, <1>2, <1>3 DEF SleepKey
<1>5. sleeping_list' = list_insert_ordered(sleeping_list, c, SleepKey(wakeup'))
    BY DEF SleepInsert
<1>6. /\ sleeping_list' \in Seq(Thread)
      /\ Sleeping' = Sleeping \cup {c}
      /\ Distinct(sleeping_list')
    <2>1. /\ sleeping_list \in Seq(Thread) /\ Distinct(sleeping_list)
          /\ c \notin Elements(sleeping_list) /\ Sleeping' = Elements(sleeping_list')
        BY <1>1 DEF Sleeping
    <2> DEFINE key == SleepKey(wakeup')
               l == list_insert_ordered(sleeping_list, c, key)
    <2> HIDE DEF key
    <2>2. /\ l \in Seq(Thread)
          /\ Elements(l) = Elements(sleeping_list) \cup {c}
          /\ Distinct(l)
        BY SMT, <2>1, InsertElements
    <2>3. sleeping_list' = l
        BY <1>5 DEF key
    <2> HIDE DEF l
    <2> QED
        BY ZenonT(40), <2>1, <2>2, <2>3 DEF Sleeping
<1>7. Ordered(sleeping_list, SleepKey(wakeup'))
    <2>1. \A i \in 1..Len(sleeping_list) : /\ sleeping_list[i] \in Thread
                                           /\ sleeping_list[i] # c
        BY SMT, <1>1 DEF Sleeping, Elements
    <2>2. \A i \in 1..Len(sleeping_list) :
             SleepKey(wakeup')[sleeping_list[i]] = SleepKey(wakeup)[sleeping_list[i]]
        BY SMT, <1>2, <2>1 DEF SleepKey
    <2> QED
        BY ZenonT(40), <2>2 DEF Ordered, Asleep
<1>8. Ordered(sleeping_list', SleepKey(wakeup'))
    BY ZenonT(40), <1>1, <1>4, <1>5, <1>7, InsertOrdered
<1>9. \A t \in Sleeping' : wakeup'[t] > 0
    <2>1. Sleeping \subseteq Thread
        BY SMT, <1>1 DEF Sleeping, Elements
    <2> QED
        BY SMT, <2>1, <1>2, <1>6 DEF Asleep
<1> QED
    BY <1>3, <1>6, <1>8, <1>9 DEF Asleep

-------------------------------------------------------------------------------
(***************************************************************************)
(* The scheduler's part of a step, for either scheduler: what a yield and  *)
(* schedule () start from, and what they leave.                            *)
(***************************************************************************)
Scheduling == ThreadTypeOK /\ SchedulerOK /\ Ordered(ready_list, priority)

\* The run queue, states and priorities with which the running thread may yield.
Running(rl, st, pri) ==
    /\ Matches(rl, st, pri)
    /\ Ordered(rl, pri)
    /\ \A t \in AllThread : st[t] = "RUNNING" <=> t = current

\* The same for schedule (), when the running thread has given up the processor.
Stopped(rl, st, pri) ==
    /\ Matches(rl, st, pri)
    /\ Ordered(rl, pri)
    /\ \A t \in AllThread : st[t] # "RUNNING"

\* Whoever is blocked, dying or free in st is so afterwards, and nobody else.
OffQueue == {"BLOCKED", "DYING", "FREE"}
Keeps(st) == \A u \in Thread : \A x \in OffQueue : status'[u] = x <=> st[u] = x

\* The fields thread_set_priority () keeps are priorities.
Bases == base_priority \in [AllThread -> Priority] /\ donated_priority \in [AllThread -> Priority]

\* In a state of the invariant the running thread may yield.
LEMMA RunningNow ==
    ASSUME Scheduling
    PROVE  Running(ready_list, status, priority) /\ current \in AllThread
BY SchedulerMatches DEF Scheduling, Running

\* Rescheduling keeps who is off the run queue.
LEMMA RescheduledKeeps ==
    ASSUME NEW st, NEW pri, Rescheduled(st, pri)
    PROVE  Keeps(st)
<1>1. Thread \subseteq AllThread /\ idle_thread \notin Thread
    BY ThreadAssumption DEF AllThread
<1>2. \A u \in Thread : u # current' => status'[u] = st[u]
    BY <1>1 DEF Rescheduled
<1>3. current' \in Thread => st[current'] = "READY" /\ status'[current'] = "RUNNING"
    BY <1>1 DEF Rescheduled, SchedulerOK, OneRunning
<1> QED
    BY <1>2, <1>3 DEF Keeps, OffQueue

\* What rescheduling leaves is a state of the invariant, with the highest
\* priority running.
LEMMA RescheduledOK ==
    ASSUME NEW st, NEW pri, Rescheduled(st, pri), pri \in [AllThread -> Priority],
           priority' = pri, Bases'
    PROVE  Scheduling' /\ HighestRuns'
BY DEF Rescheduled, Scheduling, ThreadTypeOK, HighestRuns, Bases

\* thread_yield () under either scheduler.
LEMMA AfterYield ==
    ASSUME NEW rl, NEW st, NEW pri, Running(rl, st, pri), current \in AllThread,
           thread_yield(rl, st, pri) \/ YieldTo(rl, st, pri),
           priority' = pri, Bases'
    PROVE  Scheduling' /\ HighestRuns' /\ Keeps(st)
<1> DEFINE s == [st EXCEPT ![current] = "READY"]
<1>1. /\ Matches(rl, st, pri) /\ Ordered(rl, pri)
      /\ \A t \in AllThread : st[t] = "RUNNING" <=> t = current
    BY DEF Running
<1>2. Rescheduled(s, pri)
    BY <1>1, YieldOK, YieldToOK
<1>3. pri \in [AllThread -> Priority] /\ st \in [AllThread -> Status] /\ Thread \subseteq AllThread
    BY <1>1 DEF Matches, AllThread
<1>4. \A u \in Thread : \A x \in OffQueue : s[u] = x <=> st[u] = x
    BY <1>1, <1>3 DEF OffQueue
<1> HIDE DEF s
<1>5. Keeps(s)
    BY <1>2, RescheduledKeeps
<1>6. Keeps(st)
    BY <1>4, <1>5 DEF Keeps
<1> QED
    BY <1>2, <1>3, <1>6, RescheduledOK

\* schedule () under either scheduler.
LEMMA AfterSchedule ==
    ASSUME NEW rl, NEW st, NEW pri, Stopped(rl, st, pri),
           schedule(rl, st, pri) \/ Schedule(rl, st),
           priority' = pri, Bases'
    PROVE  Scheduling' /\ HighestRuns' /\ Keeps(st)
<1>1. /\ Matches(rl, st, pri) /\ Ordered(rl, pri)
      /\ \A t \in AllThread : st[t] # "RUNNING"
    BY DEF Stopped
<1>2. Rescheduled(st, pri)
    BY <1>1, ScheduleOK, FrontRuns
<1>3. pri \in [AllThread -> Priority]
    BY <1>1 DEF Matches
<1> QED
    BY <1>2, <1>3, RescheduledKeeps, RescheduledOK

\* The running thread runs on.
LEMMA AfterNothing ==
    ASSUME NEW rl, NEW st, NEW pri, Running(rl, st, pri), current \in AllThread,
           status' = st, ready_list' = rl, current' = current, priority' = pri, Bases'
    PROVE  Scheduling' /\ Keeps(st)
<1>1. /\ Matches(rl, st, pri) /\ Ordered(rl, pri)
      /\ \A t \in AllThread : st[t] = "RUNNING" <=> t = current
    BY DEF Running
<1>2. Keeps(st)
    BY DEF Keeps
<1>3. SchedulerOK'
    BY <1>1 DEF SchedulerOK, OneRunning, QueueIsReady, Matches
<1> QED
    BY <1>1, <1>2, <1>3 DEF Scheduling, ThreadTypeOK, Matches, Bases

(***************************************************************************)
(* The arguments with which the operations call them.                      *)
(***************************************************************************)

\* thread_create () initialises a thread that did not exist.
LEMMA CreateRuns ==
    ASSUME Scheduling, NEW t \in Thread, status[t] = "FREE", NEW p \in Priority
    PROVE  Running(ready_list, [status EXCEPT ![t] = "BLOCKED"], [priority EXCEPT ![t] = p])
<1> DEFINE st == [status EXCEPT ![t] = "BLOCKED"]
           pri == [priority EXCEPT ![t] = p]
<1>1. /\ Matches(ready_list, status, priority) /\ Ordered(ready_list, priority)
      /\ \A u \in AllThread : status[u] = "RUNNING" <=> u = current
    BY RunningNow DEF Running
<1>2. /\ status \in [AllThread -> Status] /\ priority \in [AllThread -> Priority]
      /\ ready_list \in Seq(Thread) /\ Distinct(ready_list)
      /\ Elements(ready_list) = {u \in Thread : status[u] = "READY"}
      /\ Thread \subseteq AllThread
    BY <1>1 DEF Matches, AllThread
<1>3. /\ st \in [AllThread -> Status] /\ pri \in [AllThread -> Priority]
      /\ \A u \in AllThread : /\ st[u] = IF u = t THEN "BLOCKED" ELSE status[u]
                              /\ pri[u] = IF u = t THEN p ELSE priority[u]
    BY <1>2 DEF Status
<1> HIDE DEF st, pri
<1>4. {u \in Thread : st[u] = "READY"} = {u \in Thread : status[u] = "READY"}
    BY <1>2, <1>3
<1>5. \A u \in Elements(ready_list) : pri[u] = priority[u]
    BY <1>2, <1>3
<1>6. Ordered(ready_list, pri)
    BY <1>1, <1>5 DEF Ordered, Elements
<1>7. \A u \in AllThread : st[u] = "RUNNING" <=> u = current
    BY <1>1, <1>3
<1>8. Running(ready_list, st, pri)
    BY <1>2, <1>3, <1>4, <1>6, <1>7 DEF Running, Matches
<1> QED
    BY <1>8 DEF st, pri

\* thread_unblock () of a blocked thread.
LEMMA UnblockRuns ==
    ASSUME Scheduling, NEW t \in Thread, status[t] = "BLOCKED"
    PROVE  Running(UnblockedList(ready_list, t, priority), UnblockedStatus(status, t), priority)
<1>1. /\ Matches(ready_list, status, priority) /\ Ordered(ready_list, priority)
      /\ \A u \in AllThread : status[u] = "RUNNING" <=> u = current
    BY RunningNow DEF Running
<1>2. /\ status \in [AllThread -> Status] /\ priority \in [AllThread -> Priority]
      /\ ready_list \in Seq(Thread)
      /\ Thread \subseteq AllThread
    BY <1>1 DEF Matches, AllThread
<1>3. \A x \in Thread : priority[x] \in Int
    BY ZenonT(40), <1>2, PriorityIsInt
<1>4. Matches(UnblockedList(ready_list, t, priority), UnblockedStatus(status, t), priority)
    BY <1>1, UnblockOK
<1>5. Ordered(UnblockedList(ready_list, t, priority), priority)
    BY <1>1, <1>2, <1>3, InsertOrdered DEF UnblockedList
<1>6. \A u \in AllThread : UnblockedStatus(status, t)[u] = "RUNNING" <=> u = current
    BY <1>1, <1>2 DEF UnblockedStatus
<1> QED
    BY <1>4, <1>5, <1>6 DEF Running

\* The running thread stops; only its own priority may change at the same time.
LEMMA StopStops ==
    ASSUME Scheduling, NEW x \in OffQueue, NEW pri \in [AllThread -> Priority],
           \A u \in Thread : u # current => pri[u] = priority[u]
    PROVE  Stopped(ready_list, [status EXCEPT ![current] = x], pri)
<1> DEFINE st == [status EXCEPT ![current] = x]
<1>1. /\ Matches(ready_list, status, priority) /\ Ordered(ready_list, priority)
      /\ \A u \in AllThread : status[u] = "RUNNING" <=> u = current
    BY RunningNow DEF Running
<1>2. /\ status \in [AllThread -> Status] /\ priority \in [AllThread -> Priority]
      /\ ready_list \in Seq(Thread) /\ Distinct(ready_list)
      /\ Elements(ready_list) = {u \in Thread : status[u] = "READY"}
      /\ Thread \subseteq AllThread
    BY <1>1 DEF Matches, AllThread
<1>3. /\ st \in [AllThread -> Status]
      /\ \A u \in AllThread : st[u] = IF u = current THEN x ELSE status[u]
    BY ZenonT(40), <1>2 DEF Status, OffQueue
<1> HIDE DEF st
<1>4. {u \in Thread : st[u] = "READY"} = {u \in Thread : status[u] = "READY"}
    BY <1>1, <1>2, <1>3 DEF OffQueue
<1>5. \A u \in Elements(ready_list) : pri[u] = priority[u]
    BY <1>1, <1>2
<1>6. Ordered(ready_list, pri)
    BY <1>1, <1>5 DEF Ordered, Elements
<1>7. \A u \in AllThread : st[u] # "RUNNING"
    BY <1>1, <1>3 DEF OffQueue
<1>8. Stopped(ready_list, st, pri)
    BY <1>2, <1>3, <1>4, <1>6, <1>7 DEF Stopped, Matches
<1> QED
    BY <1>8 DEF st

\* The queue sorted by new priorities.
LEMMA SortRuns ==
    ASSUME Scheduling, NEW pri \in [AllThread -> Priority]
    PROVE  Running(list_sort(ready_list, pri), status, pri)
<1>1. /\ Matches(ready_list, status, priority)
      /\ \A u \in AllThread : status[u] = "RUNNING" <=> u = current
    BY RunningNow DEF Running
<1>2. /\ status \in [AllThread -> Status]
      /\ ready_list \in Seq(Thread) /\ Distinct(ready_list)
      /\ Elements(ready_list) = {u \in Thread : status[u] = "READY"}
    BY <1>1 DEF Matches
<1>3. \A x \in Thread : pri[x] \in Int
    BY ZenonT(40), PriorityIsInt DEF AllThread
<1> DEFINE l == list_sort(ready_list, pri)
<1>4. /\ l \in Seq(Thread) /\ Distinct(l)
      /\ Elements(l) = Elements(ready_list) /\ Ordered(l, pri)
    BY <1>2, <1>3, SortElements, SortOrdered
<1> HIDE DEF l
<1>5. Running(l, status, pri)
    BY <1>1, <1>2, <1>4 DEF Running, Matches
<1> QED
    BY <1>5 DEF l

\* The states once the sleepers that are due have been made ready.
Awake == [t \in AllThread |-> IF t \in Elements(Due) THEN "READY" ELSE status[t]]

\* The timer interrupt makes the sleepers that are due ready.
LEMMA WakeRuns ==
    ASSUME NEW rl, NEW pri, Running(rl, status, pri), Asleep,
           \A t \in Sleeping : status[t] = "BLOCKED"
    PROVE  Running(Woken(rl, Due, pri), Awake, pri)
<1>1. /\ Matches(rl, status, pri) /\ Ordered(rl, pri)
      /\ \A u \in AllThread : status[u] = "RUNNING" <=> u = current
    BY DEF Running
<1>2. /\ Due \in Seq(Thread) /\ Distinct(Due)
      /\ \A t \in Elements(Due) : t \in Sleeping /\ status[t] = "BLOCKED"
    BY DueOK
<1>3. Matches(Woken(rl, Due, pri), Awake, pri) /\ Ordered(Woken(rl, Due, pri), pri)
    <2>1. \A t \in Elements(Due) : status[t] # "READY"
        BY <1>2
    <2> QED
        BY <1>1, <1>2, <2>1, WokenOK DEF Awake
<1>4. \A u \in AllThread : Awake[u] = "RUNNING" <=> u = current
    BY <1>1, <1>2 DEF Awake
<1> QED
    BY <1>3, <1>4 DEF Running

-------------------------------------------------------------------------------
(***************************************************************************)
(* The blocked threads: each sleeps, or is being created by one thread.    *)
(***************************************************************************)
Accounted ==
    /\ creating \in [Thread -> Thread \cup {NULL}]
    /\ Sleeping \subseteq Thread
    /\ \A t \in Thread : status[t] = "BLOCKED" <=> t \in Sleeping \/ \E c \in Thread : creating[c] = t
    /\ \A c \in Thread : creating[c] \notin Sleeping
    /\ \A c, d \in Thread : creating[c] = creating[d] /\ creating[c] # NULL => c = d

\* This is how ThreadsAccounted says it.
LEMMA AccountedBlocked ==
    ASSUME Accounted
    PROVE  /\ {t \in Thread : status[t] = "BLOCKED"} =
                  Sleeping \cup {creating[c] : c \in {d \in Thread : creating[d] # NULL}}
           /\ \A c \in Thread : creating[c] \notin Sleeping
<1>1. NULL \notin Thread
    BY AlarmAssumption DEF AllThread
<1> QED
    BY SMT, <1>1 DEF Accounted

\* A step that blocks and unblocks nobody.
LEMMA AccountKept ==
    ASSUME Accounted, \A u \in Thread : status'[u] = "BLOCKED" <=> status[u] = "BLOCKED",
           Sleeping' = Sleeping, creating' = creating
    PROVE  Accounted'
BY DEF Accounted

\* thread_create () up to the yield of allocate_tid ().
LEMMA AccountCreate ==
    ASSUME Accounted, status \in [AllThread -> Status],
           NEW c \in Thread, NEW t \in Thread, creating[c] = NULL, status[t] = "FREE",
           Keeps([status EXCEPT ![t] = "BLOCKED"]), Sleeping' = Sleeping,
           creating' = [creating EXCEPT ![c] = t]
    PROVE  Accounted'
<1>1. NULL \notin Thread /\ Thread \subseteq AllThread
    BY AlarmAssumption DEF AllThread
<1>2. \A u \in Thread : status'[u] = "BLOCKED" <=> status[u] = "BLOCKED" \/ u = t
    BY <1>1 DEF Keeps, OffQueue
<1>3. /\ creating' \in [Thread -> Thread \cup {NULL}]
      /\ \A d \in Thread : creating'[d] = IF d = c THEN t ELSE creating[d]
    BY DEF Accounted
<1>4. t \notin Sleeping /\ \A d \in Thread : creating[d] # t
    BY DEF Accounted
<1> QED
    BY SMT, <1>1, <1>2, <1>3, <1>4 DEF Accounted

\* The end of thread_create ().
LEMMA AccountCreated ==
    ASSUME Accounted, status \in [AllThread -> Status],
           NEW c \in Thread, creating[c] # NULL,
           Keeps([status EXCEPT ![creating[c]] = "READY"]), Sleeping' = Sleeping,
           creating' = [creating EXCEPT ![c] = NULL]
    PROVE  Accounted'
<1>1. NULL \notin Thread /\ Thread \subseteq AllThread /\ creating[c] \in Thread
    BY AlarmAssumption DEF AllThread, Accounted
<1>2. \A u \in Thread : status'[u] = "BLOCKED" <=> status[u] = "BLOCKED" /\ u # creating[c]
    BY <1>1 DEF Keeps, OffQueue
<1>3. /\ creating' \in [Thread -> Thread \cup {NULL}]
      /\ \A d \in Thread : creating'[d] = IF d = c THEN NULL ELSE creating[d]
    BY DEF Accounted
<1>4. \A t \in Thread : (\E d \in Thread : creating'[d] = t)
                           <=> (\E d \in Thread : creating[d] = t) /\ t # creating[c]
    BY ZenonT(40), <1>1, <1>3 DEF Accounted
<1>5. \A t \in Thread : status'[t] = "BLOCKED" <=>
                           t \in Sleeping' \/ \E d \in Thread : creating'[d] = t
    BY SMT, <1>1, <1>2, <1>4 DEF Accounted
<1>6. \A d \in Thread : creating'[d] \notin Sleeping
    BY ZenonT(40), <1>1, <1>3 DEF Accounted
<1>7. \A d, e \in Thread : creating'[d] = creating'[e] /\ creating'[d] # NULL => d = e
    BY ZenonT(40), <1>3 DEF Accounted
<1> QED
    BY <1>3, <1>5, <1>6, <1>7 DEF Accounted

\* timer_sleep () of the running thread.
LEMMA AccountSleep ==
    ASSUME Accounted, status \in [AllThread -> Status],
           NEW c \in Thread, status[c] # "BLOCKED",
           Keeps([status EXCEPT ![c] = "BLOCKED"]), Sleeping' = Sleeping \cup {c},
           creating' = creating
    PROVE  Accounted'
<1>1. Thread \subseteq AllThread
    BY DEF AllThread
<1>2. \A u \in Thread : status'[u] = "BLOCKED" <=> status[u] = "BLOCKED" \/ u = c
    BY <1>1 DEF Keeps, OffQueue
<1>3. \A d \in Thread : creating[d] # c
    BY DEF Accounted
<1> QED
    BY <1>2, <1>3 DEF Accounted

\* The timer interrupt wakes some sleepers.
LEMMA AccountWake ==
    ASSUME Accounted, status \in [AllThread -> Status], NEW D, D \subseteq Sleeping,
           Keeps([t \in AllThread |-> IF t \in D THEN "READY" ELSE status[t]]),
           Sleeping' = Sleeping \ D, creating' = creating
    PROVE  Accounted'
<1>1. Thread \subseteq AllThread /\ D \subseteq Thread
    BY DEF AllThread, Accounted
<1>2. \A u \in Thread : status'[u] = "BLOCKED" <=> status[u] = "BLOCKED" /\ u \notin D
    BY ZenonT(40), <1>1 DEF Keeps, OffQueue
<1>3. \A u \in Thread : u \in D => \A c \in Thread : creating[c] # u
    BY DEF Accounted
<1> QED
    BY <1>2, <1>3 DEF Accounted

-------------------------------------------------------------------------------
(***************************************************************************)
(* The steps of AlarmClock, under the priority scheduler.                  *)
(***************************************************************************)
Core ==
    /\ Scheduling
    /\ Asleep
    /\ Accounted
    /\ thread_ticks \in 0..(TIME_SLICE - 1)

\* Whoever leaves sleeping_list has one tick left.
OnTick == \A t \in Sleeping : t \notin Sleeping' => wakeup[t] = 1

\* The facts about a state that every step starts from.
LEMMA CoreFacts ==
    ASSUME Core
    PROVE  /\ status \in [AllThread -> Status] /\ priority \in [AllThread -> Priority]
           /\ Bases /\ ready_list \in Seq(Thread)
           /\ current \in AllThread /\ status[current] = "RUNNING"
           /\ \A t \in AllThread : status[t] = "RUNNING" <=> t = current
           /\ Thread \subseteq AllThread /\ idle_thread \in AllThread /\ idle_thread \notin Thread
           /\ \A t \in Sleeping : t \in Thread /\ status[t] = "BLOCKED"
           /\ 0 \in 0..(TIME_SLICE - 1) /\ NULL \notin Thread
<1>1. 0 \in 0..(TIME_SLICE - 1) /\ NULL \notin Thread
    BY SMT, AlarmAssumption DEF AllThread
<1>2. Thread \subseteq AllThread /\ idle_thread \in AllThread /\ idle_thread \notin Thread
    BY ThreadAssumption DEF AllThread
<1>3. \A t \in Sleeping : t \in Thread /\ status[t] = "BLOCKED"
    BY DEF Core, Accounted
<1> QED
    BY <1>1, <1>2, <1>3 DEF Core, Scheduling, ThreadTypeOK, SchedulerOK, OneRunning, Bases

\* The sleepers are left alone.
LEMMA AsleepKept ==
    ASSUME Asleep, sleeping_list' = sleeping_list, wakeup' = wakeup
    PROVE  Asleep' /\ Sleeping' = Sleeping /\ OnTick
BY DEF Asleep, Sleeping, OnTick

\* A tick of the clock: the sleepers' part of it.
LEMMA TickSleepers ==
    ASSUME Core, sleeping_list' = StillAsleep(DueCount(Remaining)), wakeup' = Remaining,
           Keeps(Awake), creating' = creating
    PROVE  Asleep' /\ Accounted' /\ OnTick
<1>1. Asleep /\ Accounted /\ status \in [AllThread -> Status]
    BY CoreFacts DEF Core
<1>2. Asleep' /\ Sleeping' = {t \in Sleeping : wakeup[t] # 1}
    BY <1>1, StillOK
<1>3. Elements(Due) = {t \in Sleeping : wakeup[t] = 1}
    BY <1>1, DueOK
<1>4. Elements(Due) \subseteq Sleeping /\ Sleeping' = Sleeping \ Elements(Due)
    BY <1>2, <1>3
<1>5. Accounted'
    BY <1>1, <1>4, AccountWake DEF Awake
<1> QED
    BY <1>2, <1>5 DEF OnTick

\* thread_create () up to the yield of allocate_tid ().
LEMMA CreateStep ==
    ASSUME Core, NEW c \in Thread, NEW t \in Thread, NEW p \in Priority, thread_create(c, t, p)
    PROVE  Core' /\ HighestRuns' /\ OnTick
<1> DEFINE st == [status EXCEPT ![t] = "BLOCKED"]
           pri == [priority EXCEPT ![t] = p]
<1>1. /\ current = c /\ creating[c] = NULL /\ status[t] = "FREE"
      /\ priority' = pri /\ thread_yield(ready_list, st, pri)
      /\ base_priority' = [base_priority EXCEPT ![t] = p]
      /\ donated_priority' = [donated_priority EXCEPT ![t] = PRI_MIN]
      /\ creating' = [creating EXCEPT ![c] = t]
      /\ thread_ticks' = 0 /\ sleeping_list' = sleeping_list /\ wakeup' = wakeup
    BY DEF thread_create
<1>2. Running(ready_list, st, pri)
    BY ZenonT(40), <1>1, CreateRuns DEF Core
<1>3. Bases'
    <2>1. PRI_MIN \in Priority
        BY SMT, PriorityAssumption DEF Priority
    <2> QED
        BY <1>1, <2>1, CoreFacts DEF Bases
<1> HIDE DEF st, pri
<1>4. Scheduling' /\ HighestRuns' /\ Keeps(st)
    BY <1>1, <1>2, <1>3, CoreFacts, AfterYield
<1>5. Asleep' /\ Sleeping' = Sleeping /\ OnTick
    BY <1>1, AsleepKept DEF Core
<1>6. Accounted'
    BY ZenonT(40), <1>1, <1>4, <1>5, CoreFacts, AccountCreate DEF Core, st
<1> QED
    BY <1>1, <1>4, <1>5, <1>6, CoreFacts DEF Core

\* The end of thread_create ().
LEMMA CreatedStep ==
    ASSUME Core, HighestRuns, NEW c \in Thread, thread_created(c)
    PROVE  Core' /\ HighestRuns' /\ OnTick
<1> DEFINE t == creating[c]
           st == UnblockedStatus(status, t)
           rl == UnblockedList(ready_list, t, priority)
<1>1. /\ current = c /\ t # NULL
      /\ creating' = [creating EXCEPT ![c] = NULL]
      /\ priority' = priority /\ base_priority' = base_priority
      /\ donated_priority' = donated_priority
      /\ sleeping_list' = sleeping_list /\ wakeup' = wakeup
    BY DEF thread_created
<1>2. \/ priority[t] > priority[c] /\ thread_yield(rl, st, priority) /\ thread_ticks' = 0
      \/ /\ ~ (priority[t] > priority[c])
         /\ status' = st /\ ready_list' = rl /\ current' = current
         /\ thread_ticks' = thread_ticks
    BY DEF thread_created
<1>3. t \in Thread /\ status[t] = "BLOCKED"
    BY ZenonT(40), <1>1 DEF Core, Accounted
<1>4. Running(rl, st, priority)
    BY <1>3, UnblockRuns DEF Core
<1>5. Bases' /\ current \in AllThread /\ ready_list \in Seq(Thread)
    BY <1>1, CoreFacts DEF Bases
<1>6. Elements(rl) = Elements(ready_list) \cup {t}
    BY SMT, <1>3, <1>5, InsertElements DEF UnblockedList
<1>7. Keeps(st) = Keeps([status EXCEPT ![creating[c]] = "READY"])
    BY DEF UnblockedStatus
<1> HIDE DEF st, rl
<1>8. Scheduling' /\ HighestRuns' /\ Keeps(st) /\ thread_ticks' \in 0..(TIME_SLICE - 1)
    <2>1. CASE priority[t] > priority[c] /\ thread_yield(rl, st, priority) /\ thread_ticks' = 0
        BY <2>1, <1>1, <1>4, <1>5, CoreFacts, AfterYield
    <2>2. CASE /\ ~ (priority[t] > priority[c])
               /\ status' = st /\ ready_list' = rl /\ current' = current
               /\ thread_ticks' = thread_ticks
        <3>1. Scheduling' /\ Keeps(st)
            BY <2>2, <1>1, <1>4, <1>5, AfterNothing
        <3>2. priority[t] <= priority[c]
            <4>1. priority[t] \in Int /\ priority[c] \in Int
                BY ZenonT(40), <1>3, CoreFacts, PriorityIsInt
            <4> QED
                BY SMT, <4>1, <2>2
        <3>3. HighestRuns'
            BY <2>2, <3>2, <1>1, <1>6 DEF HighestRuns
        <3> QED
            BY <2>2, <3>1, <3>3 DEF Core
    <2> QED
        BY <1>2, <2>1, <2>2
<1>9. Asleep' /\ Sleeping' = Sleeping /\ OnTick
    BY <1>1, AsleepKept DEF Core
<1>10. Accounted'
    BY ZenonT(40), <1>1, <1>7, <1>8, <1>9, CoreFacts, AccountCreated DEF Core
<1> QED
    BY <1>8, <1>9, <1>10 DEF Core

\* thread_exit () of the running thread.
LEMMA ExitStep ==
    ASSUME Core, NEW c \in Thread, thread_exit(c)
    PROVE  Core' /\ HighestRuns' /\ OnTick
<1> DEFINE x == IF c = initial_thread THEN "DYING" ELSE "FREE"
           st == [status EXCEPT ![c] = x]
<1>1. /\ current = c /\ schedule(ready_list, st, priority)
      /\ priority' = priority /\ base_priority' = base_priority
      /\ donated_priority' = donated_priority /\ creating' = creating
      /\ thread_ticks' = 0 /\ sleeping_list' = sleeping_list /\ wakeup' = wakeup
    BY DEF thread_exit
<1>2. Stopped(ready_list, st, priority)
    <2>1. x \in OffQueue
        BY DEF OffQueue
    <2> HIDE DEF x
    <2> QED
        BY ZenonT(40), <1>1, <2>1, CoreFacts, StopStops DEF Core
<1>3. Bases'
    BY <1>1, CoreFacts DEF Bases
<1>4. \A u \in Thread : st[u] = "BLOCKED" <=> status[u] = "BLOCKED"
    BY <1>1, CoreFacts
<1> HIDE DEF st
<1>5. Scheduling' /\ HighestRuns' /\ Keeps(st)
    BY <1>1, <1>2, <1>3, AfterSchedule
<1>6. Asleep' /\ Sleeping' = Sleeping /\ OnTick
    BY <1>1, AsleepKept DEF Core
<1>7. Accounted'
    <2>1. \A u \in Thread : status'[u] = "BLOCKED" <=> status[u] = "BLOCKED"
        BY <1>4, <1>5 DEF Keeps, OffQueue
    <2> QED
        BY <1>1, <1>6, <2>1, AccountKept DEF Core
<1> QED
    BY <1>1, <1>5, <1>6, <1>7, CoreFacts DEF Core

\* thread_yield () of the running thread.
LEMMA YieldStep ==
    ASSUME Core, NEW c \in Thread, Yield(c)
    PROVE  Core' /\ HighestRuns' /\ OnTick
<1>1. /\ thread_yield(ready_list, status, priority)
      /\ priority' = priority /\ base_priority' = base_priority
      /\ donated_priority' = donated_priority /\ creating' = creating
      /\ thread_ticks' = 0 /\ sleeping_list' = sleeping_list /\ wakeup' = wakeup
    BY DEF Yield
<1>2. Running(ready_list, status, priority)
    BY RunningNow DEF Core
<1>3. Bases'
    BY <1>1, CoreFacts DEF Bases
<1>4. Scheduling' /\ HighestRuns' /\ Keeps(status)
    BY <1>1, <1>2, <1>3, CoreFacts, AfterYield
<1>5. Asleep' /\ Sleeping' = Sleeping /\ OnTick
    BY <1>1, AsleepKept DEF Core
<1>6. Accounted'
    <2>1. \A u \in Thread : status'[u] = "BLOCKED" <=> status[u] = "BLOCKED"
        BY <1>4 DEF Keeps, OffQueue
    <2> QED
        BY <1>1, <1>5, <2>1, AccountKept DEF Core
<1> QED
    BY <1>1, <1>4, <1>5, <1>6, CoreFacts DEF Core

\* thread_set_priority () of the running thread.
LEMMA SetPriorityStep ==
    ASSUME Core, HighestRuns, NEW c \in Thread, NEW p \in Priority, SetPriority(c, p)
    PROVE  Core' /\ HighestRuns' /\ OnTick
<1>1. /\ current = c /\ thread_set_priority(c, p) /\ creating' = creating
      /\ thread_ticks' = 0 \/ thread_ticks' = thread_ticks
      /\ sleeping_list' = sleeping_list /\ wakeup' = wakeup
    BY DEF SetPriority
<1>2. SchedulerInv
    BY DEF SchedulerInv, Core, Scheduling
<1>3. SchedulerInv' /\ \A u \in Thread : status'[u] = "BLOCKED" <=> status[u] = "BLOCKED"
    BY <1>1, <1>2, SetPriorityOK
<1>4. Asleep' /\ Sleeping' = Sleeping /\ OnTick
    BY <1>1, AsleepKept DEF Core
<1>5. Accounted'
    BY <1>1, <1>3, <1>4, AccountKept DEF Core
<1>6. thread_ticks' \in 0..(TIME_SLICE - 1)
    BY <1>1, CoreFacts DEF Core
<1> QED
    BY <1>3, <1>4, <1>5, <1>6 DEF Core, SchedulerInv, Scheduling

\* timer_sleep () of the running thread.
LEMMA SleepStep ==
    ASSUME Core, NEW c \in Thread, NEW n \in 1..MaxSleep, timer_sleep(c, n)
    PROVE  Core' /\ HighestRuns' /\ OnTick
<1> DEFINE st == [status EXCEPT ![c] = "BLOCKED"]
<1>1. /\ current = c /\ schedule(ready_list, st, priority)
      /\ priority' = priority /\ base_priority' = base_priority
      /\ donated_priority' = donated_priority /\ creating' = creating
      /\ thread_ticks' = 0
      /\ wakeup' = [wakeup EXCEPT ![c] = n] /\ sleeping_list' = SleepInsert(c, wakeup')
    BY DEF timer_sleep, thread_block
<1>2. Stopped(ready_list, st, priority)
    BY ZenonT(40), <1>1, CoreFacts, StopStops DEF Core, OffQueue
<1>3. Bases'
    BY <1>1, CoreFacts DEF Bases
<1>4. status[c] # "BLOCKED" /\ c \notin Sleeping
    BY <1>1, CoreFacts
<1> HIDE DEF st
<1>5. Scheduling' /\ HighestRuns' /\ Keeps(st)
    BY <1>1, <1>2, <1>3, AfterSchedule
<1>6. Asleep' /\ Sleeping' = Sleeping \cup {c}
    BY <1>1, <1>4, FallAsleep DEF Core
<1>7. Accounted'
    BY ZenonT(40), <1>1, <1>4, <1>5, <1>6, CoreFacts, AccountSleep DEF Core, st
<1>8. OnTick
    BY <1>6 DEF OnTick
<1> QED
    BY <1>1, <1>5, <1>6, <1>7, <1>8, CoreFacts DEF Core

\* The idle thread blocks again.
LEMMA IdleStep ==
    ASSUME Core, idle
    PROVE  Core' /\ HighestRuns' /\ OnTick
<1> DEFINE st == [status EXCEPT ![current] = "BLOCKED"]
<1>1. /\ current = idle_thread /\ schedule(ready_list, st, priority)
      /\ priority' = priority /\ base_priority' = base_priority
      /\ donated_priority' = donated_priority /\ creating' = creating
      /\ thread_ticks' = 0 /\ sleeping_list' = sleeping_list /\ wakeup' = wakeup
    BY DEF idle, thread_block
<1>2. Stopped(ready_list, st, priority)
    BY ZenonT(40), CoreFacts, StopStops DEF Core, OffQueue
<1>3. Bases'
    BY <1>1, CoreFacts DEF Bases
<1>4. \A u \in Thread : st[u] = status[u]
    BY <1>1, CoreFacts
<1> HIDE DEF st
<1>5. Scheduling' /\ HighestRuns' /\ Keeps(st)
    BY <1>1, <1>2, <1>3, AfterSchedule
<1>6. Asleep' /\ Sleeping' = Sleeping /\ OnTick
    BY <1>1, AsleepKept DEF Core
<1>7. Accounted'
    <2>1. \A u \in Thread : status'[u] = "BLOCKED" <=> status[u] = "BLOCKED"
        BY <1>4, <1>5 DEF Keeps, OffQueue
    <2> QED
        BY <1>1, <1>6, <2>1, AccountKept DEF Core
<1> QED
    BY <1>1, <1>5, <1>6, <1>7, CoreFacts DEF Core

\* The timer interrupt under the priority scheduler.
LEMMA InterruptStep ==
    ASSUME Core, HighestRuns, timer_interrupt
    PROVE  Core' /\ HighestRuns' /\ OnTick
<1> DEFINE rl == Woken(ready_list, Due, priority)
<1>1. /\ sleeping_list' = StillAsleep(DueCount(Remaining)) /\ wakeup' = Remaining
      /\ priority' = priority /\ base_priority' = base_priority
      /\ donated_priority' = donated_priority /\ creating' = creating
    BY DEF timer_interrupt, Remaining
<1>2. \/ thread_yield(rl, Awake, priority) /\ thread_ticks' = 0
      \/ /\ ~ yield_on_return(Due)
         /\ status' = Awake /\ ready_list' = rl /\ current' = current
         /\ thread_ticks' = thread_ticks + 1
    BY DEF timer_interrupt, Remaining, Due, Awake
<1>3. Running(ready_list, status, priority)
    BY RunningNow DEF Core
<1>4. Running(rl, Awake, priority)
    BY <1>3, CoreFacts, WakeRuns DEF Core
<1>5. Bases' /\ current \in AllThread
    BY <1>1, CoreFacts DEF Bases
<1>6. Elements(rl) \subseteq Elements(ready_list) \cup Elements(Due)
    <2>1. Elements(rl) = {t \in Thread : Awake[t] = "READY"}
        BY <1>4 DEF Running, Matches
    <2>2. Elements(ready_list) = {t \in Thread : status[t] = "READY"}
        BY <1>3 DEF Running, Matches
    <2> QED
        BY <2>1, <2>2, CoreFacts DEF Awake
<1> HIDE DEF rl
<1>7. Scheduling' /\ HighestRuns' /\ Keeps(Awake) /\ thread_ticks' \in 0..(TIME_SLICE - 1)
    <2>1. CASE thread_yield(rl, Awake, priority) /\ thread_ticks' = 0
        BY <2>1, <1>1, <1>4, <1>5, CoreFacts, AfterYield
    <2>2. CASE /\ ~ yield_on_return(Due)
               /\ status' = Awake /\ ready_list' = rl /\ current' = current
               /\ thread_ticks' = thread_ticks + 1
        <3>1. Scheduling' /\ Keeps(Awake)
            BY <2>2, <1>1, <1>4, <1>5, AfterNothing
        <3>2. \A t \in Elements(Due) : priority[t] <= priority[current]
            <4> TAKE t \in Elements(Due)
            <4>1. ~ (priority[t] > priority[current])
                BY <2>2 DEF yield_on_return
            <4>2. t \in Thread
                BY DueOK, CoreFacts DEF Core
            <4>3. priority[t] \in Int /\ priority[current] \in Int
                BY ZenonT(40), <4>2, CoreFacts, PriorityIsInt
            <4> QED
                BY SMT, <4>1, <4>3
        <3>3. HighestRuns'
            BY <2>2, <3>2, <1>1, <1>6 DEF HighestRuns
        <3>4. ~ (thread_ticks + 1 >= TIME_SLICE) /\ thread_ticks \in 0..(TIME_SLICE - 1)
            BY <2>2 DEF yield_on_return, Core
        <3>5. thread_ticks' \in 0..(TIME_SLICE - 1)
            BY SMT, <2>2, <3>4, AlarmAssumption
        <3> QED
            BY <3>1, <3>3, <3>5
    <2> QED
        BY <1>2, <2>1, <2>2
<1>8. Asleep' /\ Accounted' /\ OnTick
    BY <1>1, <1>7, TickSleepers
<1> QED
    BY <1>7, <1>8 DEF Core

\* Every step under the priority scheduler.
LEMMA PriorityStep ==
    ASSUME Core, HighestRuns, Next
    PROVE  Core' /\ HighestRuns' /\ OnTick
<1>1. CASE timer_interrupt
    BY <1>1, InterruptStep
<1>2. CASE idle
    BY <1>2, IdleStep
<1>3. ASSUME NEW c \in Thread,
             \/ \E t \in Thread, p \in Priority : thread_create(c, t, p)
             \/ thread_created(c) \/ thread_exit(c) \/ Yield(c)
             \/ \E p \in Priority : SetPriority(c, p)
             \/ \E n \in 1..MaxSleep : timer_sleep(c, n)
      PROVE  Core' /\ HighestRuns' /\ OnTick
    BY <1>3, CreateStep, CreatedStep, ExitStep, YieldStep, SetPriorityStep, SleepStep
<1> QED
    BY <1>1, <1>2, <1>3 DEF Next

-------------------------------------------------------------------------------
(***************************************************************************)
(* Fixed-point arithmetic.  C's division rounds towards zero.              *)
(***************************************************************************)
LEMMA DividedIs ==
    ASSUME NEW x \in Int, NEW y \in Nat \ {0}
    PROVE  /\ Divided(x, y) \in Int
           /\ x >= 0 => Divided(x, y) >= 0 /\ y * Divided(x, y) <= x
           /\ x < 0 => Divided(x, y) <= 0
<1>1. ASSUME NEW z \in Nat PROVE z \div y \in Int /\ z \div y >= 0 /\ y * (z \div y) <= z
    BY SMT
<1>2. CASE x >= 0
    BY SMT, <1>1, <1>2 DEF Divided
<1>3. CASE x < 0
    <2>1. -x \in Nat
        BY SMT, <1>3
    <2>2. (-x) \div y \in Int /\ (-x) \div y >= 0
        BY <1>1, <2>1
    <2> QED
        BY SMT, <1>3, <2>2 DEF Divided
<1> QED
    BY SMT, <1>2, <1>3

\* Half of F, by which FP_TO_INT_NEAREST rounds, and F itself.
LEMMA FIs == F \in Nat \ {0} /\ F \in Int /\ F \div 2 \in Int /\ LOAD \in Nat \ {0}
BY SMT, MlfqsAssumption

\* A priority computed from any usage and niceness is a priority.
LEMMA PriorityComputed ==
    ASSUME NEW r \in Int, NEW n \in Int
    PROVE  update_thread_priority(r, n) \in Priority
<1> DEFINE x == INT_TO_FP(PRI_MAX) - Divided(r, 4) - INT_TO_FP(n) * 2
           p == FP_TO_INT_NEAREST(x)
<1>1. x \in Int
    <2>1. Divided(r, 4) \in Int
        BY SMT, DividedIs
    <2>2. PRI_MAX * F \in Int /\ n * F \in Int
        BY SMT, PriorityAssumption, FIs
    <2> QED
        BY SMT, <2>1, <2>2 DEF INT_TO_FP
<1> HIDE DEF x
<1>2. x + F \div 2 \in Int /\ x - F \div 2 \in Int
    BY SMT, <1>1, FIs
<1>3. p \in Int
    <2>1. Divided(x + F \div 2, F) \in Int /\ Divided(x - F \div 2, F) \in Int
        BY <1>2, FIs, DividedIs
    <2> QED
        BY <2>1 DEF FP_TO_INT_NEAREST
<1>4. update_thread_priority(r, n) = IF p > PRI_MAX THEN PRI_MAX ELSE IF p < PRI_MIN THEN PRI_MIN ELSE p
    BY DEF update_thread_priority, x
<1> HIDE DEF p
<1> QED
    BY SMT, <1>3, <1>4, PriorityAssumption DEF Priority

\* load_avg is an average: of n at most and of at most n threads, it is at most n.
LEMMA LoadAveraged ==
    ASSUME NEW n \in Nat, NEW load \in 0..INT_TO_FP(n), NEW ready \in 0..n
    PROVE  update_load_avg(load, ready) \in 0..INT_TO_FP(n)
<1> DEFINE top == n * F
           a == DIV_FP(load * (LOAD - 1), INT_TO_FP(LOAD))
           b == Divided(INT_TO_FP(ready), LOAD)
<1>1. /\ F \in Nat \ {0} /\ LOAD \in Nat \ {0} /\ LOAD - 1 \in Nat
      /\ top \in Nat /\ load \in Nat /\ ready \in Nat /\ load <= top /\ ready <= n
    BY SMT, FIs DEF INT_TO_FP
<1>2. b \in Nat /\ LOAD * b <= top
    <2>1. ready * F \in Nat /\ ready * F <= n * F
        BY SMT, <1>1
    <2>2. b \in Int /\ b >= 0 /\ LOAD * b <= ready * F
        BY SMT, <2>1, <1>1, DividedIs DEF INT_TO_FP
    <2> HIDE DEF b
    <2>3. LOAD * b \in Int /\ top \in Int /\ ready * F \in Int /\ ready * F <= top
        BY SMT, <2>1, <2>2, <1>1
    <2> QED
        BY SMT, <2>2, <2>3
<1>3. a \in Nat /\ LOAD * a <= load * (LOAD - 1)
    <2> DEFINE m == load * (LOAD - 1)
    <2>1. m \in Nat /\ LOAD * F \in Nat \ {0} /\ m * F \in Nat
        BY SMT, <1>1
    <2>2. a = Divided(m * F, LOAD * F)
        BY DEF DIV_FP, INT_TO_FP
    <2> HIDE DEF m, a
    <2>3. a \in Int /\ a >= 0 /\ (LOAD * F) * a <= m * F
        BY SMT, <2>1, <2>2, DividedIs
    <2>4. LOAD * a \in Int /\ (LOAD * a) * F <= m * F
        BY SMT, <2>3, <1>1
    <2>5. LOAD * a <= m
        BY SMT, <2>1, <2>4, <1>1
    <2> QED
        BY SMT, <2>3, <2>5 DEF m
<1> HIDE DEF a, b
<1>4. load * (LOAD - 1) <= top * (LOAD - 1)
    BY SMT, <1>1
<1>5. /\ LOAD * (a + b) = LOAD * a + LOAD * b
      /\ top * (LOAD - 1) + top = LOAD * top
      /\ LOAD * a \in Int /\ LOAD * b \in Int /\ top * (LOAD - 1) \in Int
      /\ load * (LOAD - 1) \in Int
    BY SMT, <1>1, <1>2, <1>3
<1>6. LOAD * (a + b) <= LOAD * top
    BY SMTT(40), <1>1, <1>2, <1>3, <1>4, <1>5
<1>7. a + b <= top
    BY SMTT(40), <1>1, <1>2, <1>3, <1>6
<1>8. a + b \in 0..top
    BY SMT, <1>1, <1>2, <1>3, <1>7
<1> QED
    BY <1>8 DEF update_load_avg, INT_TO_FP, a, b

(***************************************************************************)
(* The decay of recent_cpu.  Top is the greatest niceness; Decayed(n) is   *)
(* what is left of the usage when a second ends with a load of at most n.  *)
(***************************************************************************)
Top == Max(Nice \cup {0})
Decayed(n) == 2 * n * (F * (TIMER_FREQ + Top)) + F * Top

\* Top bounds every niceness, of the initial thread too, and is not negative.
LEMMA TopIs == Top \in Nat /\ \A m \in Nice \cup {0} : m \in Int /\ m <= Top
<1> DEFINE S == Nice \cup {0}
           G(x) == x \in S /\ \A y \in S : x >= y
<1>1. S \subseteq Int /\ 0 \in S
    BY SMT, MlfqsAssumption
<1>2. \E x : G(x)
    BY <1>1, MlfqsAssumption
<1>3. Top = CHOOSE x \in S : \A y \in S : x >= y
    BY DEF Top, Max
<1>4. Top \in S /\ \A y \in S : Top >= y
    BY ZenonT(40), <1>2, <1>3
<1> HIDE DEF S
<1>5. Top \in Int /\ Top >= 0
    BY <1>1, <1>4
<1> QED
    BY SMT, <1>1, <1>4, <1>5 DEF S

\* The weight of the past: below 2n / (2n + 1) at a load of at most n.
LEMMA Coefficient ==
    ASSUME NEW n \in Nat, NEW load \in 0..INT_TO_FP(n)
    PROVE  LET c == DIV_FP(load * 2, load * 2 + INT_TO_FP(1))
           IN  c \in Nat /\ (2 * n + 1) * c <= 2 * n * F
<1> DEFINE c == DIV_FP(load * 2, load * 2 + INT_TO_FP(1))
           x == load * 2
           y == load * 2 + F
<1>1. /\ F \in Nat \ {0} /\ F \in Int /\ load \in Nat /\ load <= n * F
      /\ x \in Nat /\ y \in Nat \ {0} /\ x * F \in Nat /\ y = x + F
    <2>1. F \in Nat \ {0} /\ n * F \in Int
        BY SMT, FIs
    <2>2. load \in Nat /\ load <= n * F
        BY SMT, <2>1 DEF INT_TO_FP
    <2> QED
        BY SMT, <2>1, <2>2
<1>2. c = Divided(x * F, y)
    <2>1. 1 * F = F
        BY SMT, <1>1
    <2> QED
        BY <2>1 DEF DIV_FP, INT_TO_FP
<1>3. x = 2 * load
    BY SMT, <1>1
<1> HIDE DEF c, x, y
<1>4. c \in Int /\ c >= 0 /\ y * c <= x * F
    BY SMT, <1>1, <1>2, DividedIs
<1>5. F * c <= x * (F - c)
    <2>1. y * c = x * c + F * c
        BY SMT, <1>1, <1>4
    <2>2. x * (F - c) = x * F - x * c
        BY SMT, <1>1, <1>4
    <2>3. x * c \in Int /\ F * c \in Int /\ x * F \in Int
        BY SMT, <1>1, <1>4
    <2> QED
        BY SMT, <2>1, <2>2, <2>3, <1>4
<1>6. F - c >= 0
    <2> SUFFICES ASSUME F - c < 0 PROVE FALSE
        BY SMT, <1>1, <1>4
    <2>1. x * (F - c) <= 0
        BY SMT, <1>1, <1>4
    <2>2. c > 0
        BY SMT, <1>1, <1>4
    <2>3. F * c > 0
        BY SMT, <2>2, <1>1, <1>4
    <2>4. x * (F - c) \in Int /\ F * c \in Int
        BY SMT, <1>1, <1>4
    <2> QED
        BY SMT, <2>1, <2>3, <2>4, <1>5
<1>7. x * (F - c) <= (2 * n * F) * (F - c)
    <2>1. x <= 2 * n * F /\ 2 * n * F \in Int
        BY SMT, <1>1, <1>3
    <2> QED
        BY SMT, <2>1, <1>1, <1>4, <1>6
<1>8. F * c <= F * (2 * n * (F - c))
    <2>1. (2 * n * F) * (F - c) = F * (2 * n * (F - c))
        BY SMT, <1>1, <1>4
    <2>2. F * c \in Int /\ x * (F - c) \in Int /\ (2 * n * F) * (F - c) \in Int
        BY SMT, <1>1, <1>4
    <2> QED
        BY SMT, <2>1, <2>2, <1>5, <1>7
<1>9. c <= 2 * n * (F - c)
    <2>1. 2 * n * (F - c) \in Int
        BY SMT, <1>1, <1>4
    <2> DEFINE z == 2 * n * (F - c)
    <2> HIDE DEF z
    <2>2. z \in Int /\ F * c <= F * z
        BY <2>1, <1>8 DEF z
    <2>3. c <= z
        BY SMT, <2>2, <1>1, <1>4
    <2> QED
        BY <2>3 DEF z
<1>10. (2 * n + 1) * c <= 2 * n * F
    <2>1. (2 * n + 1) * c = 2 * n * c + c
        BY SMT, <1>4
    <2>2. 2 * n * (F - c) = 2 * n * F - 2 * n * c
        BY SMT, <1>1, <1>4
    <2>3. 2 * n * c \in Int /\ 2 * n * F \in Int
        BY SMT, <1>1, <1>4
    <2> QED
        BY SMT, <2>1, <2>2, <2>3, <1>4, <1>9
<1>11. c \in Nat
    BY SMT, <1>4
<1> QED
    BY <1>10, <1>11 DEF c

\* A second's end takes the usage back to Decayed.
LEMMA UsageDecays ==
    ASSUME NEW n \in Nat, NEW load \in 0..INT_TO_FP(n), NEW m \in Nice \cup {0},
           NEW r \in Int, r <= Decayed(n) + TIMER_FREQ * F
    PROVE  /\ update_recent_cpu(load, r, m) \in Int
           /\ update_recent_cpu(load, r, m) <= Decayed(n)
<1> DEFINE c == DIV_FP(load * 2, load * 2 + INT_TO_FP(1))
           d == Divided(c * r, F)
           k == F * (TIMER_FREQ + Top)
           e == 2 * n + 1
<1>1. /\ F \in Nat \ {0} /\ Top \in Nat /\ TIMER_FREQ \in Nat /\ m \in Int /\ m <= Top
    BY FIs, TopIs, MlfqsAssumption
<1>2. c \in Nat /\ e * c <= 2 * n * F
    BY Coefficient
<1>3. update_recent_cpu(load, r, m) = d + m * F
    BY DEF update_recent_cpu, MUL_FP, INT_TO_FP
<1>4. k \in Nat /\ e \in Nat \ {0} /\ Decayed(n) + TIMER_FREQ * F = e * k
    <2>1. k \in Nat /\ e \in Nat \ {0}
        BY SMT, <1>1
    <2>2. k = F * TIMER_FREQ + F * Top
        BY SMT, <1>1
    <2>3. e * k = 2 * n * k + k
        BY SMT, <2>1
    <2>4. F * TIMER_FREQ = TIMER_FREQ * F /\ F * Top \in Int /\ F * TIMER_FREQ \in Int /\ 2 * n * k \in Int
        BY SMT, <1>1, <2>1
    <2>5. Decayed(n) = 2 * n * k + F * Top
        BY DEF Decayed
    <2> HIDE DEF k, e
    <2> QED
        BY SMTT(40), <2>1, <2>2, <2>3, <2>4, <2>5
<1>5. Decayed(n) = 2 * n * k + F * Top
    BY DEF Decayed
<1> HIDE DEF c, k, e
<1>6. c * r \in Int /\ d \in Int
    <2>1. c * r \in Int
        BY SMT, <1>2
    <2> QED
        BY <2>1, <1>1, DividedIs
<1>7. d <= 2 * n * k
    <2>1. CASE r < 0
        <3>1. c * r <= 0
            BY SMT, <1>2, <2>1
        <3>2. d <= 0
            <4>1. CASE c * r < 0
                BY <4>1, <1>1, <1>6, DividedIs
            <4>2. CASE c * r = 0
                <5>1. d >= 0 /\ F * d <= 0
                    BY SMT, <4>2, <1>1, <1>6, DividedIs
                <5> HIDE DEF d
                <5> QED
                    BY SMT, <5>1, <1>1, <1>6
            <4> QED
                BY SMT, <3>1, <4>1, <4>2, <1>6
        <3> HIDE DEF d
        <3>3. 2 * n * k \in Nat
            BY SMT, <1>4
        <3> QED
            BY SMT, <3>2, <3>3, <1>6
    <2>2. CASE r >= 0
        <3>1. c * r >= 0
            BY SMT, <1>2, <2>2
        <3>2. F * d <= c * r
            BY <3>1, <1>1, <1>6, DividedIs
        <3> HIDE DEF d
        <3>3. e * k \in Int /\ r <= e * k
            BY SMT, <1>4
        <3>4. c * r <= c * (e * k)
            BY SMT, <3>3, <1>2
        <3>5. c * (e * k) = (e * c) * k
            BY SMT, <1>2, <1>4
        <3>6. (e * c) * k <= (2 * n * F) * k
            <4>1. e * c \in Int /\ 2 * n * F \in Int
                BY SMT, <1>1, <1>2, <1>4
            <4> QED
                BY SMT, <4>1, <1>2, <1>4
        <3>7. (2 * n * F) * k = F * (2 * n * k)
            BY SMT, <1>1, <1>4
        <3> DEFINE z == 2 * n * k
        <3>8. z \in Int
            BY SMT, <1>4
        <3>9. F * d <= F * z
            <4>1. F * d \in Int /\ c * (e * k) \in Int /\ (2 * n * F) * k \in Int
                BY SMTT(40), <1>1, <1>2, <1>4, <1>6
            <4> QED
                BY SMTT(40), <4>1, <3>2, <3>4, <3>5, <3>6, <3>7, <1>6
        <3> HIDE DEF z
        <3>10. d <= z
            BY SMT, <3>8, <3>9, <1>1, <1>6
        <3> QED
            BY <3>10 DEF z
    <2> QED
        BY SMT, <2>1, <2>2
<1> HIDE DEF d
<1>8. m * F <= F * Top /\ m * F \in Int /\ F * Top \in Int /\ 2 * n * k \in Int
    BY SMT, <1>1, <1>4
<1>9. d + m * F \in Int /\ d + m * F <= 2 * n * k + F * Top
    BY SMT, <1>6, <1>7, <1>8
<1> QED
    BY <1>3, <1>5, <1>9

-------------------------------------------------------------------------------
(***************************************************************************)
(* The feedback queue's own state.  Between two seconds' ends the usage    *)
(* grows by one a tick; a thread that is gone has none.                    *)
(***************************************************************************)
FedCount == Cardinality(Fed)

Feedback ==
    /\ thread_mlfqs \in BOOLEAN
    /\ nice \in [Thread -> Nice \cup {0}]
    /\ recent_cpu \in [Thread -> Int]
    /\ load_avg \in 0..INT_TO_FP(FedCount)
    /\ ticks \in 0..(TIMER_FREQ - 1)

Usage ==
    /\ \A t \in Thread : status[t] # "FREE" => t \in Fed
    /\ \A t \in Thread :
          recent_cpu[t] <= IF t \in Existing THEN Decayed(FedCount) + ticks * F ELSE 0

\* The bound on the usage, with any number of ticks on top, is a natural.
LEMMA DecayedIs ==
    /\ FedCount \in Nat /\ Decayed(FedCount) \in Nat
    /\ \A k \in Nat : k * F \in Nat /\ Decayed(FedCount) + k * F \in Nat
<1>1. FedCount \in Nat
    BY MlfqsAssumption, FS_CardinalityType DEF FedCount
<1>2. F \in Nat /\ Top \in Nat /\ TIMER_FREQ \in Nat
    BY FIs, TopIs, MlfqsAssumption
<1>3. F * (TIMER_FREQ + Top) \in Nat /\ F * Top \in Nat
    BY SMT, <1>2
<1>4. 2 * FedCount * (F * (TIMER_FREQ + Top)) \in Nat
    BY SMT, <1>1, <1>3
<1>5. Decayed(FedCount) \in Nat
    BY SMT, <1>3, <1>4 DEF Decayed
<1>6. \A k \in Nat : k * F \in Nat
    BY SMT, <1>2
<1> QED
    BY SMT, <1>1, <1>5, <1>6

\* A call that changes neither the usage nor who exists.
LEMMA UsageKept ==
    ASSUME Usage, NEW st, Keeps(st), recent_cpu' = recent_cpu, ticks' = ticks,
           \A u \in Thread : /\ st[u] = "FREE" <=> status[u] = "FREE"
                             /\ st[u] = "DYING" <=> status[u] = "DYING"
    PROVE  Usage'
<1>1. \A u \in Thread : /\ status'[u] = "FREE" <=> status[u] = "FREE"
                        /\ status'[u] = "DYING" <=> status[u] = "DYING"
    BY DEF Keeps, OffQueue
<1>2. \A u \in Thread : u \in Existing' <=> u \in Existing
    BY <1>1 DEF Existing
<1> QED
    BY <1>1, <1>2 DEF Usage

\* The processor is handed over; a yield and schedule () start a new slice.
Handed == current' # current => HighestRuns'

\* thread_create () under the feedback queue, up to its yield.
LEMMA FedCreateStep ==
    ASSUME Core, Feedback, Usage, Bases', NEW c \in Thread, NEW t \in Fed, mlfqs_create(c, t),
           thread_mlfqs' = thread_mlfqs
    PROVE  Core' /\ Handed /\ OnTick /\ Feedback' /\ Usage'
<1> DEFINE st == [status EXCEPT ![t] = "BLOCKED"]
           pri == [priority EXCEPT ![t] = PRI_DEFAULT]
<1>1. /\ current = c /\ creating[c] = NULL /\ status[t] = "FREE"
      /\ priority' = pri /\ YieldTo(ready_list, st, pri)
      /\ nice' = [nice EXCEPT ![t] = nice[c]]
      /\ recent_cpu' = [recent_cpu EXCEPT ![t] = recent_cpu[c]]
      /\ creating' = [creating EXCEPT ![c] = t]
      /\ sleeping_list' = sleeping_list /\ wakeup' = wakeup
      /\ load_avg' = load_avg /\ ticks' = ticks
    BY DEF mlfqs_create, Calls
<1>2. t \in Thread /\ PRI_DEFAULT \in Priority
    BY MlfqsAssumption, AlarmAssumption
<1>3. Running(ready_list, st, pri)
    BY ZenonT(40), <1>1, <1>2, CreateRuns DEF Core
<1>4. \A u \in Thread : st[u] = IF u = t THEN "BLOCKED" ELSE status[u]
    BY CoreFacts
<1>5. thread_ticks' = 0
    BY <1>1 DEF YieldTo, Schedule
<1> HIDE DEF st, pri
<1>6. Scheduling' /\ HighestRuns' /\ Keeps(st)
    BY <1>1, <1>3, CoreFacts, AfterYield
<1>7. Asleep' /\ Sleeping' = Sleeping /\ OnTick
    BY <1>1, AsleepKept DEF Core
<1>8. Accounted'
    BY ZenonT(40), <1>1, <1>2, <1>6, <1>7, CoreFacts, AccountCreate DEF Core, st
<1>9. Core'
    BY <1>5, <1>6, <1>7, <1>8, CoreFacts DEF Core
<1>10. Feedback'
    BY <1>1, <1>2 DEF Feedback
<1>11. Usage'
    <2>1. \A u \in Thread : /\ status'[u] = "FREE" <=> status[u] = "FREE" /\ u # t
                            /\ status'[u] = "DYING" <=> status[u] = "DYING" /\ u # t
        BY <1>4, <1>6 DEF Keeps, OffQueue
    <2>2. \A u \in Thread : u \in Existing' <=> u \in Existing \/ u = t
        BY <2>1 DEF Existing
    <2>3. c \in Existing
        BY <1>1, CoreFacts DEF Existing
    <2>4. \A u \in Thread : recent_cpu'[u] = IF u = t THEN recent_cpu[c] ELSE recent_cpu[u]
        BY <1>1 DEF Feedback
    <2> QED
        BY ZenonT(40), <2>1, <2>2, <2>3, <2>4, <1>1 DEF Usage
<1> QED
    BY <1>6, <1>7, <1>9, <1>10, <1>11 DEF Handed

\* The end of thread_create () under the feedback queue.
LEMMA FedCreatedStep ==
    ASSUME Core, Feedback, Usage, Bases', NEW c \in Thread, mlfqs_created(c),
           thread_mlfqs' = thread_mlfqs
    PROVE  Core' /\ Handed /\ OnTick /\ Feedback' /\ Usage'
<1> DEFINE t == creating[c]
           st == UnblockedStatus(status, t)
           rl == UnblockedList(ready_list, t, priority)
<1>1. /\ current = c /\ t # NULL
      /\ creating' = [creating EXCEPT ![c] = NULL]
      /\ priority' = priority /\ nice' = nice /\ recent_cpu' = recent_cpu
      /\ load_avg' = load_avg /\ ticks' = ticks
      /\ sleeping_list' = sleeping_list /\ wakeup' = wakeup
    BY DEF mlfqs_created
<1>2. \/ YieldTo(rl, st, priority)
      \/ /\ status' = st /\ ready_list' = rl /\ current' = current
         /\ thread_ticks' = thread_ticks
    BY DEF mlfqs_created
<1>3. t \in Thread /\ status[t] = "BLOCKED"
    BY ZenonT(40), <1>1 DEF Core, Accounted
<1>4. Running(rl, st, priority)
    BY <1>3, UnblockRuns DEF Core
<1>5. YieldTo(rl, st, priority) => thread_ticks' = 0
    BY DEF YieldTo, Schedule
<1>6. Keeps(st) = Keeps([status EXCEPT ![creating[c]] = "READY"])
    BY DEF UnblockedStatus
<1>7. \A u \in Thread : /\ st[u] = "FREE" <=> status[u] = "FREE"
                        /\ st[u] = "DYING" <=> status[u] = "DYING"
    BY <1>3, CoreFacts DEF UnblockedStatus
<1> HIDE DEF st, rl
<1>8. Scheduling' /\ Handed /\ Keeps(st) /\ thread_ticks' \in 0..(TIME_SLICE - 1)
    <2>1. CASE YieldTo(rl, st, priority)
        BY <2>1, <1>1, <1>4, <1>5, CoreFacts, AfterYield DEF Handed
    <2>2. CASE /\ status' = st /\ ready_list' = rl /\ current' = current
               /\ thread_ticks' = thread_ticks
        BY <2>2, <1>1, <1>4, CoreFacts, AfterNothing DEF Handed, Core
    <2> QED
        BY <1>2, <2>1, <2>2
<1>9. Asleep' /\ Sleeping' = Sleeping /\ OnTick
    BY <1>1, AsleepKept DEF Core
<1>10. Accounted'
    BY ZenonT(40), <1>1, <1>6, <1>8, <1>9, CoreFacts, AccountCreated DEF Core
<1>11. Feedback' /\ Usage'
    BY <1>1, <1>7, <1>8, UsageKept DEF Feedback
<1> QED
    BY <1>8, <1>9, <1>10, <1>11 DEF Core

\* thread_exit () under the feedback queue.
LEMMA FedExitStep ==
    ASSUME Core, Feedback, Usage, Bases', NEW c \in Thread, mlfqs_exit(c),
           thread_mlfqs' = thread_mlfqs
    PROVE  Core' /\ Handed /\ OnTick /\ Feedback' /\ Usage'
<1> DEFINE x == IF c = initial_thread THEN "DYING" ELSE "FREE"
           st == [status EXCEPT ![c] = x]
           pri == [priority EXCEPT ![c] = PRI_DEFAULT]
<1>1. /\ current = c /\ Schedule(ready_list, st) /\ priority' = pri
      /\ nice' = [nice EXCEPT ![c] = 0] /\ recent_cpu' = [recent_cpu EXCEPT ![c] = 0]
      /\ creating' = creating /\ sleeping_list' = sleeping_list /\ wakeup' = wakeup
      /\ load_avg' = load_avg /\ ticks' = ticks
    BY DEF mlfqs_exit, Calls
<1>2. thread_ticks' = 0
    BY <1>1 DEF Schedule
<1>3. /\ pri \in [AllThread -> Priority]
      /\ \A u \in Thread : u # current => pri[u] = priority[u]
    BY <1>1, CoreFacts, AlarmAssumption
<1>4. x \in OffQueue /\ x # "BLOCKED"
    BY DEF OffQueue
<1> HIDE DEF x, pri
<1>5. Stopped(ready_list, st, pri)
    BY <1>1, <1>3, <1>4, StopStops DEF Core
<1>6. \A u \in Thread : st[u] = IF u = c THEN x ELSE status[u]
    BY CoreFacts
<1> HIDE DEF st
<1>7. Scheduling' /\ HighestRuns' /\ Keeps(st)
    BY <1>1, <1>5, AfterSchedule
<1>8. Asleep' /\ Sleeping' = Sleeping /\ OnTick
    BY <1>1, AsleepKept DEF Core
<1>9. Accounted'
    <2>1. \A u \in Thread : status'[u] = "BLOCKED" <=> status[u] = "BLOCKED"
        BY <1>1, <1>4, <1>6, <1>7, CoreFacts DEF Keeps, OffQueue
    <2> QED
        BY <1>1, <1>8, <2>1, AccountKept DEF Core
<1>10. Feedback'
    BY SMTT(40), <1>1 DEF Feedback
<1>11. Usage'
    <2>1. c \in Fed
        BY <1>1, CoreFacts DEF Usage
    <2>2. \A u \in Thread : u # c => /\ status'[u] = "FREE" <=> status[u] = "FREE"
                                     /\ status'[u] = "DYING" <=> status[u] = "DYING"
        BY <1>6, <1>7 DEF Keeps, OffQueue
    <2>3. \A u \in Thread : u # c => (u \in Existing' <=> u \in Existing)
        BY <2>2 DEF Existing
    <2>4. \A u \in Thread : recent_cpu'[u] = IF u = c THEN 0 ELSE recent_cpu[u]
        BY <1>1 DEF Feedback
    <2>5. Decayed(FedCount) + ticks * F \in Nat
        BY SMT, DecayedIs DEF Feedback
    <2>6. \A u \in Thread : recent_cpu'[u] <= IF u \in Existing' THEN Decayed(FedCount) + ticks * F ELSE 0
        BY SMT, <2>3, <2>4, <2>5 DEF Usage
    <2>7. \A u \in Thread : status'[u] # "FREE" => u \in Fed
        BY <2>1, <2>2 DEF Usage
    <2> QED
        BY <2>6, <2>7, <1>1 DEF Usage
<1> QED
    BY <1>2, <1>7, <1>8, <1>9, <1>10, <1>11, CoreFacts DEF Core, Handed

\* thread_yield () under the feedback queue.
LEMMA FedYieldStep ==
    ASSUME Core, Feedback, Usage, Bases', NEW c \in Thread, mlfqs_yield(c),
           thread_mlfqs' = thread_mlfqs
    PROVE  Core' /\ Handed /\ OnTick /\ Feedback' /\ Usage'
<1>1. /\ YieldTo(ready_list, status, priority)
      /\ priority' = priority /\ nice' = nice /\ recent_cpu' = recent_cpu
      /\ load_avg' = load_avg /\ ticks' = ticks /\ creating' = creating
      /\ sleeping_list' = sleeping_list /\ wakeup' = wakeup
    BY DEF mlfqs_yield
<1>2. thread_ticks' = 0
    BY <1>1 DEF YieldTo, Schedule
<1>3. Running(ready_list, status, priority)
    BY RunningNow DEF Core
<1>4. Scheduling' /\ HighestRuns' /\ Keeps(status)
    BY <1>1, <1>3, CoreFacts, AfterYield
<1>5. Asleep' /\ Sleeping' = Sleeping /\ OnTick
    BY <1>1, AsleepKept DEF Core
<1>6. Accounted'
    <2>1. \A u \in Thread : status'[u] = "BLOCKED" <=> status[u] = "BLOCKED"
        BY <1>4 DEF Keeps, OffQueue
    <2> QED
        BY <1>1, <1>5, <2>1, AccountKept DEF Core
<1>7. Feedback' /\ Usage'
    BY <1>1, <1>4, UsageKept DEF Feedback
<1> QED
    BY <1>2, <1>4, <1>5, <1>6, <1>7, CoreFacts DEF Core, Handed

\* timer_sleep () under the feedback queue.
LEMMA FedSleepStep ==
    ASSUME Core, Feedback, Usage, Bases', NEW c \in Thread, NEW n \in 1..MaxSleep,
           mlfqs_sleep(c, n), thread_mlfqs' = thread_mlfqs
    PROVE  Core' /\ Handed /\ OnTick /\ Feedback' /\ Usage'
<1> DEFINE st == [status EXCEPT ![c] = "BLOCKED"]
<1>1. /\ current = c /\ Schedule(ready_list, st)
      /\ priority' = priority /\ nice' = nice /\ recent_cpu' = recent_cpu
      /\ load_avg' = load_avg /\ ticks' = ticks /\ creating' = creating
      /\ wakeup' = [wakeup EXCEPT ![c] = n] /\ sleeping_list' = SleepInsert(c, wakeup')
    BY DEF mlfqs_sleep, Calls
<1>2. thread_ticks' = 0
    BY <1>1 DEF Schedule
<1>3. Stopped(ready_list, st, priority)
    BY ZenonT(40), <1>1, CoreFacts, StopStops DEF Core, OffQueue
<1>4. status[c] # "BLOCKED" /\ c \notin Sleeping
    BY <1>1, CoreFacts
<1>5. \A u \in Thread : /\ st[u] = "FREE" <=> status[u] = "FREE"
                        /\ st[u] = "DYING" <=> status[u] = "DYING"
    BY <1>1, CoreFacts
<1> HIDE DEF st
<1>6. Scheduling' /\ HighestRuns' /\ Keeps(st)
    BY <1>1, <1>3, AfterSchedule
<1>7. Asleep' /\ Sleeping' = Sleeping \cup {c}
    BY <1>1, <1>4, FallAsleep DEF Core
<1>8. Accounted'
    BY ZenonT(40), <1>1, <1>4, <1>6, <1>7, CoreFacts, AccountSleep DEF Core, st
<1>9. OnTick
    BY <1>7 DEF OnTick
<1>10. Feedback' /\ Usage'
    BY <1>1, <1>5, <1>6, UsageKept DEF Feedback
<1> QED
    BY <1>2, <1>6, <1>7, <1>8, <1>9, <1>10, CoreFacts DEF Core, Handed

\* thread_set_nice () computes a new priority ...
LEMMA FedNiceStep ==
    ASSUME Core, Feedback, Usage, Bases', NEW c \in Thread, NEW n \in Nice,
           thread_set_nice(c, n), thread_mlfqs' = thread_mlfqs
    PROVE  Core' /\ Handed /\ OnTick /\ Feedback' /\ Usage'
<1> DEFINE pri == [priority EXCEPT ![c] = update_thread_priority(recent_cpu[c], n)]
<1>1. /\ current = c /\ nice' = [nice EXCEPT ![c] = n] /\ priority' = pri
      /\ status' = status /\ ready_list' = ready_list /\ current' = current
      /\ thread_ticks' = thread_ticks /\ recent_cpu' = recent_cpu
      /\ load_avg' = load_avg /\ ticks' = ticks /\ creating' = creating
      /\ sleeping_list' = sleeping_list /\ wakeup' = wakeup
    BY DEF thread_set_nice, Calls
<1>2. update_thread_priority(recent_cpu[c], n) \in Priority
    BY MlfqsAssumption, PriorityComputed DEF Feedback
<1>3. /\ pri \in [AllThread -> Priority]
      /\ \A u \in Thread : u # current => pri[u] = priority[u]
    BY ZenonT(40), <1>1, <1>2, CoreFacts
<1> HIDE DEF pri
<1>4. Running(ready_list, status, pri)
    <2>1. Running(ready_list, status, priority)
        BY RunningNow DEF Core
    <2>2. Elements(ready_list) = {u \in Thread : status[u] = "READY"}
        BY <2>1 DEF Running, Matches
    <2>3. \A u \in Elements(ready_list) : pri[u] = priority[u]
        BY <2>2, <1>3, CoreFacts
    <2>4. Ordered(ready_list, pri)
        BY <2>1, <2>3 DEF Running, Ordered, Elements
    <2> QED
        BY <2>1, <2>4, <1>3 DEF Running, Matches
<1>5. Scheduling' /\ Keeps(status)
    BY <1>1, <1>4, CoreFacts, AfterNothing
<1>6. Asleep' /\ Sleeping' = Sleeping /\ OnTick
    BY <1>1, AsleepKept DEF Core
<1>7. Accounted'
    BY <1>1, <1>6, AccountKept DEF Core
<1>8. Feedback' /\ Usage'
    BY <1>1, <1>5, UsageKept DEF Feedback
<1> QED
    BY <1>1, <1>5, <1>6, <1>7, <1>8 DEF Core, Handed

\* ... then it sorts, and yields if the thread rose.
LEMMA FedSortStep ==
    ASSUME Core, Feedback, Usage, Bases', NEW c \in Thread,
           thread_set_nice_sort(c), thread_mlfqs' = thread_mlfqs
    PROVE  Core' /\ Handed /\ OnTick /\ Feedback' /\ Usage'
<1> DEFINE rl == list_sort(ready_list, priority)
<1>1. /\ priority' = priority /\ nice' = nice /\ recent_cpu' = recent_cpu
      /\ load_avg' = load_avg /\ ticks' = ticks /\ creating' = creating
      /\ sleeping_list' = sleeping_list /\ wakeup' = wakeup
    BY ZenonT(40) DEF thread_set_nice_sort
<1>2. \/ YieldTo(rl, status, priority)
      \/ /\ status' = status /\ ready_list' = rl /\ current' = current
         /\ thread_ticks' = thread_ticks
    BY DEF thread_set_nice_sort
<1>3. Running(rl, status, priority)
    BY CoreFacts, SortRuns DEF Core
<1>4. YieldTo(rl, status, priority) => thread_ticks' = 0
    BY DEF YieldTo, Schedule
<1> HIDE DEF rl
<1>5. Scheduling' /\ Handed /\ Keeps(status) /\ thread_ticks' \in 0..(TIME_SLICE - 1)
    <2>1. CASE YieldTo(rl, status, priority)
        BY <2>1, <1>1, <1>3, <1>4, CoreFacts, AfterYield DEF Handed
    <2>2. CASE /\ status' = status /\ ready_list' = rl /\ current' = current
               /\ thread_ticks' = thread_ticks
        BY <2>2, <1>1, <1>3, CoreFacts, AfterNothing DEF Handed, Core
    <2> QED
        BY <1>2, <2>1, <2>2
<1>6. Asleep' /\ Sleeping' = Sleeping /\ OnTick
    BY <1>1, AsleepKept DEF Core
<1>7. Accounted'
    <2>1. \A u \in Thread : status'[u] = "BLOCKED" <=> status[u] = "BLOCKED"
        BY <1>5 DEF Keeps, OffQueue
    <2> QED
        BY <1>1, <1>6, <2>1, AccountKept DEF Core
<1>8. Feedback' /\ Usage'
    BY <1>1, <1>5, UsageKept DEF Feedback
<1> QED
    BY <1>5, <1>6, <1>7, <1>8 DEF Core

\* The idle thread under the feedback queue.
LEMMA FedIdleStep ==
    ASSUME Core, Feedback, Usage, Bases', mlfqs_idle, thread_mlfqs' = thread_mlfqs
    PROVE  Core' /\ Handed /\ OnTick /\ Feedback' /\ Usage'
<1> DEFINE st == [status EXCEPT ![current] = "BLOCKED"]
<1>1. /\ current = idle_thread /\ Schedule(ready_list, st)
      /\ priority' = priority /\ nice' = nice /\ recent_cpu' = recent_cpu
      /\ load_avg' = load_avg /\ ticks' = ticks /\ creating' = creating
      /\ sleeping_list' = sleeping_list /\ wakeup' = wakeup
    BY DEF mlfqs_idle
<1>2. thread_ticks' = 0
    BY <1>1 DEF Schedule
<1>3. Stopped(ready_list, st, priority)
    BY ZenonT(40), CoreFacts, StopStops DEF Core, OffQueue
<1>4. \A u \in Thread : st[u] = status[u]
    BY <1>1, CoreFacts
<1> HIDE DEF st
<1>5. Scheduling' /\ HighestRuns' /\ Keeps(st)
    BY <1>1, <1>3, AfterSchedule
<1>6. Asleep' /\ Sleeping' = Sleeping /\ OnTick
    BY <1>1, AsleepKept DEF Core
<1>7. Accounted'
    <2>1. \A u \in Thread : status'[u] = "BLOCKED" <=> status[u] = "BLOCKED"
        BY <1>4, <1>5 DEF Keeps, OffQueue
    <2> QED
        BY <1>1, <1>6, <2>1, AccountKept DEF Core
<1>8. Feedback' /\ Usage'
    BY <1>1, <1>4, <1>5, UsageKept DEF Feedback
<1> QED
    BY <1>2, <1>5, <1>6, <1>7, <1>8, CoreFacts DEF Core, Handed

\* The threads that update_load_avg () counts are threads of the kernel.
LEMMA ReadyCount ==
    ASSUME Core, Usage
    PROVE  Len(ready_list) + (IF current = idle_thread THEN 0 ELSE 1) \in 0..FedCount
<1> DEFINE n == Len(ready_list)
           k == n + (IF current = idle_thread THEN 0 ELSE 1)
           f == [i \in 1..k |-> IF i <= n THEN ready_list[i] ELSE current]
<1>1. /\ n \in Nat /\ k \in Nat /\ (k = n \/ k = n + 1) /\ (k = n + 1 => current # idle_thread)
    BY SMT, CoreFacts
<1>2. Distinct(ready_list) /\ \A t \in Elements(ready_list) : t \in Thread /\ status[t] = "READY"
    BY DEF Core, Scheduling, SchedulerOK, QueueIsReady
<1>3. \A i \in 1..n : ready_list[i] \in Fed /\ ready_list[i] # current
    <2> TAKE i \in 1..n
    <2>1. ready_list[i] \in Elements(ready_list)
        BY DEF Elements
    <2> QED
        BY <2>1, <1>2, CoreFacts DEF Usage
<1>4. current # idle_thread => current \in Fed
    BY CoreFacts DEF AllThread, Usage
<1>5. \A i \in 1..k : (i <= n /\ i \in 1..n /\ f[i] = ready_list[i]) \/ (i = n + 1 /\ f[i] = current /\ k = n + 1)
    BY SMT, <1>1
<1>6. DOMAIN f = 1..k
    OBVIOUS
<1>7. f \in [1..k -> Fed]
    <2>1. \A i \in 1..k : f[i] \in Fed
        BY <1>1, <1>3, <1>4, <1>5
    <2> QED
        BY ZenonT(40), <2>1
<1> HIDE DEF f, k, n
<1>8. \A i, j \in 1..k : f[i] = f[j] => i = j
    <2> TAKE i, j \in 1..k
    <2> SUFFICES ASSUME f[i] = f[j] PROVE i = j
        OBVIOUS
    <2>1. CASE i \in 1..n /\ f[i] = ready_list[i] /\ j \in 1..n /\ f[j] = ready_list[j]
        BY ZenonT(40), <2>1, <1>2 DEF Distinct, n
    <2>2. CASE i = n + 1 /\ j = n + 1
        BY <2>2
    <2>3. CASE i \in 1..n /\ f[i] = ready_list[i] /\ f[j] = current
        BY ZenonT(40), <2>3, <1>3
    <2>4. CASE j \in 1..n /\ f[j] = ready_list[j] /\ f[i] = current
        BY <2>4, <1>3
    <2> QED
        BY <1>5, <2>1, <2>2, <2>3, <2>4
<1>9. f \in Injection(1..k, Fed)
    BY <1>6, <1>7, <1>8 DEF Injection, IsInjective
<1>10. Cardinality(1..k) <= FedCount
    BY <1>9, MlfqsAssumption, FS_Injection DEF FedCount
<1>11. Cardinality(1..k) = k
    <2>1. Cardinality(1..k) = IF 1 > k THEN 0 ELSE k - 1 + 1
        BY SMT, <1>1, FS_Interval
    <2> QED
        BY SMT, <2>1, <1>1
<1>12. k \in 0..FedCount
    BY SMTT(40), <1>1, <1>10, <1>11, DecayedIs
<1> QED
    BY <1>12 DEF k, n

\* The second ends with the tick that fills it.
LEMMA SecondEnds ==
    ASSUME Feedback
    PROVE  \/ /\ (ticks + 1) % TIMER_FREQ = ticks + 1 /\ ticks + 1 # 0
              /\ ticks + 1 \in 0..(TIMER_FREQ - 1)
           \/ /\ (ticks + 1) % TIMER_FREQ = 0 /\ ticks + 1 = TIMER_FREQ
              /\ 0 \in 0..(TIMER_FREQ - 1)
<1>1. ticks \in Nat /\ TIMER_FREQ \in Nat \ {0} /\ ticks + 1 <= TIMER_FREQ
    BY SMT, MlfqsAssumption DEF Feedback
<1>2. CASE ticks + 1 < TIMER_FREQ
    BY SMT, <1>1, <1>2
<1>3. CASE ticks + 1 = TIMER_FREQ
    BY SMT, <1>1, <1>3
<1> QED
    BY SMT, <1>1, <1>2, <1>3

(***************************************************************************)
(* The timer interrupt's part of the usage: a tick more for the running    *)
(* thread, and at the end of a second the decay of every thread's.         *)
(***************************************************************************)
Counted ==
    [t \in Thread |-> IF t = current THEN recent_cpu[t] + INT_TO_FP(1) ELSE recent_cpu[t]]
SecondLoad ==
    IF (ticks + 1) % TIMER_FREQ = 0
    THEN update_load_avg(load_avg, Len(ready_list) + (IF current = idle_thread THEN 0 ELSE 1))
    ELSE load_avg

\* The tick charged to the running thread stays below the bound of a tick later.
LEMMA CountedIs ==
    ASSUME Core, Feedback, Usage
    PROVE  /\ Counted \in [Thread -> Int]
           /\ \A t \in Thread :
                 Counted[t] <= IF t \in Existing THEN Decayed(FedCount) + (ticks + 1) * F ELSE 0
<1>1. F \in Nat /\ ticks \in Nat /\ INT_TO_FP(1) = F
    BY SMT, FIs DEF Feedback, INT_TO_FP
<1>2. /\ Decayed(FedCount) + ticks * F \in Nat
      /\ Decayed(FedCount) + (ticks + 1) * F = Decayed(FedCount) + ticks * F + F
    <2>1. (ticks + 1) * F = ticks * F + F
        BY SMT, <1>1
    <2>2. Decayed(FedCount) \in Nat /\ ticks * F \in Nat
        BY <1>1, DecayedIs
    <2> QED
        BY SMT, <2>1, <2>2, <1>1
<1>3. \A t \in Thread : recent_cpu[t] \in Int
    BY DEF Feedback
<1>4. Counted \in [Thread -> Int]
    BY SMT, <1>1, <1>3 DEF Counted
<1>5. \A t \in Thread : t = current => t \in Existing
    BY CoreFacts DEF Existing
<1>6. ASSUME NEW t \in Thread
      PROVE  Counted[t] <= IF t \in Existing THEN Decayed(FedCount) + (ticks + 1) * F ELSE 0
    <2>1. Counted[t] = recent_cpu[t] \/ (t = current /\ Counted[t] = recent_cpu[t] + F)
        BY <1>1 DEF Counted
    <2>2. recent_cpu[t] <= IF t \in Existing THEN Decayed(FedCount) + ticks * F ELSE 0
        BY DEF Usage
    <2> DEFINE b == Decayed(FedCount) + ticks * F
    <2> HIDE DEF b
    <2>3. b \in Nat /\ Decayed(FedCount) + (ticks + 1) * F = b + F
        BY <1>2 DEF b
    <2>4. recent_cpu[t] <= IF t \in Existing THEN b ELSE 0
        BY <2>2 DEF b
    <2>5. Counted[t] <= IF t \in Existing THEN b + F ELSE 0
        BY SMTT(40), <2>1, <2>3, <2>4, <1>1, <1>3, <1>5
    <2> QED
        BY <2>3, <2>5
<1> QED
    BY <1>4, <1>6

\* The tick keeps the usage within its bounds.
LEMMA UsageTick ==
    ASSUME Core, Feedback, Usage, Keeps(Awake), nice' = nice, thread_mlfqs' = thread_mlfqs,
           ticks' = (ticks + 1) % TIMER_FREQ, load_avg' = SecondLoad,
           recent_cpu' = [t \in Thread |->
                             IF (ticks + 1) % TIMER_FREQ = 0 /\ t \in Existing
                             THEN update_recent_cpu(SecondLoad, Counted[t], nice[t])
                             ELSE Counted[t]]
    PROVE  Feedback' /\ Usage'
<1>1. \A t \in Thread : /\ Counted[t] \in Int
                        /\ Counted[t] <= IF t \in Existing THEN Decayed(FedCount) + (ticks + 1) * F ELSE 0
    BY CountedIs
<1>2. load_avg' \in 0..INT_TO_FP(FedCount)
    BY ZenonT(40), ReadyCount, LoadAveraged, DecayedIs DEF Feedback, SecondLoad
<1>3. \A u \in Thread : /\ status'[u] = "FREE" <=> status[u] = "FREE"
                        /\ status'[u] = "DYING" <=> status[u] = "DYING"
    <2>1. \A t \in Elements(Due) : status[t] = "BLOCKED"
        BY DueOK, CoreFacts DEF Core
    <2>2. \A u \in Thread : /\ Awake[u] = "FREE" <=> status[u] = "FREE"
                            /\ Awake[u] = "DYING" <=> status[u] = "DYING"
        BY <2>1, CoreFacts DEF Awake
    <2> QED
        BY <2>2 DEF Keeps, OffQueue
<1>4. \A u \in Thread : u \in Existing' <=> u \in Existing
    BY <1>3 DEF Existing
<1>5. CASE /\ (ticks + 1) % TIMER_FREQ = ticks + 1 /\ ticks + 1 # 0
           /\ ticks + 1 \in 0..(TIMER_FREQ - 1)
    <2>1. ticks' = ticks + 1 /\ ticks' \in 0..(TIMER_FREQ - 1)
        BY <1>5
    <2>2. recent_cpu' = Counted
        <3>1. recent_cpu' = [t \in Thread |-> Counted[t]]
            BY <1>5
        <3> QED
            BY <3>1, CountedIs
    <2>3. Feedback'
        BY <2>1, <2>2, <1>2, CountedIs DEF Feedback
    <2>4. Usage'
        BY <2>1, <2>2, <1>1, <1>3, <1>4 DEF Usage
    <2> QED
        BY <2>3, <2>4
<1>6. CASE /\ (ticks + 1) % TIMER_FREQ = 0 /\ ticks + 1 = TIMER_FREQ
           /\ 0 \in 0..(TIMER_FREQ - 1)
    <2>1. ticks' = 0 /\ ticks' \in 0..(TIMER_FREQ - 1)
        BY <1>6
    <2>2. \A t \in Thread : recent_cpu'[t] = IF t \in Existing
                                THEN update_recent_cpu(load_avg', Counted[t], nice[t]) ELSE Counted[t]
        BY <1>6
    <2>3. ASSUME NEW t \in Thread
          PROVE  /\ recent_cpu'[t] \in Int
                 /\ recent_cpu'[t] <= IF t \in Existing THEN Decayed(FedCount) ELSE 0
        <3>1. CASE t \in Existing
            <4>1. Counted[t] \in Int /\ Counted[t] <= Decayed(FedCount) + TIMER_FREQ * F
                BY <3>1, <1>1, <1>6
            <4>2. nice[t] \in Nice \cup {0} /\ FedCount \in Nat
                BY DecayedIs DEF Feedback
            <4>3. /\ update_recent_cpu(load_avg', Counted[t], nice[t]) \in Int
                  /\ update_recent_cpu(load_avg', Counted[t], nice[t]) <= Decayed(FedCount)
                BY <4>1, <4>2, <1>2, UsageDecays
            <4> QED
                BY <3>1, <4>3, <2>2
        <3>2. CASE t \notin Existing
            BY <3>2, <1>1, <2>2
        <3> QED
            BY <3>1, <3>2
    <2>4. recent_cpu' \in [Thread -> Int]
        <3>1. recent_cpu' = [t \in Thread |-> recent_cpu'[t]]
            OBVIOUS
        <3> QED
            BY <2>3, <3>1
    <2>5. Feedback'
        BY <2>1, <2>4, <1>2 DEF Feedback
    <2>6. Decayed(FedCount) + 0 * F = Decayed(FedCount)
        BY SMTT(40), DecayedIs, FIs
    <2>7. Usage'
        BY <2>1, <2>3, <2>6, <1>3, <1>4 DEF Usage
    <2> QED
        BY <2>5, <2>7
<1> QED
    BY <1>5, <1>6, SecondEnds

\* The timer interrupt under the feedback queue: new priorities at the end of a
\* slice, the run queue sorted by them, then the sleepers that are due.
LEMMA FedTickStep ==
    ASSUME Core, Feedback, Usage, Bases', mlfqs_tick, thread_mlfqs' = thread_mlfqs
    PROVE  Core' /\ Handed /\ OnTick /\ Feedback' /\ Usage'
<1> DEFINE slice == (ticks + 1) % TIME_SLICE = 0
           pri == [t \in AllThread |->
                      IF slice /\ t \in Existing
                      THEN update_thread_priority(Counted[t], nice[t]) ELSE priority[t]]
           queue == IF slice THEN Resorted(ready_list, pri) ELSE ready_list
           rl == Woken(queue, Due, pri)
<1>1. /\ sleeping_list' = StillAsleep(DueCount(Remaining)) /\ wakeup' = Remaining
      /\ priority' = pri /\ creating' = creating /\ nice' = nice
      /\ ticks' = (ticks + 1) % TIMER_FREQ
      /\ load_avg' = SecondLoad
      /\ recent_cpu' = [t \in Thread |->
                             IF (ticks + 1) % TIMER_FREQ = 0 /\ t \in Existing
                             THEN update_recent_cpu(SecondLoad, Counted[t], nice[t])
                             ELSE Counted[t]]
    BY ZenonT(40) DEF mlfqs_tick, Remaining, Counted, SecondLoad
<1>2. \/ YieldTo(rl, Awake, pri)
      \/ /\ ~ (thread_ticks + 1 >= TIME_SLICE)
         /\ status' = Awake /\ ready_list' = rl /\ current' = current
         /\ thread_ticks' = thread_ticks + 1
    BY ZenonT(40) DEF mlfqs_tick, Remaining, Due, Awake, Counted
<1>3. pri \in [AllThread -> Priority]
    <2>1. \A t \in Thread : Counted[t] \in Int /\ nice[t] \in Int
        BY CountedIs, TopIs DEF Feedback
    <2>2. \A t \in Thread : update_thread_priority(Counted[t], nice[t]) \in Priority
        BY <2>1, PriorityComputed
    <2>3. \A t \in AllThread : priority[t] \in Priority
        BY CoreFacts
    <2>4. Existing \subseteq Thread
        BY DEF Existing
    <2> QED
        BY <2>2, <2>3, <2>4
<1>4. Running(queue, status, pri)
    <2>1. CASE slice
        <3>1. queue = list_sort(ready_list, pri)
            BY <2>1 DEF Resorted
        <3> HIDE DEF pri, queue
        <3> QED
            BY <3>1, <1>3, SortRuns DEF Core
    <2>2. CASE ~slice
        <3>1. pri = [t \in AllThread |-> priority[t]] /\ queue = ready_list
            BY <2>2
        <3>2. pri = priority
            BY <3>1, CoreFacts
        <3> HIDE DEF pri, queue
        <3> QED
            BY <3>1, <3>2, RunningNow DEF Core
    <2> QED
        BY ZenonT(40), <2>1, <2>2
<1> HIDE DEF queue, pri, slice
<1>5. Running(rl, Awake, pri)
    BY <1>4, CoreFacts, WakeRuns DEF Core
<1>6. YieldTo(rl, Awake, pri) => thread_ticks' = 0
    BY DEF YieldTo, Schedule
<1> HIDE DEF rl
<1>7. Scheduling' /\ Handed /\ Keeps(Awake) /\ thread_ticks' \in 0..(TIME_SLICE - 1)
    <2>1. CASE YieldTo(rl, Awake, pri)
        BY ZenonT(40), <2>1, <1>1, <1>5, <1>6, CoreFacts, AfterYield DEF Handed
    <2>2. CASE /\ ~ (thread_ticks + 1 >= TIME_SLICE)
               /\ status' = Awake /\ ready_list' = rl /\ current' = current
               /\ thread_ticks' = thread_ticks + 1
        <3>1. Scheduling' /\ Keeps(Awake)
            BY <2>2, <1>1, <1>5, CoreFacts, AfterNothing
        <3>2. thread_ticks' \in 0..(TIME_SLICE - 1)
            BY SMTT(40), <2>2, AlarmAssumption DEF Core
        <3> QED
            BY <2>2, <3>1, <3>2 DEF Handed
    <2> QED
        BY <1>2, <2>1, <2>2
<1>8. Asleep' /\ Accounted' /\ OnTick
    BY ZenonT(40), <1>1, <1>7, TickSleepers
<1>9. Feedback' /\ Usage'
    BY <1>1, <1>7, UsageTick
<1> QED
    BY <1>7, <1>8, <1>9 DEF Core

\* Every step under the feedback queue.
LEMMA FedStep ==
    ASSUME Core, Feedback, Usage, MlfqsStep,
           UNCHANGED <<thread_mlfqs, base_priority, donated_priority>>
    PROVE  Core' /\ Handed /\ OnTick /\ Feedback' /\ Usage'
<1>1. Bases' /\ thread_mlfqs' = thread_mlfqs
    BY CoreFacts DEF Bases
<1>2. CASE mlfqs_tick
    BY <1>1, <1>2, FedTickStep
<1>3. CASE mlfqs_idle
    BY <1>1, <1>3, FedIdleStep
<1>4. ASSUME NEW c \in Thread,
             \/ \E t \in Fed : mlfqs_create(c, t)
             \/ mlfqs_created(c) \/ mlfqs_exit(c) \/ mlfqs_yield(c)
             \/ thread_set_nice_sort(c)
             \/ \E n \in Nice : thread_set_nice(c, n)
             \/ \E n \in 1..MaxSleep : mlfqs_sleep(c, n)
      PROVE  Core' /\ Handed /\ OnTick /\ Feedback' /\ Usage'
    BY <1>1, <1>4, FedCreateStep, FedCreatedStep, FedExitStep, FedYieldStep,
       FedSortStep, FedNiceStep, FedSleepStep
<1> QED
    BY <1>2, <1>3, <1>4 DEF MlfqsStep

-------------------------------------------------------------------------------
(***************************************************************************)
(* The inductive invariant of the two schedulers.                          *)
(***************************************************************************)
ClockInv ==
    /\ Core
    /\ Feedback
    /\ thread_mlfqs = FALSE => HighestRuns
    /\ thread_mlfqs = TRUE => Usage

\* The kernel starts in it.
LEMMA ClockInit == MlfqsInit => ClockInv
<1> SUFFICES ASSUME MlfqsInit PROVE ClockInv
    OBVIOUS
<1>1. /\ status = [t \in AllThread |-> CASE t = initial_thread -> "RUNNING"
                                         [] t = idle_thread -> "BLOCKED"
                                         [] OTHER -> "FREE"]
      /\ priority = [t \in AllThread |-> IF t = idle_thread THEN PRI_MIN ELSE PRI_DEFAULT]
      /\ base_priority = priority /\ donated_priority = [t \in AllThread |-> PRI_MIN]
      /\ ready_list = <<>> /\ current = initial_thread /\ thread_ticks = 0
      /\ sleeping_list = <<>> /\ wakeup = [t \in Thread |-> 0]
      /\ creating = [t \in Thread |-> NULL]
    BY DEF MlfqsInit, Init
<1>2. /\ thread_mlfqs \in BOOLEAN /\ nice = [t \in Thread |-> 0]
      /\ recent_cpu = [t \in Thread |-> 0] /\ load_avg = 0 /\ ticks = 0
    BY DEF MlfqsInit
<1>3. /\ initial_thread \in Thread /\ initial_thread \in AllThread
      /\ initial_thread # idle_thread /\ Thread \subseteq AllThread /\ idle_thread \notin Thread
      /\ NULL \notin Thread /\ PRI_MIN \in Priority /\ PRI_DEFAULT \in Priority
      /\ MaxSleep \in Nat /\ 0 \in 0..(TIME_SLICE - 1)
    BY SMT, AlarmAssumption, ThreadAssumption, PriorityAssumption DEF AllThread, Priority
<1>4. \A t \in AllThread : status[t] = IF t = initial_thread THEN "RUNNING"
                                       ELSE IF t = idle_thread THEN "BLOCKED" ELSE "FREE"
    BY <1>1, <1>3
<1>5. status \in [AllThread -> Status]
    <2>1. \A t \in AllThread : status[t] \in Status
        BY <1>4 DEF Status
    <2> QED
        BY <1>1, <2>1
<1>6. ThreadTypeOK
    BY SMT, <1>1, <1>3, <1>5 DEF ThreadTypeOK
<1>7. /\ Elements(<<>>) = {} /\ Distinct(<<>>) /\ <<>> \in Seq(Thread)
      /\ \A key : Ordered(<<>>, key)
    BY SMT DEF Elements, Distinct, Ordered
<1>8. SchedulerOK
    <2>1. OneRunning
        BY <1>1, <1>3, <1>4 DEF OneRunning
    <2>2. {t \in Thread : status[t] = "READY"} = {}
        BY <1>3, <1>4
    <2> QED
        BY <1>1, <1>7, <2>1, <2>2 DEF SchedulerOK, QueueIsReady
<1>9. Ordered(ready_list, priority) /\ HighestRuns /\ Sleeping = {}
    BY <1>1, <1>7 DEF HighestRuns, Sleeping
<1>10. Asleep
    <2>1. Ordered(sleeping_list, SleepKey(wakeup)) /\ Distinct(sleeping_list)
        BY ZenonT(40), <1>1, <1>7
    <2>2. sleeping_list \in Seq(Thread) /\ wakeup \in [Thread -> 0..MaxSleep]
        BY SMT, <1>1, <1>3
    <2> QED
        BY <2>1, <2>2, <1>9 DEF Asleep
<1>11. Accounted
    BY <1>1, <1>3, <1>4, <1>9 DEF Accounted
<1>12. Core
    BY <1>1, <1>3, <1>6, <1>8, <1>9, <1>10, <1>11 DEF Core, Scheduling
<1>13. Feedback
    <2>1. 0 \in 0..INT_TO_FP(FedCount) /\ 0 \in 0..(TIMER_FREQ - 1)
        BY SMT, DecayedIs, MlfqsAssumption DEF INT_TO_FP
    <2> QED
        BY SMT, <1>2, <2>1 DEF Feedback
<1>14. Usage
    <2>1. Decayed(FedCount) + ticks * F \in Nat
        BY <1>2, DecayedIs
    <2>2. \A t \in Thread : recent_cpu[t] = 0
        BY <1>2
    <2>3. \A t \in Thread : status[t] # "FREE" => t \in Fed
        BY <1>3, <1>4, MlfqsAssumption
    <2> QED
        BY SMT, <2>1, <2>2, <2>3 DEF Usage
<1> QED
    BY <1>9, <1>12, <1>13, <1>14 DEF ClockInv

\* Every step keeps it, wakes sleepers on their tick only, and hands the
\* processor to the highest priority.
LEMMA ClockStep ==
    ASSUME ClockInv, MlfqsNext
    PROVE  /\ ClockInv' /\ OnTick
           /\ current' # current \/ ~thread_mlfqs => HighestRuns'
<1>1. CASE thread_mlfqs = FALSE /\ Next /\ UNCHANGED mlfqsVars
    <2>1. Core /\ HighestRuns /\ Feedback
        BY <1>1 DEF ClockInv
    <2>2. Core' /\ HighestRuns' /\ OnTick
        BY <1>1, <2>1, PriorityStep
    <2>3. Feedback' /\ thread_mlfqs' = FALSE
        BY <1>1, <2>1 DEF Feedback, mlfqsVars
    <2> QED
        BY <2>2, <2>3 DEF ClockInv
<1>2. CASE /\ thread_mlfqs = TRUE /\ MlfqsStep
           /\ UNCHANGED <<thread_mlfqs, base_priority, donated_priority>>
    <2>1. Core /\ Usage /\ Feedback
        BY <1>2 DEF ClockInv
    <2>2. Core' /\ Handed /\ OnTick /\ Feedback' /\ Usage'
        BY <1>2, <2>1, FedStep
    <2>3. thread_mlfqs' = TRUE
        BY <1>2
    <2> QED
        BY <1>2, <2>2, <2>3 DEF ClockInv, Handed
<1> QED
    BY <1>1, <1>2 DEF MlfqsNext

\* Nothing happens.
LEMMA ClockStutters ==
    ASSUME ClockInv, UNCHANGED allVars
    PROVE  ClockInv'
<1>1. /\ status' = status /\ priority' = priority /\ base_priority' = base_priority
      /\ donated_priority' = donated_priority /\ ready_list' = ready_list /\ current' = current
      /\ thread_ticks' = thread_ticks /\ sleeping_list' = sleeping_list /\ wakeup' = wakeup
      /\ creating' = creating
      /\ thread_mlfqs' = thread_mlfqs /\ nice' = nice /\ recent_cpu' = recent_cpu
      /\ load_avg' = load_avg /\ ticks' = ticks
    BY DEF allVars, vars, threadVars, mlfqsVars
<1>2. Core'
    BY <1>1 DEF ClockInv, Core, Scheduling, ThreadTypeOK, SchedulerOK, OneRunning, QueueIsReady,
                Asleep, Accounted, Sleeping
<1>3. Feedback'
    BY <1>1 DEF ClockInv, Feedback
<1>4. Usage => Usage'
    BY <1>1 DEF Usage, Existing
<1>5. HighestRuns => HighestRuns'
    BY <1>1 DEF HighestRuns
<1> QED
    BY <1>1, <1>2, <1>3, <1>4, <1>5 DEF ClockInv

\* ClockInv is an invariant of the threads under either scheduler.
LEMMA ClockInvariant == MlfqsSpec => []ClockInv
<1>1. ClockInv /\ [MlfqsNext]_allVars => ClockInv'
    BY ClockStep, ClockStutters
<1> QED
    BY <1>1, ClockInit, PTL DEF MlfqsSpec

(***************************************************************************)
(* ThreadsAccounted holds under either scheduler, for every number of      *)
(* threads, slice, priority range and sleep: thread_create (), timer_sleep *)
(* (), timer_interrupt () and the scheduler never lose or share a thread.  *)
(***************************************************************************)
THEOREM ThreadsStayAccounted == MlfqsSpec => []ThreadsAccounted
<1>1. ClockInv => ThreadsAccounted
    BY AccountedBlocked DEF ClockInv, Core, Scheduling, Asleep, Accounted, ThreadsAccounted, TypeOK
<1> QED
    BY <1>1, ClockInvariant, PTL

(***************************************************************************)
(* WakesOnTick: timer_interrupt () wakes a thread in timer_sleep () on the *)
(* tick it asked for, however the other sleepers come and go.              *)
(***************************************************************************)
THEOREM SleepersWakeOnTick == MlfqsSpec => WakesOnTick
<1> DEFINE A == \A t \in Thread :
                   /\ t \in Sleeping' => wakeup'[t] > 0
                   /\ t \in Sleeping /\ t \notin Sleeping' => wakeup[t] = 1
<1>1. ClockInv /\ ClockInv' /\ [MlfqsNext]_allVars => [A]_vars
    <2> SUFFICES ASSUME ClockInv, ClockInv', [MlfqsNext]_allVars PROVE [A]_vars
        OBVIOUS
    <2>1. CASE MlfqsNext
        <3>1. OnTick
            BY <2>1, ClockStep
        <3>2. \A t \in Sleeping' : wakeup'[t] > 0
            BY DEF ClockInv, Core, Asleep
        <3> QED
            BY <3>1, <3>2 DEF OnTick
    <2>2. CASE UNCHANGED allVars
        BY <2>2 DEF allVars
    <2> QED
        BY <2>1, <2>2
<1> QED
    BY <1>1, ClockInvariant, PTL DEF MlfqsSpec, WakesOnTick

(***************************************************************************)
(* SchedulesByPriority: whenever the processor changes hands, and under    *)
(* the priority scheduler at every moment, no ready thread has a higher    *)
(* priority than the one that runs.                                        *)
(***************************************************************************)
THEOREM ProcessorGoesToHighest == MlfqsSpec => SchedulesByPriority
<1>1. ClockInv /\ [MlfqsNext]_allVars
         => [current' # current \/ ~thread_mlfqs => HighestRuns']_allVars
    BY ClockStep
<1> QED
    BY <1>1, ClockInvariant, PTL DEF MlfqsSpec, SchedulesByPriority

(***************************************************************************)
(* UsageBounded: for every number of threads, load_avg and recent_cpu stay *)
(* within the bounds that the averages of update_load_avg () and           *)
(* update_recent_cpu () allow, whenever the kernel's clock ticks.          *)
(***************************************************************************)
THEOREM UsageStaysBounded == MlfqsSpec => []UsageBounded
<1>1. ClockInv => UsageBounded
    <2> SUFFICES ASSUME ClockInv, thread_mlfqs
                 PROVE  /\ load_avg \in 0..INT_TO_FP(Cardinality(Fed))
                        /\ \A t \in Fed : recent_cpu[t] <= UsageLimit(Cardinality(Fed))
        BY DEF UsageBounded
    <2>1. Feedback /\ Usage
        BY DEF ClockInv, Feedback
    <2>2. Decayed(FedCount) + ticks * F <= UsageLimit(FedCount) /\ UsageLimit(FedCount) \in Nat
        <3> DEFINE n == FedCount
                   g == F * (TIMER_FREQ + Top)
        <3>1. /\ n \in Nat /\ F \in Nat /\ Top \in Nat /\ TIMER_FREQ \in Nat
              /\ ticks \in Nat /\ ticks <= TIMER_FREQ
            BY SMTT(40), <2>1, DecayedIs, FIs, TopIs, MlfqsAssumption DEF Feedback
        <3>2. g \in Nat /\ g = TIMER_FREQ * F + F * Top
            BY SMT, <3>1
        <3>3. UsageLimit(n) = ((1 + TIMER_FREQ + Top) * F) * (2 * n + 1)
            BY DEF UsageLimit, INT_TO_FP, Top
        <3>4. (1 + TIMER_FREQ + Top) * F = g + F
            BY SMT, <3>1
        <3> HIDE DEF g, n
        <3>5. (g + F) * (2 * n + 1) = 2 * n * g + g + F * (2 * n + 1)
            BY SMT, <3>1, <3>2
        <3>6. Decayed(n) = 2 * n * g + F * Top
            BY DEF Decayed, g
        <3>7. ticks * F <= TIMER_FREQ * F /\ F * (2 * n + 1) >= 0
            BY SMT, <3>1
        <3>8. /\ 2 * n * g \in Nat /\ F * (2 * n + 1) \in Nat /\ ticks * F \in Nat
              /\ TIMER_FREQ * F \in Nat /\ F * Top \in Nat
            BY SMT, <3>1, <3>2
        <3>9. UsageLimit(n) = 2 * n * g + g + F * (2 * n + 1)
            BY <3>3, <3>4, <3>5
        <3>10. Decayed(n) + ticks * F <= UsageLimit(n) /\ UsageLimit(n) \in Nat
            BY SMTT(40), <3>2, <3>6, <3>7, <3>8, <3>9
        <3> QED
            BY <3>10 DEF n
    <2>3. \A t \in Fed : t \in Thread /\ recent_cpu[t] \in Int
        BY <2>1, MlfqsAssumption DEF Feedback
    <2>4. Decayed(FedCount) + ticks * F \in Nat
        BY SMT, <2>1, DecayedIs DEF Feedback
    <2>5. \A t \in Fed : recent_cpu[t] <= UsageLimit(FedCount)
        <3> TAKE t \in Fed
        <3>1. recent_cpu[t] <= IF t \in Existing THEN Decayed(FedCount) + ticks * F ELSE 0
            BY <2>1, <2>3 DEF Usage
        <3> QED
            BY SMTT(40), <3>1, <2>2, <2>3, <2>4
    <2> QED
        BY <2>1, <2>5 DEF Feedback, FedCount
<1> QED
    BY <1>1, ClockInvariant, PTL
===============================================================================
