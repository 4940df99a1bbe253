------------------------------- MODULE MCSynch --------------------------------
(***************************************************************************)
(* Synch for TLC: three threads, in order of creation, and the programs    *)
(* they run.  A behaviour fixes which objects its threads use: two locks,  *)
(* a lock and a semaphore, or a lock and a condition.  Objects that are    *)
(* not used keep their initial state, so the three kinds of program add up *)
(* to one state space instead of multiplying.                              *)
(***************************************************************************)
EXTENDS Synch, TLC

CONSTANTS t1, t2, t3, l1, l2, s1, c1

Threads3 == {t1, t2, t3}
Order3 == <<t1, t2, t3>>
CondLock == (c1 :> l1)

VARIABLE used

Programs == {{l1, l2}, {l1, s1}, {l1, c1}}

Untouched ==
    /\ \A s \in (Lock \cup Semaphore) \ used :
          waiters[s] = <<>> /\ value[s] = (IF s \in Lock THEN 1 ELSE 0)
    /\ \A c \in Condition \ used : cond_waiters[c] = <<>>

\* Only programs with two locks run at three priorities, only programs with a
\* semaphore change theirs, and in programs with a condition t1 is low.
Priorities == l2 \notin used => \A t \in Thread : base_priority[t] < PRI_MAX

MCInit ==
    /\ Init
    /\ used \in Programs
    /\ Priorities
    /\ c1 \in used => base_priority[t1] = PRI_MIN

MCNext ==
    /\ UNCHANGED used
    /\ Next
    /\ Untouched' /\ Priorities'
    /\ s1 \notin used => UNCHANGED base_priority

MCSpec == MCInit /\ [][MCNext]_<<vars, used>>
===============================================================================
