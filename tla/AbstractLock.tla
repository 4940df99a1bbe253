----------------------------- MODULE AbstractLock -----------------------------
(***************************************************************************)
(* What the locks of synch.c promise their callers: a lock has at most one *)
(* owner; a thread waits only for a lock that somebody owns, and for one   *)
(* at a time; a lock is taken only when it is free, by a thread that waits *)
(* for it or that just asks; only its owner gives it up, and not while it  *)
(* waits.  It is not promised that the thread that waited longest is next: *)
(* a thread may take the lock between its release and the moment the woken *)
(* waiter runs.                                                            *)
(***************************************************************************)
CONSTANTS Thread, Lock, NULL

VARIABLES
    owner,      \* owner[l]: the thread that owns l, or NULL
    waiting     \* waiting[t]: the lock t waits for, or NULL

Init ==
    /\ owner = [l \in Lock |-> NULL]
    /\ waiting = [t \in Thread |-> NULL]

Wait(t, l) ==
    /\ waiting[t] = NULL
    /\ owner[l] \notin {NULL, t}
    /\ waiting' = [waiting EXCEPT ![t] = l]
    /\ UNCHANGED owner

Take(t, l) ==
    /\ waiting[t] \in {NULL, l}
    /\ owner[l] = NULL
    /\ owner' = [owner EXCEPT ![l] = t]
    /\ waiting' = [waiting EXCEPT ![t] = NULL]

Release(t, l) ==
    /\ waiting[t] = NULL
    /\ owner[l] = t
    /\ owner' = [owner EXCEPT ![l] = NULL]
    /\ UNCHANGED waiting

Next == \E t \in Thread, l \in Lock : Wait(t, l) \/ Take(t, l) \/ Release(t, l)

Spec == Init /\ [][Next]_<<owner, waiting>>
===============================================================================
