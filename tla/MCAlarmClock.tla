---------------------------- MODULE MCAlarmClock ------------------------------
(***************************************************************************)
(* The instance of AlarmClock and Mlfqs for TLC: thread_mlfqs is chosen in *)
(* the initial state, so that the two schedulers are explored side by      *)
(* side.  The feedback queue has coarser numbers, shorter seconds and      *)
(* fewer threads than the kernel, and no bound on the time that passes:    *)
(* the decay of recent_cpu and load_avg keeps it finite.                   *)
(***************************************************************************)
EXTENDS Mlfqs

\* Threads make way for others, or push ahead of them.
MCNice == {-1, 1}
===============================================================================
