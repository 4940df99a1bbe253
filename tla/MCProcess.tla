------------------------------ MODULE MCProcess -------------------------------
(***************************************************************************)
(* An instance of Process for TLC: run_task () and two processes, which    *)
(* may be two children of one parent in turn, or child and grandchild.     *)
(***************************************************************************)
EXTENDS Process

CONSTANTS boot, p1, p2

Processes3 == {boot, p1, p2}
===============================================================================
