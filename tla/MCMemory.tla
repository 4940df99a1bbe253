------------------------------ MODULE MCMemory ------------------------------
(***************************************************************************)
(* Two threads, a kernel pool of three pages and a user pool of two; pages *)
(* of 16 bytes with two sizes of small blocks, two or one to an arena.    *)
(***************************************************************************)
EXTENDS Memory

CONSTANTS t1, t2

TwoThreads == {t1, t2}
=============================================================================
