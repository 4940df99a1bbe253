----------------------------- MODULE MCTerminal -----------------------------
(***************************************************************************)
(* Two threads that read the console and two that print, with queues of    *)
(* two bytes.                                                              *)
(***************************************************************************)
EXTENDS Terminal

CONSTANTS r1, r2, w1, w2

Readers == {r1, r2}
Writers == {w1, w2}
=============================================================================
