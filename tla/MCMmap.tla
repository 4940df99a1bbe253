------------------------------- MODULE MCMmap -------------------------------
(***************************************************************************)
(* Mapped files with one name on a small device: a page is two sectors and *)
(* a file of five bytes fills one page and a part of another, which is     *)
(* written back through a bounce buffer.  One process maps; a second one   *)
(* opens, writes and runs the same file.                                   *)
(***************************************************************************)
EXTENDS Mmap

CONSTANTS p1, p2, a

TwoProcesses == {p1, p2}
OneMapper    == {p1}
OneName      == {a}
NoBadName    == {}
OneValue     == {1}
Lengths      == {5}
Transfers    == {3}
NoOffset     == {}
=============================================================================
