------------------------------ MODULE MCLibrary ------------------------------
(***************************************************************************)
(* An instance of Library for TLC.                                         *)
(***************************************************************************)
EXTENDS Library

FourElements == {<<"elem", x>> : x \in {"a", "b", "c", "d"}}

\* Two elements with equal keys, one smaller and one larger.
OneKeyTwice == {[e \in FourElements |-> CASE e[2] = "a" -> 1 [] e[2] = "b" -> 0
                                          [] e[2] = "c" -> 1 [] OTHER -> 2]}

\* The last two elements of the hash table are equal.
FourKeys == <<1, 2, 3, 4, 4>>

\* Segments that share pages or not, of all types.
SmallSegments ==
  {[type |-> type, offset |-> vaddr % 4, vaddr |-> vaddr, filesz |-> filesz,
    memsz |-> memsz, writable |-> vaddr < 8] :
      type \in {"load"}, vaddr \in {4, 7, 8, 13}, filesz \in {0, 1, 5}, memsz \in {2, 5}}
  \cup {[type |-> type, offset |-> 0, vaddr |-> 4, filesz |-> 1, memsz |-> 1,
         writable |-> FALSE] : type \in {"ignore", "refuse"}}

\* Entries of partition tables, of small disks.
SmallEntries ==
  [type : {"empty", "primary", "extended"}, offset : {0, 1, 2, 5, 7}, size : {0, 1, 3, 7}]

\* Integers whose digits fill the groups and sizeof_buf or not, and which the
\* narrow types cut off; fields and precisions around their lengths.
SmallIntegers == {-1234567, -40000, -128, -1, 0, 1, 8, 255, 1000, 65536, 1234567}
SmallFields == {-9, 0, 3, 9}
SmallPrecisions == {-1, 0, 5, 20}
=============================================================================
