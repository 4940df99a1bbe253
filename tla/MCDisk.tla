------------------------------- MODULE MCDisk -------------------------------
(***************************************************************************)
(* Two threads on a file system and a swap partition of one disk, next to  *)
(* a disk that is too large to be used.                                    *)
(***************************************************************************)
EXTENDS Disk

CONSTANTS t1, t2, hda, hdb, filesys, swap

TwoThreads  == {t1, t2}
TwoDisks    == {hda, hdb}
TooLarge    == {hdb}
Partitions  == {filesys, swap}
OnHda       == [b \in Partitions |-> hda]
Starts      == [b \in Partitions |-> IF b = filesys THEN 1 ELSE 2]
Sizes       == [b \in Partitions |-> 1]
TwoValues   == {0, 1}
=============================================================================
