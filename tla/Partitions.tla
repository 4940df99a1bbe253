------------------------------ MODULE Partitions ------------------------------
(***************************************************************************)
(* Finding the partitions of a disk, devices/partition.c.  A table is a    *)
(* sequence of entries [type, offset, size], an empty one if its signature *)
(* is wrong; sector numbers wrap around at SECTORS.  Whatever sector it is *)
(* asked for, read_partition_table () reads the table in sector 0, as the  *)
(* code does.                                                              *)
(***************************************************************************)
EXTENDS Integers, Sequences, SequencesExt

CONSTANTS
  SECTORS,      \* 2 ^ 32: one more than the greatest block_sector_t
  Endless       \* recursion that does not end

Plus(a, b) == (a + b) % SECTORS

\* Mutant: a size that wraps around is not noticed.
PastEnd_wrapped(start, size, disk) == start >= disk \/ Plus(start, size) > disk

PastEnd(start, size, disk) ==
  start >= disk \/ Plus(start, size) < start \/ Plus(start, size) > disk

\* What is known so far: the number of partitions, and those registered.
Found(sofar, start, size, disk) ==
  [nr |-> sofar.nr + 1,
   registered |-> IF PastEnd(start, size, disk) THEN sofar.registered
                  ELSE sofar.registered \cup {[nr |-> sofar.nr + 1, start |-> start, size |-> size]}]

\* above: the sectors of the calls that led to this one.
RECURSIVE read_partition_table(_, _, _, _, _, _)
read_partition_table(table, disk, sector, primary_extended_sector, sofar, above) ==
  LET Extended(e, acc) ==
        LET inner == IF sector = 0 THEN e.offset ELSE Plus(e.offset, primary_extended_sector)
            primary == IF sector = 0 THEN e.offset ELSE primary_extended_sector
        IN read_partition_table(table, disk, inner, primary, acc,
                                above \cup {<<sector, primary_extended_sector>>})
      Entry(acc, e) ==
        IF acc = Endless \/ e.size = 0 \/ e.type = "empty" THEN acc
        ELSE IF e.type = "extended" THEN Extended(e, acc)
        ELSE Found(acc, Plus(e.offset, sector), e.size, disk)
  IN IF sector >= disk THEN sofar
     ELSE IF <<sector, primary_extended_sector>> \in above THEN Endless
     ELSE FoldLeft(Entry, sofar, table)

partition_scan(table, disk) ==
  read_partition_table(table, disk, 0, 0, [nr |-> 0, registered |-> {}], {})
===============================================================================
