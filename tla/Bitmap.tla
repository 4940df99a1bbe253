-------------------------------- MODULE Bitmap --------------------------------
(***************************************************************************)
(* Bitmaps, lib/kernel/bitmap.c, as the words that hold the bits.  The     *)
(* allocators of pages, sectors and swap slots (Memory, FileSys, VM) use   *)
(* them as sets; here any sequence of calls is checked against the set.    *)
(***************************************************************************)
EXTENDS Integers, Sequences, SequencesExt, FiniteSets, Bitwise

CONSTANTS
  ELEM_BITS,    \* bits of a word
  BitmapSizes,  \* sizes of bitmaps
  BITMAP_ERROR

VARIABLES
  bit_cnt,      \* bits of the bitmap
  bits,         \* the words
  members       \* the set of the bits that should be on

bitmapVars == <<bit_cnt, bits, members>>

elem_type == 0 .. 2 ^ ELEM_BITS - 1
Bit == 0 .. bit_cnt - 1

elem_idx(bit_idx) == bit_idx \div ELEM_BITS
bit_mask(bit_idx) == 2 ^ (bit_idx % ELEM_BITS)
elem_cnt == (bit_cnt + ELEM_BITS - 1) \div ELEM_BITS
last_mask == IF bit_cnt % ELEM_BITS = 0 THEN 2 ^ ELEM_BITS - 1
             ELSE 2 ^ (bit_cnt % ELEM_BITS) - 1

bitmap_mark(b, i) == [b EXCEPT ![elem_idx(i)] = @ | bit_mask(i)]
bitmap_reset(b, i) == [b EXCEPT ![elem_idx(i)] = @ & (2 ^ ELEM_BITS - 1 - bit_mask(i))]
bitmap_flip(b, i) == [b EXCEPT ![elem_idx(i)] = @ ^^ bit_mask(i)]
bitmap_test(b, i) == (b[elem_idx(i)] & bit_mask(i)) # 0

bitmap_set(b, i, value) == IF value THEN bitmap_mark(b, i) ELSE bitmap_reset(b, i)

Group(start, cnt) == [i \in 1 .. cnt |-> start + i - 1]
bitmap_set_multiple(b, start, cnt, value) ==
  FoldLeft(LAMBDA acc, i : bitmap_set(acc, i, value), b, Group(start, cnt))

bitmap_count(b, start, cnt, value) ==
  FoldLeft(LAMBDA n, i : IF bitmap_test(b, i) = value THEN n + 1 ELSE n, 0, Group(start, cnt))

bitmap_contains(b, start, cnt, value) ==
  \E i \in start .. start + cnt - 1 : bitmap_test(b, i) = value

LastGroup(cnt) == bit_cnt - cnt

bitmap_scan(b, start, cnt, value) ==
  LET found == {i \in start .. LastGroup(cnt) : ~bitmap_contains(b, i, cnt, ~value)}
  IN IF cnt > bit_cnt \/ found = {} THEN BITMAP_ERROR
     ELSE CHOOSE i \in found : \A j \in found : i <= j

\* What bitmap_read () makes of the words of a file.
bitmap_read(words) == [words EXCEPT ![elem_cnt - 1] = @ & last_mask]

-------------------------------------------------------------------------------
BitmapInit ==
  /\ bit_cnt \in BitmapSizes
  /\ bits = [i \in 0 .. elem_cnt - 1 |-> 0]
  /\ members = {}

Single ==
  \E i \in Bit :
    \/ bits' = bitmap_mark(bits, i) /\ members' = members \cup {i}
    \/ bits' = bitmap_reset(bits, i) /\ members' = members \ {i}
    \/ /\ bits' = bitmap_flip(bits, i)
       /\ members' = (members \cup {i}) \ (members \cap {i})

Several(start, cnt, value) ==
  /\ bits' = bitmap_set_multiple(bits, start, cnt, value)
  /\ members' = IF value THEN members \cup (start .. start + cnt - 1)
                ELSE members \ (start .. start + cnt - 1)

bitmap_scan_and_flip(start, cnt, value) ==
  LET i == bitmap_scan(bits, start, cnt, value)
  IN i # BITMAP_ERROR /\ Several(i, cnt, ~value)

ReadBack(words) ==
  /\ bits' = bitmap_read(words)
  /\ members' = {i \in Bit : bitmap_test(words, i)}

BitmapNext ==
  /\ UNCHANGED bit_cnt
  /\ \/ Single
     \/ \E start \in Bit, cnt \in 0 .. bit_cnt, value \in BOOLEAN :
          \/ start + cnt <= bit_cnt /\ Several(start, cnt, value)
          \/ bitmap_scan_and_flip(start, cnt, value)
     \/ \E words \in [0 .. elem_cnt - 1 -> elem_type] : ReadBack(words)

-------------------------------------------------------------------------------
(***************************************************************************)
(* A bitmap is the set of the bits that are on, whatever the calls and     *)
(* whatever the file it was read from holds behind its last bit: the       *)
(* counts are those of the set, and bitmap_scan () finds the first group   *)
(* at or after start, up to the very last bit, or none when there is none. *)
(***************************************************************************)
BitmapIsSet ==
  LET Free(i, cnt, value) == \A j \in i .. i + cnt - 1 : j \in Bit /\ (j \in members <=> value)
  IN /\ \A i \in 0 .. elem_cnt * ELEM_BITS - 1 : bitmap_test(bits, i) <=> i \in members
     /\ \A start \in Bit, cnt \in 1 .. bit_cnt + 1, value \in BOOLEAN :
          /\ LET i == bitmap_scan(bits, start, cnt, value)
                 groups == {j \in start .. bit_cnt : Free(j, cnt, value)}
             IN IF groups = {} THEN i = BITMAP_ERROR
                ELSE i \in groups /\ \A j \in groups : i <= j
          /\ start + cnt <= bit_cnt =>
               bitmap_count(bits, start, cnt, value)
                 = Cardinality({j \in start .. start + cnt - 1 : j \in members <=> value})
===============================================================================
