----------------------------- MODULE Arithmetic -----------------------------
(***************************************************************************)
(* Numeric code: 64-bit division from 32-bit instructions                  *)
(* (lib/arithmetic.c), heap sort, binary search and atoi () (lib/stdlib.c).*)
(* WORD is the number of bits of the words a division is made of, INT_BITS *)
(* that of an int: both are 32 in the code.                                *)
(*                                                                         *)
(* In text that stands for a number, digits stand for themselves and the   *)
(* other characters are negative.                                          *)
(***************************************************************************)
EXTENDS Integers, Sequences, SequencesExt

CONSTANTS WORD, INT_BITS, Trap    \* Trap: the processor's divide error

BLANK == -1
COMMA == -2
DASH == -3
CROSS == -4

Base == 2 ^ WORD            \* a word's values are 0 .. Base - 1
Word == 0 .. Base - 1
Wide(n) == n % (Base * Base)    \* the value in two words

\* The value of an n-bit pattern as a signed integer.
Signed(x, bits) == LET u == x % 2 ^ bits
                   IN IF u >= 2 ^ (bits - 1) THEN u - 2 ^ bits ELSE u

\* C's division of signed integers truncates towards zero.
Quotient(x, y) ==
  LET q == (IF x < 0 THEN -x ELSE x) \div (IF y < 0 THEN -y ELSE y)
  IN IF (x < 0) = (y < 0) THEN q ELSE -q

-----------------------------------------------------------------------------
(* arithmetic.c *)

\* The DIVL instruction.
divl(n, d) == IF d = 0 \/ n \div d >= Base THEN Trap ELSE n \div d

\* nlz (): tests the upper 16 bits, then 8, 4, 2 and 1, whatever is half of
\* the word at first.
RECURSIVE NlzBy(_, _)
NlzBy(x, k) ==
  IF k = 0 THEN 0
  ELSE IF x < 2 ^ (WORD - k) THEN k + NlzBy((x * 2 ^ k) % Base, k \div 2)
  ELSE NlzBy(x, k \div 2)

nlz(x) == NlzBy(x, WORD \div 2)

\* Mutant: the estimate of the quotient is taken as it is.
Corrected_not(n, d, q) == q

\* The estimate is the quotient or one more.
Corrected(n, d, q) == IF Wide(n - (q - 1) * d) < d THEN q - 1 ELSE q

udiv64(n, d) ==
  IF d < Base
  THEN LET low == divl(Base * ((n \div Base) % d) + (n % Base), d)
       IN IF low = Trap THEN Trap ELSE low + Base * ((n \div Base) \div d)
  ELSE IF n < d THEN 0
  ELSE LET s == nlz(d \div Base)
           q == divl(n \div 2, Wide(d * 2 ^ s) \div Base)
       IN IF q = Trap THEN Trap ELSE Corrected(n, d, q \div 2 ^ (WORD - 1 - s))

\* Both remainders are returned in one word.
umod64(n, d) == Wide(n - d * udiv64(n, d)) % Base

sdiv64(n, d) ==
  LET q == udiv64(IF n >= 0 THEN n ELSE Wide(-n), IF d >= 0 THEN d ELSE Wide(-d))
  IN IF q = Trap THEN Trap
     ELSE Signed(IF (n < 0) = (d < 0) THEN q ELSE -q, 2 * WORD)

smod64(n, d) == Signed(n - d * sdiv64(n, d), WORD)

-----------------------------------------------------------------------------
(* stdlib.c *)

do_swap(a, i, j) == [a EXCEPT ![i] = a[j], ![j] = a[i]]

\* The index of the largest among i and its children.
MaxOf(a, i, cnt) ==
  LET m == IF 2 * i <= cnt /\ a[2 * i] > a[i] THEN 2 * i ELSE i
  IN IF 2 * i + 1 <= cnt /\ a[2 * i + 1] > a[m] THEN 2 * i + 1 ELSE m

RECURSIVE heapify(_, _, _)
heapify(a, i, cnt) ==
  LET m == MaxOf(a, i, cnt)
  IN IF m = i THEN a ELSE heapify(do_swap(a, i, m), m, cnt)

RECURSIVE BuildHeap(_, _)
BuildHeap(a, i) == IF i = 0 THEN a ELSE BuildHeap(heapify(a, i, Len(a)), i - 1)

RECURSIVE SortHeap(_, _)
SortHeap(a, i) == IF i <= 1 THEN a ELSE SortHeap(heapify(do_swap(a, 1, i), 1, i - 1), i - 1)

sort(a) == SortHeap(BuildHeap(a, Len(a) \div 2), Len(a))

\* In a[first + 1 .. last]; 0 is the null pointer.
RECURSIVE SearchIn(_, _, _, _)
SearchIn(a, key, first, last) ==
  IF first >= last THEN 0 ELSE
  LET middle == first + (last - first) \div 2 + 1
  IN IF key < a[middle] THEN SearchIn(a, key, first, middle - 1)
     ELSE IF key > a[middle] THEN SearchIn(a, key, middle, last)
     ELSE middle

binary_search(a, key) == SearchIn(a, key, 0, Len(a))

\* C leaves signed overflow undefined.
Int_min == -(2 ^ (INT_BITS - 1))
Int_max == 2 ^ (INT_BITS - 1) - 1
Checked(x) == IF x \in Int_min .. Int_max THEN x ELSE Trap

Accumulated(value, digit) == IF value = Trap THEN Trap ELSE Checked(value * 10 - digit)

\* What is left of text s without the characters of C it starts with, and
\* those characters.
RECURSIVE Without(_, _)
Without(s, C) == IF s # <<>> /\ Head(s) \in C THEN Without(Tail(s), C) ELSE s
Leading(s, C) == SubSeq(s, 1, Len(s) - Len(Without(s, C)))

\* Blanks, a sign, and digits up to the first other character.  The value is
\* parsed as a negative one.
atoi(s) ==
  LET text == Without(s, {BLANK})
      signed == text # <<>> /\ Head(text) \in {CROSS, DASH}
      negative == signed /\ Head(text) = DASH
      value == FoldLeft(Accumulated, 0, Leading(IF signed THEN Tail(text) ELSE text, 0 .. 9))
  IN IF negative \/ value = Trap THEN value ELSE Checked(-value)
=============================================================================
