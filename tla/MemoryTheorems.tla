--------------------------- MODULE MemoryTheorems ----------------------------
(***************************************************************************)
(* Kernel memory is handed out once, nothing of it leaks, and the page     *)
(* allocator fails only when its pool is full, for any number of threads,  *)
(* pages and block sizes.                                                  *)
(*                                                                         *)
(* The argument is about a layout: the blocks that are held, by callers or *)
(* by calls on the way (H), the arenas (A), the free lists (L), the pages  *)
(* that are marked used (U) and the pages each thread has just got or is   *)
(* giving back (M).  Each step of palloc.c and malloc.c is one of a few    *)
(* changes to the layout, and each of these keeps it in order.             *)
(***************************************************************************)
EXTENDS Memory, FiniteSetTheorems, TLAPS

\* Zenon proves the leaves that name no prover.
USE Zenon

Block == [kind : {"pages", "block"}, addr : Nat, size : Nat \ {0}]
Arena == [desc : Desc \cup {NULL}, free_cnt : Nat]
Ram == 0 .. RamPages - 1

\* The pages that are arenas of small blocks.
SmallPages(A) == {page \in Ram : A[page] # NULL /\ A[page].desc # NULL}

\* b is a block of such an arena.
Sits(b, A) == b.kind = "block" /\ pg_no(b.addr) \in SmallPages(A)

\* The pages that b has a byte in.
Span(b) == pg_no(b.addr) .. pg_no(b.addr + b.size - 1)

\* What is on a list, and that it is there once.
Items(s) == {s[i] : i \in 1 .. Len(s)}
Once(s) == \A i, j \in 1 .. Len(s) : s[i] = s[j] => i = j

\* The arenas when one of them has n free blocks.
Recount(A, page, n) == [A EXCEPT ![page].free_cnt = n]

(***************************************************************************)
(* A held block is a run of whole pages, a block of a small arena, or one  *)
(* behind the header of a run of pages that is as long as it needs.        *)
(***************************************************************************)
WholePages(b) ==
  /\ b.kind = "pages"
  /\ b.addr = PGSIZE * pg_no(b.addr) /\ b.size = PGSIZE * (b.size \div PGSIZE)

Small(b, A) ==
  /\ Sits(b, A)
  /\ LET page == pg_no(b.addr)
         d == A[page].desc
     IN b.addr \in Blocks(page, d) /\ b.size <= d

Big(b, A) ==
  /\ b.kind = "block"
  /\ LET page == pg_no(b.addr)
     IN /\ page \in Ram
        /\ A[page] = [desc |-> NULL, free_cnt |-> DIV_ROUND_UP(b.size + HEADER, PGSIZE)]
        /\ b.addr = PGSIZE * page + HEADER

(***************************************************************************)
(* Who has a page.  Pages in use are arenas of small blocks, or belong to  *)
(* one held block, or to one thread.                                       *)
(***************************************************************************)
PagesOwned(H, A, U, M) ==
  /\ H \subseteq Block /\ U \subseteq Ram
  /\ A \in [Ram -> Arena \cup {NULL}]
  /\ M \in [Thread -> SUBSET Ram]
  /\ \A b \in H : WholePages(b) \/ Small(b, A) \/ Big(b, A)
  /\ SmallPages(A) \subseteq U
  /\ \A b \in H : Span(b) \subseteq U
  /\ \A t \in Thread : M[t] \subseteq U
  /\ \A t, u \in Thread : t # u => M[t] \cap M[u] = {}
  /\ \A t \in Thread : M[t] \cap SmallPages(A) = {}
  /\ \A t \in Thread, b \in H : M[t] \cap Span(b) = {}
  /\ \A b \in H : ~Sits(b, A) => Span(b) \cap SmallPages(A) = {}
  /\ \A b, c \in H : b # c /\ ~Sits(b, A) /\ ~Sits(c, A) => Span(b) \cap Span(c) = {}
  /\ \A page \in U : \/ page \in SmallPages(A)
                     \/ \E b \in H : page \in Span(b)
                     \/ \E t \in Thread : page \in M[t]

(***************************************************************************)
(* Who has a block of a small arena: it is on the free list once, or it is *)
(* held once.  free_cnt counts the former, and not all of an arena is      *)
(* free.                                                                   *)
(***************************************************************************)
BlocksOwned(H, A, L) ==
  /\ L \in [Desc -> Seq(Nat)]
  /\ \A d \in Desc : Once(L[d])
  /\ \A d \in Desc : \A x \in Items(L[d]) :
       /\ pg_no(x) \in SmallPages(A)
       /\ A[pg_no(x)].desc = d
       /\ x \in Blocks(pg_no(x), d)
       /\ \A b \in H : b.addr # x
  /\ \A b, c \in H : b # c /\ Sits(b, A) /\ Sits(c, A) => b.addr # c.addr
  /\ \A page \in SmallPages(A) :
       LET d == A[page].desc IN
       /\ \A x \in Blocks(page, d) : x \in Items(L[d]) \/ \E b \in H : b.addr = x
       /\ Cardinality(Items(L[d]) \cap Blocks(page, d)) = A[page].free_cnt
       /\ A[page].free_cnt < blocks_per_arena(d)

Layout(H, A, L, U, M) == PagesOwned(H, A, U, M) /\ BlocksOwned(H, A, L)

-----------------------------------------------------------------------------
(* The layout of a state *)

Apart(l, f) ==
  /\ \A t \in Thread : l \cap f[t] = {}
  /\ \A t, u \in Thread : t # u => f[t] \cap f[u] = {}

Mine ==
  [t \in Thread |->
     IF pc[t] = "got" /\ call[t].pos # NULL
     THEN Bits(base(call[t].pool) + call[t].pos, call[t].cnt)
     ELSE IF pc[t] = "clear" THEN Bits(call[t].pos, call[t].cnt) ELSE {}]

-----------------------------------------------------------------------------
(* A thread's call, by its place in it *)

Place == {"idle", "desc", "pool", "scan", "got", "copy", "free", "clear"}
Calls ==
  [op : {"palloc", "malloc", "realloc", "free"}, size : Nat \ {0},
   desc : Desc \cup {NULL}, pool : Pool, cnt : Nat,
   pos : Nat \cup {NULL}, old : Block \cup {NULL}]

\* The arguments of palloc_get_multiple(), of a call of malloc() for one page,
\* and of one for a block that is too big.
Asked(c) ==
  /\ c.op \in {"palloc", "malloc", "realloc"}
  /\ c.op = "palloc" =>
       c.desc = NULL /\ c.old = NULL /\ c.size = PGSIZE * c.cnt
  /\ c.op # "palloc" =>
       /\ c.pool = "kernel"
       /\ c.cnt = IF c.desc = NULL THEN DIV_ROUND_UP(c.size + HEADER, PGSIZE) ELSE 1
       /\ c.desc # NULL => c.size <= c.desc
  /\ c.op = "malloc" => c.old = NULL
  /\ c.op = "realloc" => c.old # NULL /\ c.old.kind = "block"

Place_OK(t) ==
  /\ pc[t] \in {"desc", "pool", "scan", "got"} => Asked(call[t])
  /\ pc[t] \in {"desc", "pool", "scan", "got", "clear"} => call[t].cnt # 0
  /\ pc[t] \in {"desc", "pool"} => call[t].pos = 0
  /\ pc[t] = "desc" => call[t].desc # NULL
  /\ pc[t] = "scan" => call[t].pos # NULL
  /\ pc[t] = "got" /\ call[t].pos # NULL => call[t].pos \in Window(call[t].pool, call[t].cnt)
  /\ pc[t] = "copy" =>
       call[t].op = "realloc" /\ call[t].pos # NULL /\ call[t].old # NULL /\ New(t) # call[t].old
  /\ pc[t] = "free" =>
       /\ call[t].desc # NULL /\ call[t].old # NULL /\ call[t].old.kind = "block"
       /\ call[t].pos = call[t].old.addr
       /\ pg_no(call[t].pos) \in SmallPages(arena)
       /\ arena[pg_no(call[t].pos)].desc = call[t].desc
  /\ pc[t] = "clear" => call[t].pos # NULL

CallsOK ==
  /\ pc \in [Thread -> Place]
  /\ DOMAIN call = Thread /\ room \in [Thread -> BOOLEAN]
  /\ \A t \in Thread : pc[t] # "idle" => call[t] \in Calls
  /\ \A t \in Thread : Place_OK(t)

-----------------------------------------------------------------------------
(* Locks *)

LocksOK ==
  /\ used_map \in [Pool -> SUBSET Int]
  /\ pool_lock \in [Pool -> Thread \cup {NULL}]
  /\ desc_lock \in [Desc -> Thread \cup {NULL}]
  /\ TypeOK
  /\ \A t \in Thread :
       pc[t] \in {"pool", "scan", "got"} /\ call[t].desc # NULL => free_list[call[t].desc] = <<>>

\* A scan that began with room has a free window ahead of it: others only
\* clear bits of the pool.
Ahead(t) == \E i \in FreeWindow(call[t].pool, call[t].cnt) : call[t].pos <= i

RoomAhead ==
  /\ \A t \in Thread : pc[t] = "scan" /\ room[t] => Ahead(t)
  /\ FailsOnlyWhenFull

InOrder ==
  /\ Apart(live, Has)
  /\ Layout(Held, arena, free_list, UsedPages, Mine)

IInv == CallsOK /\ LocksOK /\ RoomAhead /\ InOrder

-----------------------------------------------------------------------------
(* Numbers *)

\* Every non-empty set of natural numbers has a least element.
LEMMA LeastNat ==
  ASSUME NEW T, T \subseteq Nat, T # {}
  PROVE  \E x \in T : \A y \in T : x <= y
<1> DEFINE R == {ss \in Nat \X Nat : ss[1] < ss[2]}
<1>1. IsWellFoundedOn(R, Nat)
  BY NatLessThanWellFounded DEF OpToRel
<1>2. PICK x \in T : \A y \in T : ~ (<<y, x>> \in R)
  BY ZenonT(40), <1>1, WFMin
<1>3. \A y \in T : ~ (y < x)
  BY ZenonT(40), <1>2
<1> QED
  BY SMT, <1>3

\* Multiplication by a natural number keeps the order.
LEMMA TimesMonotone ==
  ASSUME NEW k \in Nat, NEW x \in Int, NEW y \in Int, x <= y
  PROVE  k * x \in Int /\ k * y \in Int /\ k * x <= k * y
<1>1. y - x \in Nat
  BY SMT
<1>2. k * (y - x) >= 0 /\ k * (y - x) = k * y - k * x
  BY SMT, <1>1
<1> QED
  BY SMT, <1>2

\* The sizes of the descriptors are those of the loop in malloc_init().
LEMMA BlockSizes ==
  \A i \in 0 .. 9 : block_size[i] \in Nat \ {0}
<1> DEFINE M == MIN_BLOCK
           G(f) == f = [i \in 0 .. 9 |-> IF i = 0 THEN MIN_BLOCK ELSE 2 * f[i - 1]]
           w == [i \in 0 .. 9 |->
                   IF i = 0 THEN M ELSE IF i = 1 THEN 2 * M ELSE IF i = 2 THEN 4 * M
                   ELSE IF i = 3 THEN 8 * M ELSE IF i = 4 THEN 16 * M
                   ELSE IF i = 5 THEN 32 * M ELSE IF i = 6 THEN 64 * M
                   ELSE IF i = 7 THEN 128 * M ELSE IF i = 8 THEN 256 * M ELSE 512 * M]
<1>1. M \in Nat \ {0}
  BY MemoryAssumption
<1>2. \A i \in 0 .. 9 : w[i] = IF i = 0 THEN MIN_BLOCK ELSE 2 * w[i - 1]
  BY SMT, <1>1
<1>3. G(w)
  BY SMT, <1>2
<1>4. G(block_size)
  <2>1. block_size = CHOOSE f : G(f)
    BY DEF block_size
  <2>2. \E f : G(f)
    BY <1>3
  <2> QED
    BY <2>1, <2>2
<1>5. block_size[0] = M /\ \A i \in 1 .. 9 : block_size[i] = 2 * block_size[i - 1]
  BY SMT, <1>4
<1>6. /\ block_size[0] \in Nat \ {0} /\ block_size[1] \in Nat \ {0}
      /\ block_size[2] \in Nat \ {0} /\ block_size[3] \in Nat \ {0}
      /\ block_size[4] \in Nat \ {0}
  BY SMT, <1>5, <1>1
<1>7. /\ block_size[5] \in Nat \ {0} /\ block_size[6] \in Nat \ {0}
      /\ block_size[7] \in Nat \ {0} /\ block_size[8] \in Nat \ {0}
      /\ block_size[9] \in Nat \ {0}
  BY SMT, <1>5, <1>6
<1> QED
  BY SMT, <1>6, <1>7

\* Every arena has a block, and its blocks end where the page does.
LEMMA DescFits ==
  ASSUME NEW d \in Desc
  PROVE  /\ d \in Nat \ {0} /\ d # NULL
         /\ blocks_per_arena(d) \in Nat \ {0}
         /\ d * blocks_per_arena(d) <= PGSIZE - HEADER
<1>1. d \in Nat \ {0} /\ d # NULL
  BY SMT, BlockSizes, MemoryAssumption DEF Desc
<1>2. PGSIZE \in Nat /\ HEADER \in Nat /\ HEADER + d <= PGSIZE
  BY MemoryAssumption
<1> DEFINE x == PGSIZE - HEADER
           q == x \div d
<1>3. x \in Nat /\ d <= x
  BY SMT, <1>1, <1>2
<1> HIDE DEF x
<1>4. q \in Nat /\ d * q <= x /\ x < d * q + d
  BY SMT, <1>1, <1>3
<1>5. q # 0
  BY SMT, <1>1, <1>3, <1>4
<1> QED
  BY <1>1, <1>4, <1>5 DEF blocks_per_arena, x

\* The page of an address.
LEMMA PageOf ==
  ASSUME NEW a \in Nat
  PROVE  /\ pg_no(a) \in Nat
         /\ PGSIZE * pg_no(a) \in Nat
         /\ PGSIZE * pg_no(a) <= a /\ a < PGSIZE * pg_no(a) + PGSIZE
<1>1. PGSIZE \in Nat \ {0}
  BY SMT, MemoryAssumption
<1> QED
  BY SMT, <1>1 DEF pg_no

\* The page of an address that is given by page and offset.
LEMMA PageIs ==
  ASSUME NEW page \in Nat, NEW a \in Nat, PGSIZE * page <= a, a < PGSIZE * page + PGSIZE
  PROVE  pg_no(a) = page
<1>1. PGSIZE \in Nat
  BY MemoryAssumption
<1> DEFINE q == pg_no(a)
<1>2. q \in Nat /\ PGSIZE * q \in Nat /\ PGSIZE * q <= a /\ a < PGSIZE * q + PGSIZE
  BY PageOf
<1> HIDE DEF q
<1>3. ASSUME q < page PROVE FALSE
  <2>1. PGSIZE * (q + 1) <= PGSIZE * page
    BY SMT, <1>1, <1>2, <1>3, TimesMonotone
  <2>2. PGSIZE * (q + 1) = PGSIZE * q + PGSIZE
    BY SMT, <1>1, <1>2
  <2>3. PGSIZE * page \in Nat
    BY SMT, <1>1
  <2> QED
    BY SMT, <2>1, <2>2, <2>3, <1>1, <1>2
<1>4. ASSUME page < q PROVE FALSE
  <2>1. PGSIZE * (page + 1) <= PGSIZE * q
    BY SMT, <1>1, <1>2, <1>4, TimesMonotone
  <2>2. PGSIZE * (page + 1) = PGSIZE * page + PGSIZE
    BY SMT, <1>1
  <2>3. PGSIZE * page \in Nat
    BY SMT, <1>1
  <2> QED
    BY SMT, <2>1, <2>2, <2>3, <1>1, <1>2
<1>5. q = page
  BY SMT, <1>2, <1>3, <1>4
<1> QED
  BY <1>5 DEF q

\* A later address is on no earlier page.
LEMMA PageMonotone ==
  ASSUME NEW a \in Nat, NEW c \in Nat, a <= c
  PROVE  pg_no(a) <= pg_no(c)
<1> DEFINE p == pg_no(a)
           q == pg_no(c)
<1>1. PGSIZE \in Nat
  BY MemoryAssumption
<1>2. /\ p \in Nat /\ PGSIZE * p \in Nat /\ PGSIZE * p <= a /\ a < PGSIZE * p + PGSIZE
      /\ q \in Nat /\ PGSIZE * q \in Nat /\ PGSIZE * q <= c /\ c < PGSIZE * q + PGSIZE
  BY PageOf
<1> HIDE DEF p, q
<1>3. ASSUME q < p PROVE FALSE
  <2>1. PGSIZE * (q + 1) <= PGSIZE * p
    BY SMT, <1>1, <1>2, <1>3, TimesMonotone
  <2>2. PGSIZE * (q + 1) = PGSIZE * q + PGSIZE
    BY SMT, <1>1, <1>2
  <2> QED
    BY SMT, <2>1, <2>2, <1>1, <1>2
<1>4. p <= q
  BY SMT, <1>2, <1>3
<1> QED
  BY <1>4 DEF p, q

\* A block of a small arena lies in the arena's page, behind the header.
LEMMA BlockPlace ==
  ASSUME NEW page \in Nat, NEW d \in Desc, NEW x \in Blocks(page, d)
  PROVE  /\ x \in Nat
         /\ PGSIZE * page \in Nat
         /\ PGSIZE * page + HEADER <= x /\ x + d <= PGSIZE * page + PGSIZE
         /\ pg_no(x) = page
<1> DEFINE n == blocks_per_arena(d)
<1>1. d \in Nat \ {0} /\ n \in Nat \ {0} /\ d * n <= PGSIZE - HEADER
  BY DescFits
<1>2. PGSIZE \in Nat /\ HEADER \in Nat /\ PGSIZE * page \in Nat
  BY SMT, MemoryAssumption
<1>3. PICK i \in 0 .. n - 1 : x = PGSIZE * page + HEADER + i * d
  BY DEF Blocks, arena_to_block
<1> HIDE DEF n
<1>4. i \in Nat /\ i + 1 <= n /\ i * d \in Nat
  BY SMT, <1>1, <1>3
<1>5. d * (i + 1) <= d * n /\ d * (i + 1) = i * d + d
  <2>1. d * (i + 1) <= d * n
    BY SMT, <1>1, <1>4, TimesMonotone
  <2> QED
    BY SMT, <2>1, <1>1, <1>4
<1>6. d * n \in Int
  BY SMT, <1>1
<1>7. i * d + d <= PGSIZE - HEADER
  BY SMT, <1>1, <1>2, <1>4, <1>5, <1>6
<1>8. /\ x \in Nat
      /\ PGSIZE * page + HEADER <= x /\ x + d <= PGSIZE * page + PGSIZE
  BY SMT, <1>1, <1>2, <1>3, <1>4, <1>7
<1>9. PGSIZE * page <= x /\ x < PGSIZE * page + PGSIZE
  BY SMT, <1>1, <1>2, <1>8
<1> QED
  BY <1>2, <1>8, <1>9, PageIs

\* Two blocks of an arena do not overlap.
LEMMA BlocksApart ==
  ASSUME NEW page \in Nat, NEW d \in Desc, NEW x \in Blocks(page, d),
         NEW y \in Blocks(page, d), x # y
  PROVE  x + d <= y \/ y + d <= x
<1> DEFINE n == blocks_per_arena(d)
           z == PGSIZE * page + HEADER
<1>1. d \in Nat /\ n \in Nat
  BY DescFits
<1>2. z \in Nat
  BY SMT, MemoryAssumption
<1>3. PICK i \in 0 .. n - 1 : x = z + i * d
  BY DEF Blocks, arena_to_block
<1>4. PICK j \in 0 .. n - 1 : y = z + j * d
  BY DEF Blocks, arena_to_block
<1> HIDE DEF n, z
<1>5. i \in Nat /\ j \in Nat /\ i * d = d * i /\ j * d = d * j /\ d * i \in Nat /\ d * j \in Nat
  BY SMT, <1>1, <1>3, <1>4
<1>6. CASE i < j
  <2>1. d * (i + 1) <= d * j
    BY SMT, <1>1, <1>5, <1>6, TimesMonotone
  <2>2. d * (i + 1) = d * i + d
    BY SMT, <1>1, <1>5
  <2> QED
    BY SMT, <2>1, <2>2, <1>1, <1>2, <1>3, <1>4, <1>5
<1>7. CASE j < i
  <2>1. d * (j + 1) <= d * i
    BY SMT, <1>1, <1>5, <1>7, TimesMonotone
  <2>2. d * (j + 1) = d * j + d
    BY SMT, <1>1, <1>5
  <2> QED
    BY SMT, <2>1, <2>2, <1>1, <1>2, <1>3, <1>4, <1>5
<1>8. CASE i = j
  BY <1>3, <1>4, <1>8
<1> QED
  BY SMT, <1>5, <1>6, <1>7, <1>8

\* Blocks with different numbers are different.
LEMMA BlockIndex ==
  ASSUME NEW page \in Nat, NEW d \in Desc, NEW i \in Nat, NEW j \in Nat,
         arena_to_block(page, d, i) = arena_to_block(page, d, j)
  PROVE  i = j
<1> DEFINE z == PGSIZE * page + HEADER
<1>1. d \in Nat \ {0}
  BY DescFits
<1>2. z \in Nat
  BY SMT, MemoryAssumption
<1>3. z + i * d = z + j * d
  BY DEF arena_to_block
<1>4. i * d = d * i /\ j * d = d * j /\ d * i \in Nat /\ d * j \in Nat
  BY SMT, <1>1
<1> HIDE DEF z
<1>5. d * i = d * j
  BY SMT, <1>2, <1>3, <1>4
<1>6. ASSUME i < j PROVE FALSE
  <2>1. d * (i + 1) <= d * j
    BY SMT, <1>1, <1>6, TimesMonotone
  <2>2. d * (i + 1) = d * i + d
    BY SMT, <1>1
  <2> QED
    BY SMT, <2>1, <2>2, <1>1, <1>4, <1>5
<1>7. ASSUME j < i PROVE FALSE
  <2>1. d * (j + 1) <= d * i
    BY SMT, <1>1, <1>7, TimesMonotone
  <2>2. d * (j + 1) = d * j + d
    BY SMT, <1>1
  <2> QED
    BY SMT, <2>1, <2>2, <1>1, <1>4, <1>5
<1> QED
  BY SMT, <1>6, <1>7

\* An arena has as many blocks as blocks_per_arena says.
LEMMA BlocksCount ==
  ASSUME NEW page \in Nat, NEW d \in Desc
  PROVE  /\ IsFiniteSet(Blocks(page, d))
         /\ Cardinality(Blocks(page, d)) = blocks_per_arena(d)
<1> DEFINE n == blocks_per_arena(d)
           S == 0 .. n - 1
           f == [i \in S |-> arena_to_block(page, d, i)]
<1>1. n \in Nat
  BY DescFits
<1>2. IsFiniteSet(S) /\ Cardinality(S) = n
  <2>1. 0 \in Int /\ n - 1 \in Int
    BY SMT, <1>1
  <2>2. IsFiniteSet(S) /\ Cardinality(S) = IF 0 > n - 1 THEN 0 ELSE n - 1 - 0 + 1
    BY <2>1, FS_Interval
  <2> HIDE DEF n
  <2> QED
    BY SMT, <2>2, <1>1
<1>3. f \in Bijection(S, Blocks(page, d))
  <2>1. f \in [S -> Blocks(page, d)] /\ \A y \in Blocks(page, d) : \E i \in S : f[i] = y
    BY DEF Blocks
  <2>2. ASSUME NEW i \in S, NEW j \in S, f[i] = f[j] PROVE i = j
    <3>1. arena_to_block(page, d, i) = arena_to_block(page, d, j)
      BY <2>2
    <3>2. i \in Nat /\ j \in Nat
      BY SMT, <1>1
    <3> QED
      BY <3>1, <3>2, BlockIndex
  <2> HIDE DEF f, S
  <2> QED
    BY <2>1, <2>2 DEF Bijection, Injection, Surjection, IsInjective
<1> QED
  BY ZenonT(40), <1>2, <1>3, FS_Bijection DEF ExistsBijection

\* The pages of a block's bytes.
LEMMA SpanBytes ==
  ASSUME NEW b \in Block
  PROVE  /\ {pg_no(a) : a \in Bytes(b)} = Span(b)
         /\ pg_no(b.addr) \in Span(b)
         /\ pg_no(b.addr) \in Nat /\ pg_no(b.addr + b.size - 1) \in Nat
<1> DEFINE lo == b.addr
           hi == b.addr + b.size - 1
<1>1. lo \in Nat /\ hi \in Nat /\ lo <= hi /\ Bytes(b) = lo .. hi
  BY SMT DEF Block, Bytes
<1>2. Span(b) = pg_no(lo) .. pg_no(hi)
  BY DEF Span
<1> HIDE DEF lo, hi
<1>3. pg_no(lo) \in Nat /\ pg_no(hi) \in Nat /\ pg_no(lo) <= pg_no(hi)
  BY <1>1, PageOf, PageMonotone
<1>4. ASSUME NEW a \in lo .. hi PROVE pg_no(a) \in pg_no(lo) .. pg_no(hi)
  <2>1. a \in Nat /\ lo <= a /\ a <= hi
    BY SMT, <1>1
  <2>2. pg_no(a) \in Nat /\ pg_no(lo) <= pg_no(a) /\ pg_no(a) <= pg_no(hi)
    BY ZenonT(40), <2>1, <1>1, PageOf, PageMonotone
  <2> QED
    BY SMT, <2>2, <1>3
<1>5. ASSUME NEW q \in pg_no(lo) .. pg_no(hi) PROVE \E a \in lo .. hi : pg_no(a) = q
  <2>1. q \in Nat /\ PGSIZE \in Nat \ {0} /\ PGSIZE * q \in Nat
    BY SMT, <1>3, MemoryAssumption
  <2>2. CASE q = pg_no(lo)
    BY SMT, <2>2, <1>1
  <2>3. CASE q # pg_no(lo)
    <3> DEFINE a == PGSIZE * q
    <3>1. pg_no(lo) + 1 <= q /\ q <= pg_no(hi)
      BY SMT, <2>3, <1>3
    <3>2. PGSIZE * (pg_no(lo) + 1) <= PGSIZE * q /\ PGSIZE * q <= PGSIZE * pg_no(hi)
      BY SMT, <3>1, <2>1, <1>3, TimesMonotone
    <3>3. PGSIZE * (pg_no(lo) + 1) = PGSIZE * pg_no(lo) + PGSIZE
      BY SMT, <2>1, <1>3
    <3>4. /\ PGSIZE * pg_no(lo) \in Nat /\ lo < PGSIZE * pg_no(lo) + PGSIZE
          /\ PGSIZE * pg_no(hi) \in Nat /\ PGSIZE * pg_no(hi) <= hi
      BY <1>1, PageOf
    <3>5. a \in lo .. hi
      BY SMT, <3>2, <3>3, <3>4, <2>1, <1>1
    <3>6. pg_no(a) = q
      BY SMT, <2>1, PageIs
    <3> QED
      BY <3>5, <3>6
  <2> QED
    BY <2>2, <2>3
<1>6. {pg_no(a) : a \in lo .. hi} = pg_no(lo) .. pg_no(hi)
  BY <1>4, <1>5
<1>7. pg_no(lo) \in pg_no(lo) .. pg_no(hi)
  BY SMT, <1>3
<1> QED
  BY <1>1, <1>2, <1>3, <1>6, <1>7 DEF lo, hi

\* Blocks that share a byte share a page.
LEMMA SpansApart ==
  ASSUME NEW b \in Block, NEW c \in Block, Span(b) \cap Span(c) = {}
  PROVE  Bytes(b) \cap Bytes(c) = {}
<1>1. {pg_no(a) : a \in Bytes(b)} = Span(b) /\ {pg_no(a) : a \in Bytes(c)} = Span(c)
  BY SpanBytes
<1> QED
  BY SMT, <1>1

\* The number of pages that DIV_ROUND_UP gives: the last one is needed.
LEMMA RoundUp ==
  ASSUME NEW x \in Nat \ {0}
  PROVE  /\ DIV_ROUND_UP(x, PGSIZE) \in Nat \ {0}
         /\ PGSIZE * (DIV_ROUND_UP(x, PGSIZE) - 1) \in Nat
         /\ PGSIZE * (DIV_ROUND_UP(x, PGSIZE) - 1) < x
         /\ x <= PGSIZE * (DIV_ROUND_UP(x, PGSIZE) - 1) + PGSIZE
<1> DEFINE n == DIV_ROUND_UP(x, PGSIZE)
           y == x + PGSIZE - 1
<1>1. PGSIZE \in Nat \ {0} /\ y \in Nat /\ PGSIZE <= y
  BY SMT, MemoryAssumption
<1>2. n = y \div PGSIZE
  BY DEF DIV_ROUND_UP
<1> HIDE DEF n
<1>3. n \in Nat /\ PGSIZE * n <= y /\ y < PGSIZE * n + PGSIZE /\ PGSIZE * n \in Nat
  <2> HIDE DEF y
  <2> QED
    BY SMT, <1>1, <1>2
<1>4. n # 0
  BY SMT, <1>1, <1>3
<1>5. PGSIZE * (n - 1) = PGSIZE * n - PGSIZE
  BY SMT, <1>1, <1>3
<1>6. n - 1 \in Nat /\ PGSIZE * (n - 1) \in Nat
  BY SMT, <1>1, <1>3, <1>4
<1>7. PGSIZE * (n - 1) < x /\ x <= PGSIZE * (n - 1) + PGSIZE
  BY SMT, <1>1, <1>3, <1>5
<1> QED
  BY <1>3, <1>4, <1>6, <1>7 DEF n

\* Whole pages span themselves.
LEMMA PagesSpan ==
  ASSUME NEW page \in Nat, NEW n \in Nat \ {0}
  PROVE  LET b == Live("pages", PGSIZE * page, PGSIZE * n)
         IN b \in Block /\ WholePages(b) /\ pg_no(b.addr) = page
            /\ b.size \div PGSIZE = n /\ Span(b) = Bits(page, n)
<1> DEFINE b == Live("pages", PGSIZE * page, PGSIZE * n)
<1>1. /\ PGSIZE \in Nat \ {0} /\ PGSIZE * page \in Nat /\ PGSIZE * n \in Nat
      /\ PGSIZE * n = PGSIZE * (n - 1) + PGSIZE /\ PGSIZE * (n - 1) \in Nat
  BY SMT, MemoryAssumption
<1>2. b.kind = "pages" /\ b.addr = PGSIZE * page /\ b.size = PGSIZE * n /\ b \in Block
  BY SMT, <1>1 DEF Live, Block
<1>3. pg_no(PGSIZE * page) = page
  BY SMT, <1>1, PageIs
<1>4. (PGSIZE * n) \div PGSIZE = n
  <2>1. PGSIZE * n <= PGSIZE * n /\ PGSIZE * n < PGSIZE * n + PGSIZE
    BY SMT, <1>1
  <2>2. pg_no(PGSIZE * n) = n
    BY <1>1, <2>1, PageIs
  <2> QED
    BY <2>2 DEF pg_no
<1>5. pg_no(PGSIZE * page + PGSIZE * n - 1) = page + n - 1
  <2> DEFINE a == PGSIZE * page + PGSIZE * n - 1
             q == page + n - 1
  <2>1. q \in Nat
    BY SMT
  <2>2. PGSIZE * q = PGSIZE * page + PGSIZE * (n - 1)
    BY SMT, <1>1
  <2>3. a \in Nat /\ PGSIZE * q <= a /\ a < PGSIZE * q + PGSIZE
    BY SMT, <1>1, <2>2
  <2> QED
    BY <2>1, <2>3, PageIs
<1> HIDE DEF b
<1>6. Span(b) = Bits(page, n)
  BY <1>2, <1>3, <1>5 DEF Span, Bits
<1>7. WholePages(b)
  BY <1>2, <1>3, <1>4 DEF WholePages
<1> QED
  BY <1>2, <1>3, <1>4, <1>6, <1>7 DEF b

\* The span of a run of whole pages.
LEMMA WholeSpan ==
  ASSUME NEW b \in Block, WholePages(b)
  PROVE  /\ b.size \div PGSIZE \in Nat \ {0}
         /\ Span(b) = Bits(pg_no(b.addr), b.size \div PGSIZE)
<1> DEFINE page == pg_no(b.addr)
           n == b.size \div PGSIZE
<1>1. b.kind = "pages" /\ b.addr = PGSIZE * page /\ b.size = PGSIZE * n
  BY DEF WholePages
<1>2. b.addr \in Nat /\ b.size \in Nat \ {0} /\ PGSIZE \in Nat \ {0}
  BY SMT, MemoryAssumption DEF Block
<1>3. page \in Nat
  BY ZenonT(40), <1>2, PageOf
<1>4. n \in Nat
  BY SMT, <1>2
<1> HIDE DEF n, page
<1>5. n # 0
  BY SMT, <1>1, <1>2, <1>4
<1>6. b = Live("pages", PGSIZE * page, PGSIZE * n)
  BY <1>1 DEF Live, Block
<1>7. Span(b) = Bits(page, n)
  BY <1>3, <1>4, <1>5, <1>6, PagesSpan
<1> QED
  BY <1>4, <1>5, <1>7 DEF n, page

\* The pages of a block with a header in front.
LEMMA BigSpan ==
  ASSUME NEW page \in Nat, NEW size \in Nat \ {0}
  PROVE  LET b == Live("block", PGSIZE * page + HEADER, size)
             n == DIV_ROUND_UP(size + HEADER, PGSIZE)
         IN /\ b \in Block /\ pg_no(b.addr) = page
            /\ n \in Nat \ {0} /\ Span(b) = Bits(page, n)
<1> DEFINE b == Live("block", PGSIZE * page + HEADER, size)
           n == DIV_ROUND_UP(size + HEADER, PGSIZE)
<1>1. PGSIZE \in Nat \ {0} /\ HEADER \in Nat /\ HEADER < PGSIZE /\ PGSIZE * page \in Nat
  BY SMT, MemoryAssumption
<1>2. b.kind = "block" /\ b.addr = PGSIZE * page + HEADER /\ b.size = size /\ b \in Block
  BY SMT, <1>1 DEF Live, Block
<1>3. size + HEADER \in Nat \ {0}
  BY SMT, <1>1
<1>4. /\ n \in Nat \ {0} /\ PGSIZE * (n - 1) \in Nat
      /\ PGSIZE * (n - 1) < size + HEADER
      /\ size + HEADER <= PGSIZE * (n - 1) + PGSIZE
  BY <1>3, RoundUp
<1> HIDE DEF b, n
<1>5. pg_no(b.addr) = page
  <2>1. b.addr \in Nat /\ PGSIZE * page <= b.addr /\ b.addr < PGSIZE * page + PGSIZE
    BY SMT, <1>1, <1>2
  <2> QED
    BY <2>1, PageIs
<1>6. pg_no(b.addr + b.size - 1) = page + n - 1
  <2> DEFINE a == PGSIZE * page + HEADER + size - 1
             q == page + n - 1
  <2>1. q \in Nat
    BY SMT, <1>4
  <2>2. PGSIZE * q = PGSIZE * page + PGSIZE * (n - 1)
    BY SMT, <1>1, <1>4
  <2>3. a \in Nat /\ PGSIZE * q <= a /\ a < PGSIZE * q + PGSIZE
    BY SMT, <1>1, <1>4, <2>2
  <2>4. pg_no(a) = q
    BY <2>1, <2>3, PageIs
  <2> QED
    BY <2>4, <1>2
<1>7. Span(b) = Bits(page, n)
  BY <1>5, <1>6 DEF Span, Bits
<1> QED
  BY <1>2, <1>4, <1>5, <1>7 DEF b, n

\* The page of a block of a small arena.
LEMMA SmallSpan ==
  ASSUME NEW page \in Nat, NEW d \in Desc, NEW b \in Block,
         b.addr \in Blocks(page, d), b.size <= d
  PROVE  pg_no(b.addr) = page /\ Span(b) = {page}
<1>1. b.addr \in Nat /\ b.size \in Nat \ {0} /\ d \in Nat
  BY DescFits DEF Block
<1>2. /\ PGSIZE * page \in Nat /\ pg_no(b.addr) = page
      /\ PGSIZE * page + HEADER <= b.addr /\ b.addr + d <= PGSIZE * page + PGSIZE
  BY BlockPlace
<1>3. PGSIZE \in Nat /\ HEADER \in Nat
  BY MemoryAssumption
<1> DEFINE a == b.addr + b.size - 1
<1>4. a \in Nat /\ PGSIZE * page <= a /\ a < PGSIZE * page + PGSIZE
  BY SMT, <1>1, <1>2, <1>3
<1>5. pg_no(a) = page
  BY <1>4, PageIs
<1> QED
  BY SMT, <1>2, <1>5 DEF Span

-----------------------------------------------------------------------------
(* Pools *)

\* The pools lie in memory one after the other, each behind its bitmap.
LEMMA PoolPlace ==
  /\ \A p \in Pool : base(p) \in Nat /\ bitmap_size(p) \in Nat
  /\ base("kernel") + bitmap_size("kernel") <= base("user")
  /\ base("user") + bitmap_size("user") = RamPages
<1> DEFINE m == user_pages
<1>1. RamPages \in Nat /\ RamPages \div 2 \in Nat /\ RamPages \div 2 <= RamPages /\ user_page_limit \in Nat
  BY SMT, MemoryAssumption
<1>3. m \in Nat /\ m <= RamPages
  BY SMT, <1>1 DEF user_pages
<1> HIDE DEF m
<1>4. palloc_init.kernel = RamPages - m /\ palloc_init.user = m
  BY DEF palloc_init, m
<1>5. ASSUME NEW p \in Pool PROVE bm_pages(p) \in Nat
  <2> DEFINE k == palloc_init[p]
             e == DIV_ROUND_UP(k, ELEM_BITS)
             z == bitmap_buf_size(k)
  <2>1. k \in Nat
    BY SMT, <1>1, <1>3, <1>4 DEF Pool
  <2>2. ELEM_BITS \in Nat \ {0} /\ ELEM_BYTES \in Nat /\ BITMAP \in Nat /\ PGSIZE \in Nat \ {0}
    BY SMT, MemoryAssumption
  <2> HIDE DEF k
  <2>3. e \in Nat
    <3>1. k + ELEM_BITS - 1 \in Nat
      BY SMT, <2>1, <2>2
    <3> QED
      BY SMT, <3>1, <2>2 DEF DIV_ROUND_UP
  <2> HIDE DEF e
  <2>4. z = BITMAP + ELEM_BYTES * e
    BY DEF bitmap_buf_size, elem_cnt, e
  <2>5. ELEM_BYTES * e \in Nat
    BY SMT, <2>2, <2>3
  <2>6. z \in Nat
    BY SMT, <2>2, <2>4, <2>5
  <2> HIDE DEF z
  <2>7. z + PGSIZE - 1 \in Nat
    BY SMT, <2>2, <2>6
  <2>8. (z + PGSIZE - 1) \div PGSIZE \in Nat
    BY SMT, <2>2, <2>7
  <2> QED
    BY <2>8 DEF bm_pages, DIV_ROUND_UP, z, k
<1>6. \A p \in Pool : bm_pages(p) <= palloc_init[p]
  BY MemoryAssumption
<1>7. /\ bm_pages("kernel") \in Nat /\ bm_pages("user") \in Nat
      /\ bm_pages("kernel") <= RamPages - m /\ bm_pages("user") <= m
  BY <1>4, <1>5, <1>6 DEF Pool
<1>8. /\ base("kernel") = bm_pages("kernel") /\ base("user") = RamPages - m + bm_pages("user")
      /\ bitmap_size("kernel") = RamPages - m - bm_pages("kernel")
      /\ bitmap_size("user") = m - bm_pages("user")
  BY SMT, <1>1, <1>3, <1>4, <1>7 DEF base, bitmap_size
<1>9. /\ base("kernel") \in Nat /\ bitmap_size("kernel") \in Nat
      /\ base("user") \in Nat /\ bitmap_size("user") \in Nat
  BY SMT, <1>1, <1>3, <1>7, <1>8
<1> QED
  BY SMT, <1>1, <1>3, <1>7, <1>8, <1>9 DEF Pool

\* The pages that bitmaps mark; UsedPages are those of used_map.
Marked(um) == UNION {{base(p) + i : i \in um[p]} : p \in Pool}
Maps == {um \in [Pool -> SUBSET Int] : \A p \in Pool : um[p] \subseteq Bits(0, bitmap_size(p))}

\* Marked pages are in memory, and each is a bit of one bitmap.
LEMMA MarkedIs ==
  ASSUME NEW um \in Maps
  PROVE  /\ Marked(um) \subseteq Ram
         /\ \A p \in Pool : \A i \in Bits(0, bitmap_size(p)) :
              /\ base(p) + i \in Marked(um) <=> i \in um[p]
              /\ \A q \in Pool : page_from_pool(q, base(p) + i) <=> q = p
         /\ \A page \in Marked(um) :
              \E p \in Pool : page_from_pool(p, page) /\ page - base(p) \in um[p]
<1>1. /\ Pool = {"kernel", "user"}
      /\ \A p \in Pool : base(p) \in Nat /\ bitmap_size(p) \in Nat
      /\ base("kernel") + bitmap_size("kernel") <= base("user")
      /\ base("user") + bitmap_size("user") = RamPages
  BY PoolPlace DEF Pool
<1>2. \A p \in Pool : \A i \in um[p] : i \in Bits(0, bitmap_size(p))
  BY DEF Maps
<1>3. \A p \in Pool : \A i \in Bits(0, bitmap_size(p)) : i \in Nat /\ i < bitmap_size(p)
  BY SMT, <1>1 DEF Bits
<1>4. RamPages \in Nat
  BY MemoryAssumption
<1>5. ASSUME NEW p \in Pool, NEW i \in Bits(0, bitmap_size(p))
      PROVE  /\ base(p) + i \in Ram
             /\ \A q \in Pool : page_from_pool(q, base(p) + i) <=> q = p
  <2>1. i \in Nat /\ i < bitmap_size(p)
    BY <1>3
  <2>2. CASE p = "kernel"
    BY SMT, <2>1, <2>2, <1>1, <1>4 DEF Ram, page_from_pool
  <2>3. CASE p = "user"
    BY SMT, <2>1, <2>3, <1>1, <1>4 DEF Ram, page_from_pool
  <2> QED
    BY <1>1, <2>2, <2>3
<1>6. ASSUME NEW p \in Pool, NEW i \in Bits(0, bitmap_size(p)), base(p) + i \in Marked(um)
      PROVE  i \in um[p]
  <2>0. PICK q \in Pool : \E j \in um[q] : base(p) + i = base(q) + j
    BY <1>6 DEF Marked
  <2>1. PICK j \in um[q] : base(p) + i = base(q) + j
    BY <2>0
  <2>2. j \in Bits(0, bitmap_size(q))
    BY <1>2
  <2>3. page_from_pool(q, base(q) + j)
    BY <2>2, <1>5
  <2>4. q = p
    BY <2>1, <2>3, <1>5
  <2>5. i = j
    BY SMT, <2>1, <2>2, <2>4, <1>1, <1>3
  <2> QED
    BY <2>1, <2>4, <2>5
<1>7. \A p \in Pool : \A i \in um[p] : base(p) + i \in Marked(um)
  BY SMT DEF Marked
<1>8. \A page \in Marked(um) : \E p \in Pool : \E i \in um[p] : page = base(p) + i
  BY DEF Marked
<1>9. Marked(um) \subseteq Ram
  BY SMT, <1>2, <1>5, <1>8
<1>10. ASSUME NEW page \in Marked(um)
       PROVE  \E p \in Pool : page_from_pool(p, page) /\ page - base(p) \in um[p]
  <2>0. PICK p \in Pool : \E i \in um[p] : page = base(p) + i
    BY <1>8
  <2>1. PICK i \in um[p] : page = base(p) + i
    BY <2>0
  <2>2. i \in Bits(0, bitmap_size(p)) /\ i \in Nat
    BY <1>2, <1>3
  <2>3. page_from_pool(p, page)
    BY <2>1, <2>2, <1>5
  <2>4. page - base(p) = i
    BY SMT, <2>1, <2>2, <1>1
  <2> QED
    BY <2>1, <2>3, <2>4
<1> QED
  BY <1>5, <1>6, <1>7, <1>9, <1>10

\* What bitmap_scan_and_flip() marks, it marks in that pool alone.
LEMMA MarkMore ==
  ASSUME NEW um \in Maps, NEW p \in Pool, NEW cnt \in Nat, NEW i \in Nat,
         i \in Window(p, cnt), Bits(i, cnt) \cap um[p] = {}
  PROVE  LET um2 == [um EXCEPT ![p] = @ \cup Bits(i, cnt)]
             S == Bits(base(p) + i, cnt)
         IN /\ um2 \in Maps
            /\ Marked(um2) = Marked(um) \cup S
            /\ S \cap Marked(um) = {} /\ S \subseteq Ram
<1> DEFINE um2 == [um EXCEPT ![p] = @ \cup Bits(i, cnt)]
           S == Bits(base(p) + i, cnt)
           n == bitmap_size(p)
           z == base(p)
<1>1. z \in Nat /\ n \in Nat
  BY PoolPlace
<1>2. i + cnt <= n
  BY SMT, <1>1 DEF Window
<1>3. um \in [Pool -> SUBSET Int] /\ \A q \in Pool : um[q] \subseteq Bits(0, bitmap_size(q))
  BY DEF Maps
<1>4. Bits(i, cnt) \subseteq Bits(0, n) /\ Bits(i, cnt) \subseteq Int
  <2> HIDE DEF n
  <2> QED
    BY SMT, <1>1, <1>2 DEF Bits
<1>5. um2 \in Maps
  <2>1. um2 \in [Pool -> SUBSET Int]
    BY <1>3, <1>4
  <2>2. \A q \in Pool : um2[q] \subseteq Bits(0, bitmap_size(q))
    BY <1>3, <1>4
  <2> QED
    BY <2>1, <2>2 DEF Maps
<1>6. S = {z + j : j \in Bits(i, cnt)}
  <2> HIDE DEF z
  <2>1. S = Bits(z + i, cnt)
    BY DEF z
  <2>2. ASSUME NEW x \in Bits(z + i, cnt) PROVE x - z \in Bits(i, cnt) /\ x = z + (x - z)
    BY SMT, <1>1 DEF Bits
  <2>3. ASSUME NEW j \in Bits(i, cnt) PROVE z + j \in Bits(z + i, cnt)
    BY SMT, <1>1 DEF Bits
  <2> QED
    BY <2>1, <2>2, <2>3
<1> HIDE DEF S
<1>7. Marked(um2) = Marked(um) \cup S
  <2>1. \A q \in Pool : um2[q] = IF q = p THEN um[p] \cup Bits(i, cnt) ELSE um[q]
    BY <1>3
  <2> HIDE DEF um2
  <2>2. ASSUME NEW x \in Marked(um2) PROVE x \in Marked(um) \cup S
    <3>0. PICK q \in Pool : \E j \in um2[q] : x = base(q) + j
      BY DEF Marked
    <3>1. PICK j \in um2[q] : x = base(q) + j
      BY <3>0
    <3>2. CASE j \in um[q]
      BY SMT, <3>1, <3>2 DEF Marked
    <3>3. CASE j \notin um[q]
      <4>1. q = p /\ j \in Bits(i, cnt)
        BY <3>1, <3>3, <2>1
      <4> QED
        BY <3>1, <4>1, <1>6
    <3> QED
      BY <3>2, <3>3
  <2>3. ASSUME NEW x \in Marked(um) PROVE x \in Marked(um2)
    <3>0. PICK q \in Pool : \E j \in um[q] : x = base(q) + j
      BY DEF Marked
    <3>1. PICK j \in um[q] : x = base(q) + j
      BY <3>0
    <3>2. j \in um2[q]
      BY <3>1, <2>1
    <3> QED
      BY SMT, <3>1, <3>2 DEF Marked
  <2>4. ASSUME NEW x \in S PROVE x \in Marked(um2)
    <3>1. PICK j \in Bits(i, cnt) : x = base(p) + j
      BY <1>6
    <3>2. j \in um2[p]
      BY <3>1, <2>1
    <3> QED
      BY SMT, <3>1, <3>2 DEF Marked
  <2> QED
    BY <2>2, <2>3, <2>4
<1>8. S \cap Marked(um) = {}
  BY SMT, <1>4, <1>6, MarkedIs
<1>9. S \subseteq Ram
  BY ZenonT(40), <1>5, <1>7, MarkedIs
<1> QED
  BY ZenonT(40), <1>5, <1>7, <1>8, <1>9 DEF S

\* A step of palloc_free_multiple() clears the one page's bit.
LEMMA MarkLess ==
  ASSUME NEW um \in Maps, NEW page \in Marked(um)
  PROVE  LET p == CHOOSE q \in Pool : page_from_pool(q, page)
             um2 == [um EXCEPT ![p] = @ \ {PageIndex(page)}]
         IN p \in Pool /\ um2 \in Maps /\ Marked(um2) = Marked(um) \ {page}
<1> DEFINE p == CHOOSE q \in Pool : page_from_pool(q, page)
           um2 == [um EXCEPT ![p] = @ \ {PageIndex(page)}]
<1>1. PICK p0 \in Pool : page_from_pool(p0, page) /\ page - base(p0) \in um[p0]
  BY MarkedIs
<1>2. p \in Pool /\ page_from_pool(p, page)
  BY <1>1
<1>3. um \in [Pool -> SUBSET Int] /\ \A q \in Pool : um[q] \subseteq Bits(0, bitmap_size(q))
  BY DEF Maps
<1>4. \A q \in Pool : base(q) \in Nat /\ bitmap_size(q) \in Nat
  BY PoolPlace
<1>5. page \in Int
  BY SMT, MarkedIs DEF Ram
<1> DEFINE k == page - base(p0)
<1>6. k \in Bits(0, bitmap_size(p0)) /\ page = base(p0) + k
  BY SMT, <1>1, <1>3, <1>4, <1>5
<1>7. p = p0
  <2> HIDE DEF p, k
  <2> QED
    BY <1>2, <1>6, MarkedIs
<1>8. PageIndex(page) = k
  BY ZenonT(40), <1>7 DEF PageIndex
<1> HIDE DEF k, p
<1>9. um2 = [um EXCEPT ![p0] = @ \ {k}]
  BY <1>7, <1>8
<1> HIDE DEF um2
<1>10. um2 \in Maps
  <2>1. um2 \in [Pool -> SUBSET Int]
    BY <1>3, <1>9
  <2>2. \A q \in Pool : um2[q] \subseteq Bits(0, bitmap_size(q))
    BY <1>3, <1>9
  <2> QED
    BY <2>1, <2>2 DEF Maps
<1>11. \A q \in Pool : um2[q] = IF q = p0 THEN um[p0] \ {k} ELSE um[q]
  BY <1>3, <1>9
<1>12. page \notin Marked(um2)
  <2>1. k \notin um2[p0]
    BY <1>11
  <2> QED
    BY <2>1, <1>6, <1>10, MarkedIs
<1>13. ASSUME NEW x \in Marked(um2) PROVE x \in Marked(um)
  <2>0. PICK q \in Pool : \E j \in um2[q] : x = base(q) + j
    BY DEF Marked
  <2>1. PICK j \in um2[q] : x = base(q) + j
    BY <2>0
  <2>2. j \in um[q]
    BY <2>1, <1>11
  <2> QED
    BY SMT, <2>1, <2>2 DEF Marked
<1>14. ASSUME NEW x \in Marked(um), x # page PROVE x \in Marked(um2)
  <2>0. PICK q \in Pool : \E j \in um[q] : x = base(q) + j
    BY DEF Marked
  <2>1. PICK j \in um[q] : x = base(q) + j
    BY <2>0
  <2>2. j \in um2[q]
    BY <2>1, <1>6, <1>11, <1>14
  <2> QED
    BY SMT, <2>1, <2>2 DEF Marked
<1>15. Marked(um2) = Marked(um) \ {page}
  BY <1>12, <1>13, <1>14
<1> QED
  BY <1>2, <1>10, <1>15 DEF um2, p

-----------------------------------------------------------------------------
(* Free lists *)

\* list_pop_front() takes the first block.
LEMMA PopFront ==
  ASSUME NEW s \in Seq(Nat), s # <<>>, Once(s)
  PROVE  /\ Head(s) \in Nat /\ Head(s) \in Items(s)
         /\ Tail(s) \in Seq(Nat) /\ Once(Tail(s))
         /\ Items(Tail(s)) = Items(s) \ {Head(s)}
<1> DEFINE r == Tail(s)
<1>1. Len(s) \in Nat /\ Len(s) # 0 /\ Head(s) = s[1] /\ \A i \in 1 .. Len(s) : s[i] \in Nat
  BY SMT
<1>2. r \in Seq(Nat) /\ Len(r) = Len(s) - 1 /\ \A i \in 1 .. Len(r) : r[i] = s[i + 1]
  BY SMT
<1> HIDE DEF r
<1>3. \A i, j \in 1 .. Len(s) : s[i] = s[j] => i = j
  BY DEF Once
<1>4. 1 \in 1 .. Len(s) /\ \A i \in 1 .. Len(r) : i + 1 \in 1 .. Len(s) /\ i + 1 # 1
  BY SMT, <1>1, <1>2
<1>5. Once(r)
  <2> SUFFICES ASSUME NEW i \in 1 .. Len(r), NEW j \in 1 .. Len(r), r[i] = r[j] PROVE i = j
    BY DEF Once
  <2>1. i + 1 = j + 1
    BY ZenonT(40), <1>2, <1>3, <1>4
  <2> QED
    BY SMT, <2>1
<1>6. ASSUME NEW x \in Items(r) PROVE x \in Items(s) /\ x # s[1]
  <2>1. PICK i \in 1 .. Len(r) : x = r[i]
    BY DEF Items
  <2>2. x = s[i + 1] /\ i + 1 \in 1 .. Len(s) /\ i + 1 # 1
    BY <2>1, <1>2, <1>4
  <2> QED
    BY <2>2, <1>3, <1>4 DEF Items
<1>7. ASSUME NEW x \in Items(s), x # s[1] PROVE x \in Items(r)
  <2>1. PICK i \in 1 .. Len(s) : x = s[i]
    BY DEF Items
  <2>2. i # 1 /\ i - 1 \in 1 .. Len(r)
    BY SMT, <2>1, <1>1, <1>2, <1>7
  <2>3. r[i - 1] = s[(i - 1) + 1] /\ (i - 1) + 1 = i
    BY SMTT(40), <2>2, <1>2
  <2> QED
    BY <2>1, <2>2, <2>3 DEF Items
<1>8. Head(s) \in Nat /\ Head(s) \in Items(s)
  BY <1>1, <1>4 DEF Items
<1>9. Items(r) = Items(s) \ {Head(s)}
  BY <1>1, <1>6, <1>7
<1> QED
  BY <1>2, <1>5, <1>8, <1>9 DEF r

\* list_push_front() adds a block that is not listed.
LEMMA PushFront ==
  ASSUME NEW s \in Seq(Nat), NEW x \in Nat, x \notin Items(s), Once(s)
  PROVE  /\ <<x>> \o s \in Seq(Nat) /\ Once(<<x>> \o s)
         /\ Items(<<x>> \o s) = Items(s) \cup {x}
<1> DEFINE r == <<x>> \o s
<1>1. Len(s) \in Nat /\ \A i \in 1 .. Len(s) : s[i] \in Nat
  BY SMT
<1>2. r \in Seq(Nat) /\ Len(r) = Len(s) + 1
  BY SMT
<1>3. r[1] = x /\ \A i \in 1 .. Len(s) : r[i + 1] = s[i]
  BY SMT
<1> HIDE DEF r
<1>4. \A i \in 1 .. Len(r) : i = 1 \/ (i - 1 \in 1 .. Len(s) /\ r[i] = s[i - 1])
  <2> TAKE i \in 1 .. Len(r)
  <2>1. CASE i # 1
    <3>1. i - 1 \in 1 .. Len(s) /\ (i - 1) + 1 = i
      BY SMT, <2>1, <1>1, <1>2
    <3> QED
      BY <3>1, <1>3
  <2> QED
    BY <2>1
<1>5. Once(r)
  <2> SUFFICES ASSUME NEW i \in 1 .. Len(r), NEW j \in 1 .. Len(r), r[i] = r[j] PROVE i = j
    BY DEF Once
  <2>1. \A k \in 1 .. Len(s) : s[k] # x
    BY DEF Items
  <2>2. CASE i = 1 \/ j = 1
    BY <2>1, <2>2, <1>3, <1>4
  <2>3. CASE i # 1 /\ j # 1
    <3>1. i - 1 = j - 1
      BY ZenonT(40), <2>3, <1>4 DEF Once
    <3> QED
      BY SMT, <3>1
  <2> QED
    BY <2>2, <2>3
<1>6. ASSUME NEW y \in Items(r) PROVE y \in Items(s) \/ y = x
  <2>1. PICK i \in 1 .. Len(r) : y = r[i]
    BY DEF Items
  <2>2. CASE i = 1
    BY <2>1, <2>2, <1>3
  <2>3. CASE i # 1
    <3>1. i - 1 \in 1 .. Len(s) /\ y = s[i - 1]
      BY <2>1, <2>3, <1>4
    <3> QED
      BY <3>1 DEF Items
  <2> QED
    BY <2>2, <2>3
<1>7. x \in Items(r)
  <2>1. 1 \in 1 .. Len(r)
    BY SMT, <1>1, <1>2
  <2> QED
    BY <2>1, <1>3 DEF Items
<1>8. ASSUME NEW y \in Items(s) PROVE y \in Items(r)
  <2>1. PICK i \in 1 .. Len(s) : y = s[i]
    BY DEF Items
  <2>2. i + 1 \in 1 .. Len(r) /\ r[i + 1] = y
    BY SMT, <2>1, <1>1, <1>2, <1>3
  <2> QED
    BY <2>2 DEF Items
<1>9. Items(r) = Items(s) \cup {x}
  BY ZenonT(40), <1>6, <1>7, <1>8
<1> QED
  BY <1>2, <1>5, <1>9 DEF r

\* list_remove() takes the one block off the list.
LEMMA ListRemove ==
  ASSUME NEW s \in Seq(Nat), NEW x \in Items(s), Once(s)
  PROVE  /\ list_remove(s, x) \in Seq(Nat) /\ Once(list_remove(s, x))
         /\ Items(list_remove(s, x)) = Items(s) \ {x}
<1> DEFINE k == CHOOSE i \in DOMAIN s : s[i] = x
           r == list_remove(s, x)
           n == Len(s)
<1>1. n \in Nat /\ DOMAIN s = 1 .. n /\ \A i \in 1 .. n : s[i] \in Nat
  BY SMT
<1>2. k \in 1 .. n /\ s[k] = x
  <2>1. \E i \in DOMAIN s : s[i] = x
    BY <1>1 DEF Items
  <2>2. k \in DOMAIN s /\ s[k] = x
    BY <2>1
  <2> QED
    BY <2>2, <1>1
<1>3. r = SubSeq(s, 1, k - 1) \o SubSeq(s, k + 1, n)
  BY DEF list_remove
<1> HIDE DEF k, r
<1>4. /\ SubSeq(s, 1, k - 1) \in Seq(Nat) /\ Len(SubSeq(s, 1, k - 1)) = k - 1
      /\ \A i \in 1 .. k - 1 : SubSeq(s, 1, k - 1)[i] = s[i]
  BY SMT, <1>1, <1>2
<1>5. /\ SubSeq(s, k + 1, n) \in Seq(Nat) /\ Len(SubSeq(s, k + 1, n)) = n - k
      /\ \A i \in 1 .. n - k : SubSeq(s, k + 1, n)[i] = s[k + i]
  <2>1. k + 1 \in Int /\ n \in Int /\ \A i \in k + 1 .. n : s[i] \in Nat
    BY SMT, <1>1, <1>2
  <2> HIDE DEF n
  <2>2. /\ SubSeq(s, k + 1, n) \in Seq(Nat)
        /\ Len(SubSeq(s, k + 1, n)) = IF k + 1 <= n THEN n - (k + 1) + 1 ELSE 0
        /\ \A i \in 1 .. n - (k + 1) + 1 : SubSeq(s, k + 1, n)[i] = s[k + 1 + i - 1]
    BY SMT, <2>1
  <2> QED
    BY SMT, <2>2, <1>1, <1>2
<1>6. /\ r \in Seq(Nat) /\ Len(r) = n - 1
      /\ \A i \in 1 .. n - 1 : r[i] = IF i < k THEN s[i] ELSE s[i + 1]
  <2> DEFINE u == SubSeq(s, 1, k - 1)
             v == SubSeq(s, k + 1, n)
  <2> HIDE DEF u, v
  <2>1. /\ u \in Seq(Nat) /\ Len(u) = k - 1 /\ \A i \in 1 .. k - 1 : u[i] = s[i]
        /\ v \in Seq(Nat) /\ Len(v) = n - k /\ \A i \in 1 .. n - k : v[i] = s[k + i]
        /\ r = u \o v
    BY <1>3, <1>4, <1>5 DEF u, v
  <2> HIDE DEF n
  <2>2. r \in Seq(Nat) /\ Len(r) = n - 1
    <3>1. u \in Seq(Nat) /\ v \in Seq(Nat)
      BY <2>1
    <3>2. u \o v \in Seq(Nat) /\ Len(u \o v) = Len(u) + Len(v)
      BY SMT, <3>1
    <3>3. r \in Seq(Nat) /\ Len(r) = Len(u) + Len(v)
      BY <3>2, <2>1
    <3>4. n \in Nat /\ k \in Nat /\ Len(u) = k - 1 /\ Len(v) = n - k
      BY SMT, <2>1, <1>1, <1>2
    <3> QED
      BY SMT, <3>3, <3>4
  <2>3. ASSUME NEW i \in 1 .. n - 1 PROVE r[i] = IF i < k THEN s[i] ELSE s[i + 1]
    <3>1. CASE i < k
      <4>1. i \in 1 .. k - 1 /\ i \in 1 .. Len(u)
        BY SMT, <3>1, <2>1, <1>2
      <4>2. r[i] = u[i]
        BY SMT, <4>1, <2>1
      <4> QED
        BY <3>1, <4>1, <4>2, <2>1
    <3>2. CASE ~ (i < k)
      <4>1. i - (k - 1) \in 1 .. n - k /\ k + (i - (k - 1)) = i + 1
        BY SMT, <3>2, <1>1, <1>2
      <4>2. r[i] = v[i - (k - 1)]
        <5>1. u \in Seq(Nat) /\ v \in Seq(Nat)
          BY <2>1
        <5>2. \A j \in 1 .. Len(u) + Len(v) : (u \o v)[j] = IF j <= Len(u) THEN u[j] ELSE v[j - Len(u)]
          BY SMT, <5>1
        <5>3. i \in 1 .. Len(u) + Len(v) /\ ~ (i <= Len(u))
          BY SMT, <3>2, <2>1, <1>1, <1>2
        <5> QED
          BY <5>2, <5>3, <2>1
      <4>3. v[i - (k - 1)] = s[k + (i - (k - 1))]
        BY <4>1, <2>1
      <4> QED
        BY <3>2, <4>1, <4>2, <4>3
    <3> QED
      BY <3>1, <3>2
  <2> QED
    BY <2>2, <2>3
<1> HIDE DEF n
<1>7. \A i, j \in 1 .. n : s[i] = s[j] => i = j
  BY DEF Once, n
<1> DEFINE at(i) == IF i < k THEN i ELSE i + 1
<1>8. \A i \in 1 .. n - 1 : at(i) \in 1 .. n /\ at(i) # k /\ r[i] = s[at(i)]
  BY SMT, <1>1, <1>2, <1>6
<1>9. \A i, j \in 1 .. n - 1 : at(i) = at(j) => i = j
  BY SMT, <1>1, <1>2
<1>10. \A j \in 1 .. n : j # k => \E i \in 1 .. n - 1 : at(i) = j
  <2> TAKE j \in 1 .. n
  <2>1. CASE j < k
    <3>1. j \in 1 .. n - 1 /\ at(j) = j
      BY SMT, <2>1, <1>1, <1>2
    <3> QED
      BY <3>1
  <2>2. CASE j > k
    <3>1. j - 1 \in 1 .. n - 1 /\ at(j - 1) = j
      BY SMT, <2>2, <1>1, <1>2
    <3> QED
      BY <3>1
  <2> QED
    BY SMT, <2>1, <2>2, <1>1, <1>2
<1> HIDE DEF at
<1>11. Items(s) = {s[i] : i \in 1 .. n} /\ Items(r) = {r[i] : i \in 1 .. n - 1}
  BY <1>6 DEF Items, n
<1>12. Once(r)
  <2> SUFFICES ASSUME NEW i \in 1 .. n - 1, NEW j \in 1 .. n - 1, r[i] = r[j] PROVE i = j
    BY <1>6 DEF Once
  <2>1. at(i) = at(j)
    BY <1>7, <1>8
  <2> QED
    BY <2>1, <1>9
<1>13. ASSUME NEW y \in Items(r) PROVE y \in Items(s) /\ y # x
  BY SMT, <1>2, <1>7, <1>8, <1>11
<1>14. ASSUME NEW y \in Items(s), y # x PROVE y \in Items(r)
  <2>1. PICK j \in 1 .. n : y = s[j]
    BY <1>11
  <2>2. PICK i \in 1 .. n - 1 : at(i) = j
    BY <2>1, <1>2, <1>10, <1>14
  <2> QED
    BY <2>1, <2>2, <1>8, <1>11
<1>15. Items(r) = Items(s) \ {x}
  BY <1>13, <1>14
<1> QED
  BY <1>6, <1>12, <1>15 DEF r

\* The function that the loop of Unlisted() computes, for the first n blocks.
Removes(f, list, page, d, n) ==
  f = [i \in 0 .. n |-> IF i = 0 THEN list
                        ELSE list_remove(f[i - 1], arena_to_block(page, d, i - 1))]

\* The loop is well defined.
LEMMA RemovesExist ==
  ASSUME NEW list, NEW page, NEW d, NEW n \in Nat
  PROVE  \E f : Removes(f, list, page, d, n)
<1> DEFINE Bad == {m \in Nat : ~ \E f : Removes(f, list, page, d, m)}
           x(i) == arena_to_block(page, d, i - 1)
<1> SUFFICES ASSUME Bad # {} PROVE FALSE
  OBVIOUS
<1>1. Bad \subseteq Nat
  OBVIOUS
<1>2. PICK m \in Bad : \A y \in Bad : m <= y
  BY ZenonT(40), <1>1, LeastNat
<1>3. m # 0
  <2> DEFINE f == [i \in 0 .. 0 |-> list]
  <2>1. Removes(f, list, page, d, 0)
    BY SMT DEF Removes
  <2> QED
    BY ZenonT(40), <2>1, <1>2
<1>4. m \in Nat /\ ~ \E f : Removes(f, list, page, d, m)
  BY <1>2
<1>5. m - 1 \in Nat /\ m - 1 \notin Bad
  <2> HIDE DEF Bad
  <2>1. m \in Nat /\ m - 1 \in Nat /\ ~ (m <= m - 1)
    BY SMT, <1>3, <1>4
  <2> QED
    BY <2>1, <1>2
<1>6. PICK f : Removes(f, list, page, d, m - 1)
  BY <1>5
<1> HIDE DEF Bad, x
<1> DEFINE g == [i \in 0 .. m |-> IF i = m THEN list_remove(f[m - 1], x(m)) ELSE f[i]]
<1>7. \A i \in 0 .. m - 1 : f[i] = IF i = 0 THEN list ELSE list_remove(f[i - 1], x(i))
  BY ZenonT(40), <1>6 DEF Removes, x
<1>8. \A i \in 0 .. m : g[i] = IF i = 0 THEN list ELSE list_remove(g[i - 1], x(i))
  <2> TAKE i \in 0 .. m
  <2>1. CASE i = m
    <3>1. g[i] = list_remove(f[m - 1], x(m)) /\ i # 0
      BY <2>1, <1>3
    <3>2. m - 1 \in 0 .. m /\ m - 1 # m /\ g[m - 1] = f[m - 1]
      BY SMT, <1>4, <1>5
    <3> QED
      BY <2>1, <3>1, <3>2
  <2>2. CASE i # m
    <3>1. i \in 0 .. m - 1 /\ g[i] = f[i]
      BY SMT, <2>2, <1>4
    <3>2. CASE i = 0
      BY <3>1, <3>2, <1>7
    <3>3. CASE i # 0
      <4>1. i - 1 \in 0 .. m /\ i - 1 # m /\ g[i - 1] = f[i - 1]
        BY SMT, <3>1, <3>3, <1>4
      <4> QED
        BY <3>1, <3>3, <4>1, <1>7
    <3> QED
      BY <3>2, <3>3
  <2> QED
    BY <2>1, <2>2
<1>9. Removes(g, list, page, d, m)
  <2>1. g = [i \in 0 .. m |-> g[i]]
    OBVIOUS
  <2> HIDE DEF g
  <2>2. g = [i \in 0 .. m |-> IF i = 0 THEN list ELSE list_remove(g[i - 1], x(i))]
    BY ZenonT(40), <2>1, <1>8
  <2> QED
    BY ZenonT(40), <2>2 DEF Removes, x
<1> QED
  BY <1>4, <1>9

\* The loop in free() takes exactly the arena's blocks off the list.
LEMMA UnlistedIs ==
  ASSUME NEW s \in Seq(Nat), Once(s), NEW page \in Nat, NEW d \in Desc,
         Blocks(page, d) \subseteq Items(s)
  PROVE  /\ Unlisted(s, page, d) \in Seq(Nat) /\ Once(Unlisted(s, page, d))
         /\ Items(Unlisted(s, page, d)) = Items(s) \ Blocks(page, d)
<1> DEFINE n == blocks_per_arena(d)
           x(i) == arena_to_block(page, d, i)
           G(f) == Removes(f, s, page, d, n)
           Gone(k) == {x(i) : i \in 0 .. k - 1}
<1>1. n \in Nat
  BY DescFits
<1>2. \E f : G(f)
  BY ZenonT(40), <1>1, RemovesExist
<1>3. Unlisted(s, page, d) = (CHOOSE f : G(f))[n]
  BY DEF Unlisted, Removes
<1>4. PICK f : G(f) /\ Unlisted(s, page, d) = f[n]
  BY <1>2, <1>3
<1>5. Blocks(page, d) = {x(i) : i \in 0 .. n - 1}
  BY DEF Blocks
<1>6. \A i, j \in 0 .. n - 1 : x(i) = x(j) => i = j
  <2> SUFFICES ASSUME NEW i \in 0 .. n - 1, NEW j \in 0 .. n - 1, x(i) = x(j) PROVE i = j
    OBVIOUS
  <2> DEFINE z == PGSIZE * page + HEADER
  <2>1. d \in Nat \ {0} /\ z \in Nat
    <3>1. z \in Nat
      BY SMT, MemoryAssumption
    <3>2. d \in Nat \ {0}
      BY DescFits
    <3> QED
      BY <3>1, <3>2
  <2>2. z + i * d = z + j * d
    BY DEF arena_to_block
  <2> HIDE DEF z, n, x
  <2>3. i \in Nat /\ j \in Nat /\ i * d \in Nat /\ j * d \in Nat
    BY SMT, <1>1, <2>1
  <2>4. d * i = d * j
    BY SMT, <2>1, <2>2, <2>3
  <2> QED
    BY SMT, <2>1, <2>3, <2>4
<1> HIDE DEF n, x
<1>7. f[0] = s /\ \A i \in 1 .. n : f[i] = list_remove(f[i - 1], x(i - 1))
  BY SMT, <1>1, <1>4 DEF Removes, x
<1> DEFINE Good(k) == /\ f[k] \in Seq(Nat) /\ Once(f[k])
                      /\ Items(f[k]) = Items(s) \ Gone(k)
           Bad == {k \in 0 .. n : ~Good(k)}
<1>8. Good(0)
  <2>1. Gone(0) = {}
    BY SMT
  <2> QED
    BY <2>1, <1>7
<1>9. ASSUME NEW k \in 1 .. n, Good(k - 1) PROVE Good(k)
  <2>1. k - 1 \in 0 .. n - 1
    BY SMT, <1>1
  <2>2. x(k - 1) \in Items(s)
    BY <2>1, <1>5
  <2>3. x(k - 1) \notin Gone(k - 1)
    <3> SUFFICES ASSUME NEW j \in 0 .. k - 1 - 1, x(j) = x(k - 1) PROVE FALSE
      OBVIOUS
    <3>1. j \in 0 .. n - 1 /\ j # k - 1
      BY SMT, <1>1
    <3> QED
      BY <3>1, <2>1, <1>6
  <2>4. Gone(k) = Gone(k - 1) \cup {x(k - 1)}
    <3>1. 0 .. k - 1 = (0 .. k - 1 - 1) \cup {k - 1}
      BY SMT, <1>1
    <3> QED
      BY <3>1
  <2> HIDE DEF Gone
  <2>5. x(k - 1) \in Items(f[k - 1])
    BY <1>9, <2>2, <2>3
  <2>6. /\ f[k] \in Seq(Nat) /\ Once(f[k])
        /\ Items(f[k]) = Items(f[k - 1]) \ {x(k - 1)}
    BY SMT, <1>7, <1>9, <2>5, ListRemove
  <2>7. Items(f[k]) = Items(s) \ Gone(k)
    BY <1>9, <2>4, <2>6
  <2> QED
    BY <2>6, <2>7
<1> HIDE DEF Good
<1>10. Bad = {}
  <2> SUFFICES ASSUME Bad # {} PROVE FALSE
    OBVIOUS
  <2>1. Bad \subseteq Nat
    BY SMT
  <2>2. PICK m \in Bad : \A y \in Bad : m <= y
    BY ZenonT(40), <2>1, LeastNat
  <2>3. m \in 0 .. n /\ ~Good(m)
    BY <2>2
  <2>4. m # 0
    BY <2>3, <1>8
  <2>5. m \in 1 .. n /\ m - 1 \in 0 .. n /\ m \in Nat /\ ~ (m <= m - 1)
    BY SMT, <2>3, <2>4, <1>1
  <2>6. Good(m - 1)
    BY <2>2, <2>5
  <2> QED
    BY <2>3, <2>5, <2>6, <1>9
<1>11. Good(n)
  BY SMT, <1>1, <1>10
<1>12. Gone(n) = Blocks(page, d)
  BY <1>5
<1> QED
  BY <1>4, <1>11, <1>12 DEF Good

\* free_cnt counts places on the list; as nothing is listed twice, blocks.
LEMMA PlacesCount ==
  ASSUME NEW s \in Seq(Nat), Once(s), NEW B
  PROVE  /\ IsFiniteSet(Items(s) \cap B)
         /\ Cardinality({i \in DOMAIN s : s[i] \in B}) = Cardinality(Items(s) \cap B)
<1> DEFINE P == {i \in 1 .. Len(s) : s[i] \in B}
           Q == Items(s) \cap B
           f == [i \in P |-> s[i]]
<1>1. Len(s) \in Nat /\ DOMAIN s = 1 .. Len(s)
  BY SMT
<1>2. IsFiniteSet(P)
  <2>1. IsFiniteSet(1 .. Len(s))
    BY SMT, <1>1, FS_Interval
  <2> QED
    BY <2>1, FS_Subset
<1>3. f \in [P -> Q]
  BY DEF Items
<1>4. \A i, j \in P : f[i] = f[j] => i = j
  BY DEF Once
<1>5. \A y \in Q : \E i \in P : f[i] = y
  BY DEF Items
<1> HIDE DEF P, Q, f
<1>6. f \in Bijection(P, Q)
  BY <1>3, <1>4, <1>5 DEF Bijection, Injection, Surjection, IsInjective
<1>7. IsFiniteSet(Q) /\ Cardinality(Q) = Cardinality(P)
  BY <1>2, <1>6, FS_Bijection DEF ExistsBijection
<1> QED
  BY ZenonT(40), <1>1, <1>7 DEF P, Q

-----------------------------------------------------------------------------
(* What changes the layout, and leaves it in order *)

\* Where a held block lies.
LEMMA HeldWhere ==
  ASSUME NEW H, NEW A, NEW U, NEW M, PagesOwned(H, A, U, M), NEW b \in H
  PROVE  /\ b \in Block
         /\ pg_no(b.addr) \in Span(b) /\ pg_no(b.addr) \in U /\ pg_no(b.addr) \in Ram
         /\ Sits(b, A) => /\ Small(b, A) /\ Span(b) = {pg_no(b.addr)}
                          /\ A[pg_no(b.addr)].desc \in Desc
         /\ ~Sits(b, A) => WholePages(b) \/ Big(b, A)
<1> DEFINE page == pg_no(b.addr)
<1>1. /\ b \in Block /\ U \subseteq Ram /\ A \in [Ram -> Arena \cup {NULL}] /\ Span(b) \subseteq U
      /\ WholePages(b) \/ Small(b, A) \/ Big(b, A)
  BY DEF PagesOwned
<1>2. page \in Span(b)
  BY <1>1, SpanBytes
<1>3. page \in U /\ page \in Ram
  BY <1>1, <1>2
<1>4. ASSUME Sits(b, A)
      PROVE  Small(b, A) /\ Span(b) = {page} /\ A[page].desc \in Desc
  <2>1. page \in SmallPages(A) /\ b.kind = "block"
    BY <1>4 DEF Sits
  <2>2. A[page] # NULL /\ A[page].desc # NULL
    BY <2>1 DEF SmallPages
  <2>3. ~WholePages(b)
    BY <2>1 DEF WholePages
  <2>4. ~Big(b, A)
    BY SMT, <2>2 DEF Big
  <2>5. Small(b, A)
    BY <1>1, <2>3, <2>4
  <2>6. A[page].desc \in Desc
    BY <1>1, <1>3, <2>2 DEF Arena
  <2>7. b.addr \in Blocks(page, A[page].desc) /\ b.size <= A[page].desc
    BY <2>5 DEF Small
  <2>8. page \in Nat
    BY SMT, <1>3 DEF Ram
  <2>9. Span(b) = {page}
    BY <1>1, <2>6, <2>7, <2>8, SmallSpan
  <2> QED
    BY <2>5, <2>6, <2>9
<1>5. ~Sits(b, A) => WholePages(b) \/ Big(b, A)
  BY <1>1 DEF Small
<1> QED
  BY <1>1, <1>2, <1>3, <1>4, <1>5

\* bitmap_scan_and_flip(): the thread gets unused pages.
LEMMA Claim ==
  ASSUME NEW H, NEW A, NEW L, NEW U, NEW M, Layout(H, A, L, U, M),
         NEW t \in Thread, M[t] = {}, NEW S \in SUBSET Ram, S \cap U = {}
  PROVE  Layout(H, A, L, U \cup S, [M EXCEPT ![t] = S])
<1> DEFINE M2 == [M EXCEPT ![t] = S]
           U2 == U \cup S
<1>1. PagesOwned(H, A, U, M) /\ BlocksOwned(H, A, L)
  BY DEF Layout
<1>2. M \in [Thread -> SUBSET Ram] /\ U \subseteq Ram
  BY <1>1 DEF PagesOwned
<1>3. M2 \in [Thread -> SUBSET Ram] /\ \A u \in Thread : M2[u] = IF u = t THEN S ELSE M[u]
  BY <1>2
<1>4. /\ \A u \in Thread : M2[u] \subseteq U2
      /\ \A u, v \in Thread : u # v => M2[u] \cap M2[v] = {}
  BY <1>1, <1>3 DEF PagesOwned
<1>5. \A u \in Thread : M2[u] \cap SmallPages(A) = {}
  BY <1>1, <1>3 DEF PagesOwned
<1>6. \A u \in Thread, b \in H : M2[u] \cap Span(b) = {}
  BY <1>1, <1>3 DEF PagesOwned
<1>7. \A page \in U2 : \/ page \in SmallPages(A)
                       \/ \E b \in H : page \in Span(b)
                       \/ \E u \in Thread : page \in M2[u]
  <2> SUFFICES ASSUME NEW page \in U2
               PROVE  \/ page \in SmallPages(A)
                      \/ \E b \in H : page \in Span(b)
                      \/ \E u \in Thread : page \in M2[u]
    OBVIOUS
  <2>1. CASE page \in S
    BY <2>1, <1>3
  <2>2. CASE page \in U
    <3>1. \/ page \in SmallPages(A) \/ (\E b \in H : page \in Span(b))
          \/ (\E u \in Thread : page \in M[u])
      BY <2>2, <1>1 DEF PagesOwned
    <3>2. ASSUME NEW u \in Thread, page \in M[u] PROVE page \in M2[u]
      BY <3>2, <1>3
    <3> QED
      BY <3>1, <3>2
  <2> QED
    BY <2>1, <2>2
<1> HIDE DEF M2
<1>8. PagesOwned(H, A, U2, M2)
  BY <1>1, <1>2, <1>3, <1>4, <1>5, <1>6, <1>7 DEF PagesOwned
<1> QED
  BY <1>1, <1>8 DEF Layout, M2

\* palloc_free_multiple(): a page the thread has is unused again.
LEMMA Unclaim ==
  ASSUME NEW H, NEW A, NEW L, NEW U, NEW M, Layout(H, A, L, U, M),
         NEW t \in Thread, NEW page \in M[t]
  PROVE  Layout(H, A, L, U \ {page}, [M EXCEPT ![t] = @ \ {page}])
<1> DEFINE M2 == [M EXCEPT ![t] = @ \ {page}]
           U2 == U \ {page}
<1>1. PagesOwned(H, A, U, M) /\ BlocksOwned(H, A, L)
  BY DEF Layout
<1>2. M \in [Thread -> SUBSET Ram] /\ U \subseteq Ram
  BY <1>1 DEF PagesOwned
<1>3. M2 \in [Thread -> SUBSET Ram] /\ \A u \in Thread : M2[u] = IF u = t THEN M[t] \ {page} ELSE M[u]
  BY <1>2
<1>4. /\ page \notin SmallPages(A)
      /\ \A b \in H : page \notin Span(b)
      /\ \A u \in Thread : u # t => page \notin M[u]
  BY <1>1 DEF PagesOwned
<1>5. /\ SmallPages(A) \subseteq U2 /\ (\A b \in H : Span(b) \subseteq U2)
      /\ \A u \in Thread : M2[u] \subseteq U2
  BY ZenonT(40), <1>1, <1>3, <1>4 DEF PagesOwned
<1>6. /\ \A u, v \in Thread : u # v => M2[u] \cap M2[v] = {}
      /\ \A u \in Thread : M2[u] \cap SmallPages(A) = {}
      /\ \A u \in Thread, b \in H : M2[u] \cap Span(b) = {}
  BY <1>1, <1>3 DEF PagesOwned
<1>7. ASSUME NEW q \in U2
      PROVE  q \in SmallPages(A) \/ (\E b \in H : q \in Span(b)) \/ (\E u \in Thread : q \in M2[u])
  <2>1. q \in SmallPages(A) \/ (\E b \in H : q \in Span(b)) \/ (\E u \in Thread : q \in M[u])
    BY <1>1 DEF PagesOwned
  <2>2. ASSUME NEW u \in Thread, q \in M[u] PROVE q \in M2[u]
    BY <2>2, <1>3
  <2> QED
    BY <2>1, <2>2
<1> HIDE DEF M2
<1>8. PagesOwned(H, A, U2, M2)
  BY <1>1, <1>2, <1>3, <1>5, <1>6, <1>7 DEF PagesOwned
<1> QED
  BY <1>1, <1>8 DEF Layout, M2

\* The blocks of two arenas differ.
LEMMA ArenasApart ==
  ASSUME NEW p \in Ram, NEW q \in Ram, NEW d \in Desc, NEW e \in Desc,
         NEW x \in Blocks(p, d), x \in Blocks(q, e)
  PROVE  p = q
<1>1. p \in Nat /\ q \in Nat
  BY SMT DEF Ram
<1> QED
  BY <1>1, BlockPlace

\* An arena changes on a page that no held block is on: all blocks stay what
\* they are.
LEMMA OtherArenas ==
  ASSUME NEW H, NEW A, NEW U, NEW M, PagesOwned(H, A, U, M), NEW page \in Ram, NEW new,
         NEW c \in H, page \notin Span(c)
  PROVE  LET A2 == [A EXCEPT ![page] = new]
         IN /\ Sits(c, A2) <=> Sits(c, A)
            /\ Small(c, A) => Small(c, A2)
            /\ Big(c, A) => Big(c, A2)
<1> DEFINE A2 == [A EXCEPT ![page] = new]
           q == pg_no(c.addr)
<1>1. q \in Ram /\ q # page
  BY SMT, HeldWhere
<1>2. A \in [Ram -> Arena \cup {NULL}]
  BY DEF PagesOwned
<1>3. A2[q] = A[q] /\ (q \in SmallPages(A2) <=> q \in SmallPages(A))
  BY <1>1, <1>2 DEF SmallPages
<1> HIDE DEF A2
<1>4. Sits(c, A2) <=> Sits(c, A)
  BY <1>3 DEF Sits
<1>5. Small(c, A) => Small(c, A2)
  BY <1>3, <1>4 DEF Small
<1>6. Big(c, A) => Big(c, A2)
  BY <1>3 DEF Big
<1> QED
  BY <1>4, <1>5, <1>6 DEF A2

\* Only free_cnt of a small arena changes: blocks and pages stay what they are.
LEMMA OtherCount ==
  ASSUME NEW H, NEW A, NEW U, NEW M, PagesOwned(H, A, U, M),
         NEW page \in SmallPages(A), NEW n \in Nat
  PROVE  LET A2 == Recount(A, page, n)
         IN /\ A2 \in [Ram -> Arena \cup {NULL}]
            /\ SmallPages(A2) = SmallPages(A)
            /\ A2[page].free_cnt = n
            /\ \A q \in SmallPages(A) : A2[q].desc = A[q].desc /\ A[q].desc \in Desc
            /\ \A q \in SmallPages(A) : q # page => A2[q].free_cnt = A[q].free_cnt
            /\ \A c \in H : /\ Sits(c, A2) <=> Sits(c, A)
                            /\ Small(c, A) => Small(c, A2)
                            /\ Big(c, A) => Big(c, A2)
<1> DEFINE A2 == Recount(A, page, n)
<1>1. A \in [Ram -> Arena \cup {NULL}]
  BY DEF PagesOwned
<1>2. page \in Ram /\ A[page] # NULL /\ A[page].desc # NULL
  BY DEF SmallPages
<1>3. A[page] \in Arena
  BY <1>1, <1>2
<1>4. A2[page] \in Arena /\ A2[page].desc = A[page].desc /\ A2[page].free_cnt = n
  BY <1>1, <1>2, <1>3 DEF Arena, Recount
<1>5. A2[page] # NULL
  BY SMT, <1>4, MemoryAssumption DEF Arena
<1>6. \A q \in Ram : q # page => A2[q] = A[q]
  BY <1>1 DEF Recount
<1>7. A2 \in [Ram -> Arena \cup {NULL}]
  BY <1>1, <1>2, <1>3 DEF Arena, Recount
<1> HIDE DEF A2
<1>8. SmallPages(A2) = SmallPages(A)
  BY <1>2, <1>4, <1>5, <1>6 DEF SmallPages
<1>9. /\ \A q \in SmallPages(A) : A2[q].desc = A[q].desc /\ A[q].desc \in Desc
      /\ \A q \in SmallPages(A) : q # page => A2[q].free_cnt = A[q].free_cnt
  <2> SUFFICES ASSUME NEW q \in SmallPages(A)
               PROVE  /\ A2[q].desc = A[q].desc /\ A[q].desc \in Desc
                      /\ q # page => A2[q].free_cnt = A[q].free_cnt
    OBVIOUS
  <2>1. q \in Ram /\ A[q] # NULL /\ A[q].desc # NULL
    BY DEF SmallPages
  <2>2. A[q].desc \in Desc
    BY <1>1, <2>1 DEF Arena
  <2> QED
    BY <1>4, <1>6, <2>1, <2>2
<1>10. ASSUME NEW c \in H
       PROVE  /\ Sits(c, A2) <=> Sits(c, A)
              /\ Small(c, A) => Small(c, A2)
              /\ Big(c, A) => Big(c, A2)
  <2>1. Sits(c, A2) <=> Sits(c, A)
    BY <1>8 DEF Sits
  <2>2. Small(c, A) => Small(c, A2)
    BY <2>1, <1>9 DEF Small, Sits
  <2>3. ASSUME Big(c, A) PROVE Big(c, A2)
    <3>1. pg_no(c.addr) \in Ram /\ A[pg_no(c.addr)].desc = NULL
      BY SMT, <2>3 DEF Big
    <3>2. A2[pg_no(c.addr)] = A[pg_no(c.addr)]
      BY <3>1, <1>2, <1>6
    <3> QED
      BY <2>3, <3>2 DEF Big
  <2> QED
    BY <2>1, <2>2, <2>3
<1> QED
  BY <1>4, <1>7, <1>8, <1>9, <1>10 DEF A2

\* got_pages() and malloc_big(): a block gets the pages the thread has; with
\* its header, an arena of one block.
LEMMA Give ==
  ASSUME NEW H, NEW A, NEW L, NEW U, NEW M, Layout(H, A, L, U, M),
         NEW t \in Thread, NEW b \in Block, M[t] = Span(b), NEW new,
         \/ WholePages(b) /\ new = A[pg_no(b.addr)]
         \/ /\ b.kind = "block" /\ b.addr = PGSIZE * pg_no(b.addr) + HEADER
            /\ new = [desc |-> NULL, free_cnt |-> DIV_ROUND_UP(b.size + HEADER, PGSIZE)]
  PROVE  /\ Layout(H \cup {b}, [A EXCEPT ![pg_no(b.addr)] = new], L, U, [M EXCEPT ![t] = {}])
         /\ b \notin H
<1> DEFINE page == pg_no(b.addr)
           A2 == [A EXCEPT ![page] = new]
           M2 == [M EXCEPT ![t] = {}]
           H2 == H \cup {b}
<1>1. PagesOwned(H, A, U, M) /\ BlocksOwned(H, A, L)
  BY DEF Layout
<1>2. /\ M \in [Thread -> SUBSET Ram] /\ U \subseteq Ram /\ H \subseteq Block
      /\ A \in [Ram -> Arena \cup {NULL}]
  BY <1>1 DEF PagesOwned
<1>3. /\ M2 \in [Thread -> SUBSET Ram]
      /\ \A u \in Thread : M2[u] = IF u = t THEN {} ELSE M[u]
  BY <1>2
<1>4. page \in Span(b) /\ page \in Ram
  BY SMT, <1>2, SpanBytes
<1>5. /\ Span(b) \cap SmallPages(A) = {} /\ Span(b) \subseteq U
      /\ \A c \in H : Span(b) \cap Span(c) = {}
      /\ \A u \in Thread : u # t => Span(b) \cap M[u] = {}
  BY <1>1 DEF PagesOwned
<1>6. b \notin H
  BY <1>4, <1>5
<1>7. A2 \in [Ram -> Arena \cup {NULL}] /\ A2[page] = new
  <2>1. b.size + HEADER \in Nat \ {0}
    BY SMT, MemoryAssumption DEF Block
  <2>2. DIV_ROUND_UP(b.size + HEADER, PGSIZE) \in Nat
    BY <2>1, RoundUp
  <2>3. new \in Arena \cup {NULL}
    BY SMT, <2>2, <1>2, <1>4 DEF Arena
  <2> QED
    BY <2>3, <1>2, <1>4
<1>8. SmallPages(A2) = SmallPages(A)
  <2>1. page \notin SmallPages(A)
    BY <1>4, <1>5
  <2>2. page \notin SmallPages(A2)
    BY SMT, <2>1, <1>4, <1>7 DEF SmallPages
  <2>3. \A q \in Ram : q # page => A2[q] = A[q]
    BY <1>2
  <2> HIDE DEF A2
  <2> QED
    BY <2>1, <2>2, <2>3 DEF SmallPages
<1>9. \A c \in H : /\ Sits(c, A2) <=> Sits(c, A)
                   /\ Small(c, A) => Small(c, A2)
                   /\ Big(c, A) => Big(c, A2)
  BY <1>1, <1>4, <1>5, OtherArenas
<1>10. \A q \in SmallPages(A) : A2[q] = A[q]
  BY <1>2, <1>4, <1>5 DEF SmallPages
<1>11. ~Sits(b, A2) /\ (WholePages(b) \/ Big(b, A2))
  <2>1. ~Sits(b, A2)
    BY <1>4, <1>5, <1>8 DEF Sits
  <2>2. WholePages(b) \/ Big(b, A2)
    BY <1>4, <1>7 DEF Big
  <2> QED
    BY <2>1, <2>2
<1> HIDE DEF A2, M2
<1>12. PagesOwned(H2, A2, U, M2)
  <2>1. /\ H2 \subseteq Block
        /\ \A c \in H2 : WholePages(c) \/ Small(c, A2) \/ Big(c, A2)
    BY <1>1, <1>2, <1>9, <1>11 DEF PagesOwned
  <2>2. /\ SmallPages(A2) \subseteq U
        /\ \A c \in H2 : Span(c) \subseteq U
        /\ \A u \in Thread : M2[u] \subseteq U
    BY <1>1, <1>3, <1>5, <1>8 DEF PagesOwned
  <2>3. /\ \A u, v \in Thread : u # v => M2[u] \cap M2[v] = {}
        /\ \A u \in Thread : M2[u] \cap SmallPages(A2) = {}
    BY <1>1, <1>3, <1>8 DEF PagesOwned
  <2>4. \A u \in Thread, c \in H2 : M2[u] \cap Span(c) = {}
    BY <1>1, <1>3, <1>5 DEF PagesOwned
  <2>5. \A c \in H2 : ~Sits(c, A2) => Span(c) \cap SmallPages(A2) = {}
    BY <1>1, <1>5, <1>8, <1>9 DEF PagesOwned
  <2>6. \A c, e \in H2 : c # e /\ ~Sits(c, A2) /\ ~Sits(e, A2) => Span(c) \cap Span(e) = {}
    BY <1>1, <1>5, <1>9 DEF PagesOwned
  <2>7. ASSUME NEW q \in U
        PROVE  \/ q \in SmallPages(A2) \/ (\E c \in H2 : q \in Span(c))
               \/ (\E u \in Thread : q \in M2[u])
    <3>1. q \in SmallPages(A) \/ (\E c \in H : q \in Span(c)) \/ (\E u \in Thread : q \in M[u])
      BY <1>1 DEF PagesOwned
    <3>2. ASSUME NEW u \in Thread, q \in M[u] PROVE q \in Span(b) \/ q \in M2[u]
      BY <3>2, <1>3
    <3> QED
      BY <3>1, <3>2, <1>8
  <2> QED
    BY <1>2, <1>3, <1>7, <2>1, <2>2, <2>3, <2>4, <2>5, <2>6, <2>7 DEF PagesOwned
<1>13. BlocksOwned(H2, A2, L)
  <2>1. L \in [Desc -> Seq(Nat)] /\ \A d \in Desc : Once(L[d])
    BY <1>1 DEF BlocksOwned
  <2>2. ASSUME NEW d \in Desc, NEW x \in Items(L[d])
        PROVE  /\ pg_no(x) \in SmallPages(A2) /\ A2[pg_no(x)].desc = d
               /\ x \in Blocks(pg_no(x), d) /\ \A c \in H2 : c.addr # x
    <3>1. /\ pg_no(x) \in SmallPages(A) /\ A[pg_no(x)].desc = d
          /\ x \in Blocks(pg_no(x), d) /\ \A c \in H : c.addr # x
      BY <1>1 DEF BlocksOwned
    <3>2. b.addr # x
      BY <3>1, <1>4, <1>5
    <3> QED
      BY <3>1, <3>2, <1>8, <1>10
  <2>3. \A c, e \in H2 : c # e /\ Sits(c, A2) /\ Sits(e, A2) => c.addr # e.addr
    BY <1>1, <1>9, <1>11 DEF BlocksOwned
  <2>4. ASSUME NEW q \in SmallPages(A2)
        PROVE  LET d == A2[q].desc IN
               /\ \A x \in Blocks(q, d) : x \in Items(L[d]) \/ \E c \in H2 : c.addr = x
               /\ Cardinality(Items(L[d]) \cap Blocks(q, d)) = A2[q].free_cnt
               /\ A2[q].free_cnt < blocks_per_arena(d)
    <3>1. q \in SmallPages(A) /\ A2[q] = A[q]
      BY <1>8, <1>10
    <3> QED
      BY ZenonT(40), <3>1, <1>1 DEF BlocksOwned
  <2> QED
    BY ZenonT(40), <2>1, <2>2, <2>3, <2>4 DEF BlocksOwned
<1> QED
  BY <1>6, <1>12, <1>13 DEF Layout, A2, M2

\* free() of whole pages or of a big block: its pages are the thread's, which
\* gives them back.
LEMMA TakeBack ==
  ASSUME NEW H, NEW A, NEW L, NEW U, NEW M, Layout(H, A, L, U, M),
         NEW t \in Thread, M[t] = {}, NEW b \in H, ~Sits(b, A)
  PROVE  Layout(H \ {b}, A, L, U, [M EXCEPT ![t] = Span(b)])
<1> DEFINE M2 == [M EXCEPT ![t] = Span(b)]
           H2 == H \ {b}
<1>1. PagesOwned(H, A, U, M) /\ BlocksOwned(H, A, L)
  BY DEF Layout
<1>2. /\ M \in [Thread -> SUBSET Ram] /\ U \subseteq Ram /\ H \subseteq Block
      /\ A \in [Ram -> Arena \cup {NULL}]
  BY <1>1 DEF PagesOwned
<1>3. Span(b) \subseteq U /\ Span(b) \cap SmallPages(A) = {} /\ pg_no(b.addr) \in Span(b)
  <2>1. pg_no(b.addr) \in Span(b)
    BY <1>2, SpanBytes
  <2> QED
    BY <1>1, <2>1 DEF PagesOwned
<1>4. ASSUME NEW c \in H2 PROVE Span(b) \cap Span(c) = {}
  <2>1. CASE Sits(c, A)
    <3>1. Span(c) \subseteq SmallPages(A)
      BY SMT, <2>1, <1>1, HeldWhere DEF Sits
    <3> QED
      BY <3>1, <1>3
  <2>2. CASE ~Sits(c, A)
    BY <2>2, <1>1 DEF PagesOwned
  <2> QED
    BY <2>1, <2>2
<1>5. /\ M2 \in [Thread -> SUBSET Ram]
      /\ \A u \in Thread : M2[u] = IF u = t THEN Span(b) ELSE M[u]
  BY <1>2, <1>3
<1> HIDE DEF M2
<1>6. PagesOwned(H2, A, U, M2)
  <2>1. \A u \in Thread : M2[u] \subseteq U /\ M2[u] \cap SmallPages(A) = {}
    BY <1>1, <1>3, <1>5 DEF PagesOwned
  <2>2. \A u, v \in Thread : u # v => M2[u] \cap M2[v] = {}
    BY SMT, <1>1, <1>5 DEF PagesOwned
  <2>3. \A u \in Thread, c \in H2 : M2[u] \cap Span(c) = {}
    BY <1>1, <1>4, <1>5 DEF PagesOwned
  <2>4. ASSUME NEW q \in U
        PROVE  q \in SmallPages(A) \/ (\E c \in H2 : q \in Span(c)) \/ (\E u \in Thread : q \in M2[u])
    <3>1. q \in SmallPages(A) \/ (\E c \in H : q \in Span(c)) \/ (\E u \in Thread : q \in M[u])
      BY <1>1 DEF PagesOwned
    <3>2. ASSUME NEW u \in Thread, q \in M[u] PROVE q \in M2[u]
      BY <3>2, <1>5
    <3>3. ASSUME NEW c \in H, q \in Span(c) PROVE c \in H2 \/ q \in M2[t]
      BY <3>3, <1>5
    <3> QED
      BY <3>1, <3>2, <3>3
  <2> QED
    BY <1>1, <1>2, <1>5, <2>1, <2>2, <2>3, <2>4 DEF PagesOwned
<1>7. BlocksOwned(H2, A, L)
  <2>1. ASSUME NEW q \in SmallPages(A), NEW x \in Blocks(q, A[q].desc)
        PROVE  x \in Items(L[A[q].desc]) \/ \E c \in H2 : c.addr = x
    <3>1. x \in Items(L[A[q].desc]) \/ \E c \in H : c.addr = x
      BY ZenonT(40), <1>1 DEF BlocksOwned
    <3>2. q \in Nat /\ A[q].desc \in Desc
      BY SMT, <1>2 DEF SmallPages, Arena, Ram
    <3>3. pg_no(x) = q
      BY ZenonT(40), <3>2, BlockPlace
    <3>4. b.addr # x
      BY <3>3, <1>3
    <3> QED
      BY <3>1, <3>4
  <2> QED
    BY ZenonT(40), <1>1, <2>1 DEF BlocksOwned
<1> QED
  BY <1>6, <1>7 DEF Layout, M2

\* The pages stay as they are when only small blocks change hands: those of a
\* small arena are the arena's.
LEMMA SmallChange ==
  ASSUME NEW H, NEW A, NEW U, NEW M, PagesOwned(H, A, U, M),
         NEW page \in SmallPages(A), NEW n \in Nat, NEW H2, H2 \subseteq Block,
         \A c \in H2 \ H : /\ c.kind = "block" /\ pg_no(c.addr) = page
                           /\ c.addr \in Blocks(page, A[page].desc) /\ c.size <= A[page].desc,
         \A c \in H \ H2 : Sits(c, A)
  PROVE  PagesOwned(H2, Recount(A, page, n), U, M)
<1> DEFINE A2 == Recount(A, page, n)
<1>1. /\ M \in [Thread -> SUBSET Ram] /\ U \subseteq Ram /\ H \subseteq Block
      /\ A \in [Ram -> Arena \cup {NULL}] /\ page \in Ram /\ page \in Nat
  BY SMT DEF PagesOwned, SmallPages, Ram
<1>2. /\ A2 \in [Ram -> Arena \cup {NULL}]
      /\ SmallPages(A2) = SmallPages(A)
      /\ \A q \in SmallPages(A) : A2[q].desc = A[q].desc /\ A[q].desc \in Desc
      /\ \A c \in H : /\ Sits(c, A2) <=> Sits(c, A)
                      /\ Small(c, A) => Small(c, A2)
                      /\ Big(c, A) => Big(c, A2)
  BY OtherCount
<1> HIDE DEF A2
<1>3. ASSUME NEW c \in H2 \ H PROVE Sits(c, A2) /\ Small(c, A2) /\ Span(c) = {page}
  <2>1. Sits(c, A2)
    BY <1>2 DEF Sits
  <2>2. Small(c, A2)
    BY <2>1, <1>2 DEF Small
  <2>3. Span(c) = {page}
    BY <1>1, <1>2, SmallSpan
  <2> QED
    BY <2>1, <2>2, <2>3
<1>4. \A c \in H2 : WholePages(c) \/ Small(c, A2) \/ Big(c, A2)
  BY <1>2, <1>3 DEF PagesOwned
<1>5. /\ SmallPages(A2) \subseteq U
      /\ \A c \in H2 : Span(c) \subseteq U
  BY ZenonT(40), <1>2, <1>3 DEF PagesOwned
<1>6. \A u \in Thread : M[u] \subseteq U /\ M[u] \cap SmallPages(A2) = {}
  BY <1>2 DEF PagesOwned
<1>7. \A u \in Thread, c \in H2 : M[u] \cap Span(c) = {}
  BY SMT, <1>2, <1>3, <1>6 DEF PagesOwned
<1>8. \A c \in H2 : ~Sits(c, A2) => Span(c) \cap SmallPages(A2) = {}
  BY <1>2, <1>3 DEF PagesOwned
<1>9. \A c, e \in H2 : c # e /\ ~Sits(c, A2) /\ ~Sits(e, A2) => Span(c) \cap Span(e) = {}
  BY <1>2, <1>3 DEF PagesOwned
<1>10. ASSUME NEW q \in U
       PROVE  q \in SmallPages(A2) \/ (\E c \in H2 : q \in Span(c)) \/ (\E u \in Thread : q \in M[u])
  <2>1. q \in SmallPages(A) \/ (\E c \in H : q \in Span(c)) \/ (\E u \in Thread : q \in M[u])
    BY DEF PagesOwned
  <2>2. ASSUME NEW c \in H, q \in Span(c), c \notin H2 PROVE q \in SmallPages(A)
    BY SMT, <2>2, HeldWhere DEF Sits
  <2> QED
    BY <2>1, <2>2, <1>2
<1>11. \A u, v \in Thread : u # v => M[u] \cap M[v] = {}
  BY DEF PagesOwned
<1> QED
  BY <1>1, <1>2, <1>4, <1>5, <1>6, <1>7, <1>8, <1>9, <1>10, <1>11 DEF PagesOwned, A2

\* free() of a small block whose arena stays: it goes on the list.
LEMMA PutBack ==
  ASSUME NEW H, NEW A, NEW L, NEW U, NEW M, Layout(H, A, L, U, M),
         NEW b \in H, Sits(b, A), NEW page, page = pg_no(b.addr), NEW d, d = A[page].desc,
         A[page].free_cnt + 1 < blocks_per_arena(d)
  PROVE  Layout(H \ {b}, Recount(A, page, A[page].free_cnt + 1),
                [L EXCEPT ![d] = <<b.addr>> \o L[d]], U, M)
<1> DEFINE n == A[page].free_cnt + 1
           A2 == Recount(A, page, n)
           L2 == [L EXCEPT ![d] = <<b.addr>> \o L[d]]
           H2 == H \ {b}
           x == b.addr
<1>1. PagesOwned(H, A, U, M) /\ BlocksOwned(H, A, L)
  BY DEF Layout
<1>2. /\ b \in Block /\ page \in Ram /\ page \in Nat /\ d \in Desc /\ x \in Nat
      /\ x \in Blocks(page, d) /\ page \in SmallPages(A)
  <2>1. b \in Block /\ page \in Ram /\ d \in Desc /\ Small(b, A)
    BY <1>1, HeldWhere
  <2> QED
    BY SMT, <2>1 DEF Small, Sits, Block, Ram
<1>3. n \in Nat /\ A[page].free_cnt \in Nat
  <2>1. A \in [Ram -> Arena \cup {NULL}] /\ A[page] # NULL
    BY <1>1, <1>2 DEF PagesOwned, SmallPages
  <2> QED
    BY SMT, <2>1, <1>2 DEF Arena
<1>4. L \in [Desc -> Seq(Nat)] /\ \A e \in Desc : Once(L[e])
  BY <1>1 DEF BlocksOwned
<1>5. x \notin Items(L[d])
  BY <1>1, <1>2 DEF BlocksOwned
<1>6. /\ L2[d] \in Seq(Nat) /\ Once(L2[d]) /\ Items(L2[d]) = Items(L[d]) \cup {x}
      /\ L2 \in [Desc -> Seq(Nat)] /\ \A e \in Desc : e # d => L2[e] = L[e]
  <2>1. <<x>> \o L[d] \in Seq(Nat) /\ Once(<<x>> \o L[d]) /\ Items(<<x>> \o L[d]) = Items(L[d]) \cup {x}
    BY <1>2, <1>4, <1>5, PushFront
  <2> QED
    BY <2>1, <1>2, <1>4
<1>7. /\ A2 \in [Ram -> Arena \cup {NULL}]
      /\ SmallPages(A2) = SmallPages(A)
      /\ A2[page].free_cnt = n
      /\ \A q \in SmallPages(A) : A2[q].desc = A[q].desc /\ A[q].desc \in Desc
      /\ \A q \in SmallPages(A) : q # page => A2[q].free_cnt = A[q].free_cnt
      /\ \A c \in H : Sits(c, A2) <=> Sits(c, A)
  <2> HIDE DEF n
  <2> QED
    BY SMT, <1>1, <1>2, <1>3, OtherCount
<1>8. PagesOwned(H2, A2, U, M)
  <2>1. H2 \subseteq Block /\ H2 \ H = {} /\ \A c \in H \ H2 : Sits(c, A)
    BY <1>1 DEF PagesOwned
  <2> HIDE DEF n
  <2> QED
    BY <2>1, <1>1, <1>2, <1>3, SmallChange
<1> HIDE DEF A2, L2
<1>9. ASSUME NEW c \in H2 PROVE c.addr # x
  <2>1. CASE Sits(c, A)
    BY <2>1, <1>1 DEF BlocksOwned
  <2>2. CASE ~Sits(c, A)
    <3>1. pg_no(c.addr) \notin SmallPages(A)
      <4>1. pg_no(c.addr) \in Span(c)
        BY <1>1, HeldWhere
      <4> QED
        BY <4>1, <2>2, <1>1 DEF PagesOwned
    <3> QED
      BY <3>1, <1>2
  <2> QED
    BY <2>1, <2>2
<1>10. ASSUME NEW e \in Desc, NEW y \in Items(L2[e])
       PROVE  /\ pg_no(y) \in SmallPages(A2) /\ A2[pg_no(y)].desc = e
              /\ y \in Blocks(pg_no(y), e) /\ \A c \in H2 : c.addr # y
  <2>1. CASE y \in Items(L[e])
    <3>1. /\ pg_no(y) \in SmallPages(A) /\ A[pg_no(y)].desc = e
          /\ y \in Blocks(pg_no(y), e) /\ \A c \in H : c.addr # y
      BY <2>1, <1>1 DEF BlocksOwned
    <3> QED
      BY <3>1, <1>7
  <2>2. CASE y \notin Items(L[e])
    <3>1. e = d /\ y = x
      BY <2>2, <1>6
    <3> QED
      BY <3>1, <1>2, <1>7, <1>9
  <2> QED
    BY <2>1, <2>2
<1>11. \A c, e \in H2 : c # e /\ Sits(c, A2) /\ Sits(e, A2) => c.addr # e.addr
  BY <1>1, <1>7 DEF BlocksOwned
<1>12. ASSUME NEW q \in SmallPages(A2)
       PROVE  LET e == A2[q].desc IN
              /\ \A y \in Blocks(q, e) : y \in Items(L2[e]) \/ \E c \in H2 : c.addr = y
              /\ Cardinality(Items(L2[e]) \cap Blocks(q, e)) = A2[q].free_cnt
              /\ A2[q].free_cnt < blocks_per_arena(e)
  <2> DEFINE e == A[q].desc
  <2>1. q \in SmallPages(A) /\ A2[q].desc = e /\ e \in Desc /\ q \in Ram
    BY <1>7 DEF SmallPages
  <2>2. /\ \A y \in Blocks(q, e) : y \in Items(L[e]) \/ \E c \in H : c.addr = y
        /\ Cardinality(Items(L[e]) \cap Blocks(q, e)) = A[q].free_cnt
        /\ A[q].free_cnt < blocks_per_arena(e)
    BY ZenonT(40), <2>1, <1>1 DEF BlocksOwned
  <2> HIDE DEF e
  <2>3. \A y \in Blocks(q, e) : y \in Items(L2[e]) \/ \E c \in H2 : c.addr = y
    <3> SUFFICES ASSUME NEW y \in Blocks(q, e) PROVE y \in Items(L2[e]) \/ \E c \in H2 : c.addr = y
      OBVIOUS
    <3>1. CASE y = x
      <4>1. pg_no(y) = q
        BY SMT, <2>1, BlockPlace DEF Ram
      <4>2. e = d
        BY <3>1, <4>1 DEF e
      <4> QED
        BY <3>1, <4>2, <1>6
    <3>2. CASE y # x
      <4>1. y \in Items(L[e]) => y \in Items(L2[e])
        BY <2>1, <1>6
      <4> QED
        BY <3>2, <4>1, <2>2
    <3> QED
      BY <3>1, <3>2
  <2>4. CASE q = page
    <3>1. e = d
      BY <2>4 DEF e
    <3>2. Items(L2[e]) \cap Blocks(q, e) = (Items(L[e]) \cap Blocks(q, e)) \cup {x}
      BY <2>4, <3>1, <1>2, <1>6
    <3>3. IsFiniteSet(Items(L[e]) \cap Blocks(q, e))
      BY ZenonT(40), <2>1, <1>4, PlacesCount
    <3>4. Cardinality(Items(L2[e]) \cap Blocks(q, e)) = A[q].free_cnt + 1
      BY SMTT(40), <3>1, <3>2, <3>3, <2>2, <1>5, FS_AddElement
    <3> QED
      BY <3>1, <3>4, <2>1, <2>3, <2>4, <1>7
  <2>5. CASE q # page
    <3>1. x \notin Blocks(q, e)
      BY <2>1, <2>5, <1>2, ArenasApart
    <3>2. Items(L2[e]) \cap Blocks(q, e) = Items(L[e]) \cap Blocks(q, e)
      BY ZenonT(40), <3>1, <2>1, <1>6
    <3> QED
      BY ZenonT(40), <3>2, <2>1, <2>2, <2>3, <2>5, <1>7
  <2> QED
    BY <2>4, <2>5
<1>13. \A e \in Desc : Once(L2[e])
  BY ZenonT(40), <1>4, <1>6
<1>14. BlocksOwned(H2, A2, L2)
  BY ZenonT(40), <1>6, <1>10, <1>11, <1>12, <1>13 DEF BlocksOwned
<1> QED
  BY <1>8, <1>14 DEF Layout, A2, L2

\* malloc() takes the first block of the list.
LEMMA TakeListed ==
  ASSUME NEW H, NEW A, NEW L, NEW U, NEW M, Layout(H, A, L, U, M),
         NEW d \in Desc, L[d] # <<>>, NEW size \in Nat \ {0}, size <= d,
         NEW x, x = Head(L[d]), NEW page, page = pg_no(x),
         NEW b, b = Live("block", x, size)
  PROVE  /\ Layout(H \cup {b}, Recount(A, page, A[page].free_cnt - 1),
                   [L EXCEPT ![d] = Tail(L[d])], U, M)
         /\ b \notin H
<1> DEFINE n == A[page].free_cnt - 1
           A2 == Recount(A, page, n)
           L2 == [L EXCEPT ![d] = Tail(L[d])]
           H2 == H \cup {b}
<1>1. PagesOwned(H, A, U, M) /\ BlocksOwned(H, A, L)
  BY DEF Layout
<1>2. L \in [Desc -> Seq(Nat)] /\ \A e \in Desc : Once(L[e])
  BY <1>1 DEF BlocksOwned
<1>3. /\ x \in Nat /\ x \in Items(L[d]) /\ Tail(L[d]) \in Seq(Nat) /\ Once(Tail(L[d]))
      /\ Items(Tail(L[d])) = Items(L[d]) \ {x}
  BY <1>2, PopFront
<1>4. /\ page \in SmallPages(A) /\ A[page].desc = d /\ x \in Blocks(page, d)
      /\ \A c \in H : c.addr # x
  BY <1>1, <1>3 DEF BlocksOwned
<1>5. page \in Ram /\ page \in Nat /\ A[page] \in Arena
  BY SMT, <1>1, <1>4 DEF SmallPages, Ram, PagesOwned
<1>6. /\ b \in Block /\ b.kind = "block" /\ b.addr = x /\ b.size = size /\ b \notin H
  <2>1. b \in Block /\ b.kind = "block" /\ b.addr = x /\ b.size = size
    BY <1>3 DEF Live, Block
  <2> QED
    BY <2>1, <1>4
<1>7. L2 \in [Desc -> Seq(Nat)] /\ L2[d] = Tail(L[d]) /\ \A e \in Desc : e # d => L2[e] = L[e]
  BY <1>2, <1>3
<1>8. /\ \A e \in Desc : Once(L2[e]) /\ Items(L2[e]) \subseteq Items(L[e])
      /\ \A e \in Desc : \A y \in Items(L[e]) : y \in Items(L2[e]) \/ (e = d /\ y = x)
      /\ x \notin Items(L2[d])
  BY <1>2, <1>3, <1>7
<1>9. ASSUME NEW q \in SmallPages(A)
      PROVE  LET e == A[q].desc IN
             /\ q \in Ram /\ e \in Desc
             /\ \A y \in Blocks(q, e) : y \in Items(L[e]) \/ \E c \in H : c.addr = y
             /\ Cardinality(Items(L[e]) \cap Blocks(q, e)) = A[q].free_cnt
             /\ A[q].free_cnt < blocks_per_arena(e)
             /\ IsFiniteSet(Items(L[e]) \cap Blocks(q, e))
  <2>1. q \in Ram /\ A[q].desc \in Desc
    BY <1>1 DEF SmallPages, PagesOwned, Arena
  <2>2. IsFiniteSet(Items(L[A[q].desc]) \cap Blocks(q, A[q].desc))
    BY ZenonT(40), <2>1, <1>2, PlacesCount
  <2> QED
    BY ZenonT(40), <2>1, <2>2, <1>1 DEF BlocksOwned
<1>10. n \in Nat
  <2>1. x \in Items(L[d]) \cap Blocks(page, d) /\ IsFiniteSet(Items(L[d]) \cap Blocks(page, d))
    BY ZenonT(40), <1>3, <1>4, <1>9
  <2>2. Cardinality(Items(L[d]) \cap Blocks(page, d)) # 0
    BY ZenonT(40), <2>1, FS_EmptySet
  <2>3. A[page].free_cnt # 0
    BY ZenonT(40), <2>2, <1>4, <1>9
  <2>4. A[page].free_cnt \in Nat
    BY <1>5 DEF Arena
  <2> QED
    BY SMT, <2>3, <2>4
<1>11. /\ A2 \in [Ram -> Arena \cup {NULL}]
       /\ SmallPages(A2) = SmallPages(A)
       /\ A2[page].free_cnt = n
       /\ \A q \in SmallPages(A) : A2[q].desc = A[q].desc /\ A[q].desc \in Desc
       /\ \A q \in SmallPages(A) : q # page => A2[q].free_cnt = A[q].free_cnt
       /\ \A c \in H : Sits(c, A2) <=> Sits(c, A)
  <2> HIDE DEF n
  <2> QED
    BY SMT, <1>1, <1>4, <1>10, OtherCount
<1>12. PagesOwned(H2, A2, U, M)
  <2>1. H2 \subseteq Block /\ H \ H2 = {}
    BY <1>1, <1>6 DEF PagesOwned
  <2>2. \A c \in H2 \ H : /\ c.kind = "block" /\ pg_no(c.addr) = page
                          /\ c.addr \in Blocks(page, A[page].desc) /\ c.size <= A[page].desc
    BY <1>4, <1>6
  <2> HIDE DEF n, H2
  <2> QED
    BY <2>1, <2>2, <1>1, <1>4, <1>10, SmallChange
<1> HIDE DEF A2, L2
<1>13. ASSUME NEW e \in Desc, NEW y \in Items(L2[e])
       PROVE  /\ pg_no(y) \in SmallPages(A2) /\ A2[pg_no(y)].desc = e
              /\ y \in Blocks(pg_no(y), e) /\ \A c \in H2 : c.addr # y
  <2>1. /\ pg_no(y) \in SmallPages(A) /\ A[pg_no(y)].desc = e
        /\ y \in Blocks(pg_no(y), e) /\ \A c \in H : c.addr # y
    BY ZenonT(40), <1>1, <1>8 DEF BlocksOwned
  <2>2. y # x
    <3>1. CASE e = d
      BY <3>1, <1>8
    <3>2. CASE e # d
      BY <3>2, <2>1, <1>4
    <3> QED
      BY <3>1, <3>2
  <2> QED
    BY <2>1, <2>2, <1>6, <1>11
<1>14. \A c, e \in H2 : c # e /\ Sits(c, A2) /\ Sits(e, A2) => c.addr # e.addr
  BY SMTT(40), <1>1, <1>4, <1>6, <1>11 DEF BlocksOwned
<1>15. ASSUME NEW q \in SmallPages(A2)
       PROVE  LET e == A2[q].desc IN
              /\ \A y \in Blocks(q, e) : y \in Items(L2[e]) \/ \E c \in H2 : c.addr = y
              /\ Cardinality(Items(L2[e]) \cap Blocks(q, e)) = A2[q].free_cnt
              /\ A2[q].free_cnt < blocks_per_arena(e)
  <2> DEFINE e == A[q].desc
  <2>1. q \in SmallPages(A) /\ A2[q].desc = e /\ e \in Desc /\ q \in Ram
    BY ZenonT(40), <1>9, <1>11
  <2>2. /\ \A y \in Blocks(q, e) : y \in Items(L[e]) \/ \E c \in H : c.addr = y
        /\ Cardinality(Items(L[e]) \cap Blocks(q, e)) = A[q].free_cnt
        /\ A[q].free_cnt < blocks_per_arena(e)
        /\ IsFiniteSet(Items(L[e]) \cap Blocks(q, e))
    BY ZenonT(40), <2>1, <1>9
  <2> HIDE DEF e
  <2>3. \A y \in Blocks(q, e) : y \in Items(L2[e]) \/ \E c \in H2 : c.addr = y
    BY <2>1, <2>2, <1>6, <1>8
  <2>4. CASE q = page
    <3>1. e = d
      BY <2>4, <1>4 DEF e
    <3>2. Items(L2[e]) \cap Blocks(q, e) = (Items(L[e]) \cap Blocks(q, e)) \ {x}
      BY <3>1, <1>3, <1>7
    <3>3. x \in Items(L[e]) \cap Blocks(q, e)
      BY <2>4, <3>1, <1>3, <1>4
    <3>4. Cardinality(Items(L2[e]) \cap Blocks(q, e)) = n
      <4> DEFINE S == Items(L[e]) \cap Blocks(q, e)
      <4>1. IsFiniteSet(S) /\ x \in S /\ Cardinality(S) = A[page].free_cnt
        BY <3>3, <2>2, <2>4
      <4>2. Items(L2[e]) \cap Blocks(q, e) = S \ {x}
        BY <3>2
      <4> HIDE DEF S
      <4>3. Cardinality(S \ {x}) = Cardinality(S) - 1
        BY ZenonT(40), <4>1, FS_RemoveElement
      <4> QED
        BY ZenonT(40), <4>1, <4>2, <4>3
    <3>5. n < blocks_per_arena(e)
      <4>1. blocks_per_arena(e) \in Nat
        BY <2>1, DescFits
      <4>2. A[page].free_cnt \in Nat /\ A[page].free_cnt < blocks_per_arena(e)
        BY <1>5, <2>2, <2>4 DEF Arena
      <4> QED
        BY SMT, <4>1, <4>2
    <3> QED
      BY <3>4, <3>5, <2>1, <2>3, <2>4, <1>11
  <2>5. CASE q # page
    <3>1. x \notin Blocks(q, e)
      BY <2>1, <2>5, <1>4, <1>5, ArenasApart
    <3>2. Items(L2[e]) \cap Blocks(q, e) = Items(L[e]) \cap Blocks(q, e)
      BY <3>1, <2>1, <1>8
    <3> QED
      BY ZenonT(40), <3>2, <2>1, <2>2, <2>3, <2>5, <1>11
  <2> QED
    BY <2>4, <2>5
<1>16. BlocksOwned(H2, A2, L2)
  BY ZenonT(40), <1>7, <1>8, <1>13, <1>14, <1>15 DEF BlocksOwned
<1> QED
  BY <1>6, <1>12, <1>16 DEF Layout, A2, L2

\* free() of the last block of an arena: the page is the thread's, and none of
\* its blocks is listed.
LEMMA Unused ==
  ASSUME NEW H, NEW A, NEW L, NEW U, NEW M, Layout(H, A, L, U, M),
         NEW t \in Thread, M[t] = {}, NEW b \in H, Sits(b, A),
         NEW page, page = pg_no(b.addr), NEW d, d = A[page].desc,
         A[page].free_cnt + 1 >= blocks_per_arena(d)
  PROVE  Layout(H \ {b}, [A EXCEPT ![page] = NULL],
                [L EXCEPT ![d] = Unlisted(<<b.addr>> \o L[d], page, d)],
                U, [M EXCEPT ![t] = {page}])
<1> DEFINE x == b.addr
           s == <<x>> \o L[d]
           A2 == [A EXCEPT ![page] = NULL]
           L2 == [L EXCEPT ![d] = Unlisted(s, page, d)]
           M2 == [M EXCEPT ![t] = {page}]
           H2 == H \ {b}
<1>1. PagesOwned(H, A, U, M) /\ BlocksOwned(H, A, L)
  BY DEF Layout
<1>2. /\ page \in Ram /\ page \in Nat /\ d \in Desc /\ x \in Nat
      /\ x \in Blocks(page, d) /\ page \in SmallPages(A) /\ Span(b) = {page}
  <2>1. b \in Block /\ page \in Ram /\ d \in Desc /\ Small(b, A) /\ Span(b) = {page}
    BY <1>1, HeldWhere
  <2> QED
    BY SMT, <2>1 DEF Small, Sits, Block, Ram
<1>3. L \in [Desc -> Seq(Nat)] /\ \A e \in Desc : Once(L[e])
  BY <1>1 DEF BlocksOwned
<1>4. x \notin Items(L[d])
  BY ZenonT(40), <1>1, <1>2 DEF BlocksOwned
<1>5. s \in Seq(Nat) /\ Once(s) /\ Items(s) = Items(L[d]) \cup {x}
  BY <1>2, <1>3, <1>4, PushFront
<1>6. Blocks(page, d) \subseteq Items(s)
  <2> DEFINE S == Items(L[d]) \cap Blocks(page, d)
  <2>1. IsFiniteSet(S) /\ x \notin S /\ S \cup {x} \subseteq Blocks(page, d)
    BY ZenonT(40), <1>2, <1>3, <1>4, PlacesCount
  <2>2. Cardinality(S) = A[page].free_cnt
    BY ZenonT(40), <1>1, <1>2 DEF BlocksOwned
  <2>3. IsFiniteSet(Blocks(page, d)) /\ Cardinality(Blocks(page, d)) = blocks_per_arena(d)
    BY <1>2, BlocksCount
  <2> HIDE DEF S
  <2>4. Cardinality(S \cup {x}) = A[page].free_cnt + 1
    BY ZenonT(40), <2>1, <2>2, FS_AddElement
  <2>5. /\ Cardinality(S \cup {x}) <= Cardinality(Blocks(page, d))
        /\ Cardinality(Blocks(page, d)) = Cardinality(S \cup {x}) => Blocks(page, d) = S \cup {x}
    BY <2>1, <2>3, FS_Subset
  <2>6. Cardinality(S) \in Nat /\ Cardinality(Blocks(page, d)) \in Nat
    BY <2>1, <2>3, FS_CardinalityType
  <2>7. Cardinality(Blocks(page, d)) = Cardinality(S \cup {x})
    BY SMT, <2>2, <2>3, <2>4, <2>5, <2>6
  <2>8. Blocks(page, d) = S \cup {x}
    BY <2>5, <2>7
  <2> QED
    BY <2>8, <1>5 DEF S
<1> HIDE DEF s
<1>7. /\ L2 \in [Desc -> Seq(Nat)] /\ \A e \in Desc : Once(L2[e])
      /\ Items(L2[d]) = Items(L[d]) \ Blocks(page, d)
      /\ \A e \in Desc : e # d => L2[e] = L[e]
  <2>1. /\ Unlisted(s, page, d) \in Seq(Nat) /\ Once(Unlisted(s, page, d))
        /\ Items(Unlisted(s, page, d)) = Items(s) \ Blocks(page, d)
    BY ZenonT(40), <1>2, <1>5, <1>6, UnlistedIs
  <2>2. Items(s) \ Blocks(page, d) = Items(L[d]) \ Blocks(page, d)
    BY <1>2, <1>5
  <2>3. L2[d] = Unlisted(s, page, d) /\ \A e \in Desc : e # d => L2[e] = L[e]
    BY <1>2, <1>3
  <2>4. L2 \in [Desc -> Seq(Nat)]
    BY ZenonT(40), <2>1, <1>3
  <2>5. Items(L2[d]) = Items(L[d]) \ Blocks(page, d)
    BY <2>1, <2>2, <2>3
  <2>6. \A e \in Desc : Once(L2[e])
    BY <2>1, <2>3, <1>3
  <2> QED
    BY <2>3, <2>4, <2>5, <2>6
<1>8. ASSUME NEW c \in H2 PROVE page \notin Span(c)
  <2>1. CASE Sits(c, A) /\ pg_no(c.addr) = page
    <3>1. c.addr \in Blocks(page, d)
      BY <2>1, <1>1, HeldWhere DEF Small
    <3>2. c.addr \in Items(L[d]) \cup {x}
      BY <3>1, <1>5, <1>6
    <3>3. c.addr # x
      BY <2>1, <1>1 DEF BlocksOwned
    <3>4. c.addr \notin Items(L[d])
      BY SMT, <1>1, <1>2 DEF BlocksOwned
    <3> QED
      BY <3>2, <3>3, <3>4
  <2>2. CASE Sits(c, A) /\ pg_no(c.addr) # page
    <3>1. Span(c) = {pg_no(c.addr)}
      BY ZenonT(40), <2>2, <1>1, HeldWhere
    <3> QED
      BY <3>1, <2>2
  <2>3. CASE ~Sits(c, A)
    BY <2>3, <1>1, <1>2 DEF PagesOwned
  <2> QED
    BY <2>1, <2>2, <2>3
<1>9. /\ A \in [Ram -> Arena \cup {NULL}] /\ M \in [Thread -> SUBSET Ram]
      /\ H \subseteq Block /\ U \subseteq Ram
  BY <1>1 DEF PagesOwned
<1>10. /\ A2 \in [Ram -> Arena \cup {NULL}]
       /\ SmallPages(A2) = SmallPages(A) \ {page}
       /\ \A q \in SmallPages(A2) : A2[q] = A[q]
  BY <1>2, <1>9 DEF SmallPages
<1>11. \A c \in H2 : /\ Sits(c, A2) <=> Sits(c, A)
                     /\ Small(c, A) => Small(c, A2)
                     /\ Big(c, A) => Big(c, A2)
  BY <1>1, <1>2, <1>8, OtherArenas
<1>12. M2 \in [Thread -> SUBSET Ram] /\ \A u \in Thread : M2[u] = IF u = t THEN {page} ELSE M[u]
  BY <1>2, <1>9
<1> HIDE DEF A2, L2, M2
<1>13. PagesOwned(H2, A2, U, M2)
  <2>1. \A u \in Thread : M[u] \subseteq U /\ page \notin M[u] /\ M[u] \cap SmallPages(A) = {}
    BY <1>1, <1>2 DEF PagesOwned
  <2>2. page \in U /\ SmallPages(A2) \subseteq U
    BY <1>1, <1>2, <1>10 DEF PagesOwned
  <2>3. \A u \in Thread : M2[u] \subseteq U /\ M2[u] \cap SmallPages(A2) = {}
    BY <2>1, <2>2, <1>10, <1>12
  <2>4. \A u, v \in Thread : u # v => M[u] \cap M[v] = {}
    BY <1>1 DEF PagesOwned
  <2>5. \A u, v \in Thread : u # v => M2[u] \cap M2[v] = {}
    BY ZenonT(40), <2>1, <2>4, <1>12
  <2>6. \A u \in Thread, c \in H2 : M2[u] \cap Span(c) = {}
    BY SMT, <1>1, <1>8, <1>12 DEF PagesOwned
  <2>7. \A c \in H2 : WholePages(c) \/ Small(c, A2) \/ Big(c, A2)
    BY <1>1, <1>11 DEF PagesOwned
  <2>8. \A c \in H2 : Span(c) \subseteq U
    BY <1>1 DEF PagesOwned
  <2>9. \A c \in H2 : ~Sits(c, A2) => Span(c) \cap SmallPages(A2) = {}
    BY <1>1, <1>10, <1>11 DEF PagesOwned
  <2>10. \A c, e \in H2 : c # e /\ ~Sits(c, A2) /\ ~Sits(e, A2) => Span(c) \cap Span(e) = {}
    BY <1>1, <1>11 DEF PagesOwned
  <2>11. ASSUME NEW q \in U
         PROVE  q \in SmallPages(A2) \/ (\E c \in H2 : q \in Span(c)) \/ (\E u \in Thread : q \in M2[u])
    <3>1. q \in SmallPages(A) \/ (\E c \in H : q \in Span(c)) \/ (\E u \in Thread : q \in M[u])
      BY <1>1 DEF PagesOwned
    <3>2. CASE q = page
      BY <3>2, <1>12
    <3>3. CASE q # page
      <4>1. ASSUME NEW u \in Thread, q \in M[u] PROVE q \in M2[u]
        BY <4>1, <1>12
      <4>2. ASSUME NEW c \in H, q \in Span(c) PROVE c \in H2
        BY <4>2, <3>3, <1>2
      <4>3. q \in SmallPages(A) => q \in SmallPages(A2)
        BY <3>3, <1>10
      <4> QED
        BY <3>1, <4>1, <4>2, <4>3
    <3> QED
      BY <3>2, <3>3
  <2>12. H2 \subseteq Block
    BY <1>9
  <2> QED
    BY <1>9, <1>10, <1>12, <2>2, <2>3, <2>5, <2>6, <2>7, <2>8, <2>9, <2>10, <2>11, <2>12
       DEF PagesOwned
<1>14. ASSUME NEW e \in Desc, NEW y \in Items(L2[e])
       PROVE  /\ pg_no(y) \in SmallPages(A2) /\ A2[pg_no(y)].desc = e
              /\ y \in Blocks(pg_no(y), e) /\ \A c \in H2 : c.addr # y
  <2>1. y \in Items(L[e]) /\ (e = d => y \notin Blocks(page, d))
    BY ZenonT(40), <1>7
  <2>2. /\ pg_no(y) \in SmallPages(A) /\ A[pg_no(y)].desc = e
        /\ y \in Blocks(pg_no(y), e) /\ \A c \in H : c.addr # y
    BY <2>1, <1>1 DEF BlocksOwned
  <2>3. pg_no(y) # page
    BY <2>1, <2>2
  <2> QED
    BY <2>2, <2>3, <1>10
<1>15. \A c, e \in H2 : c # e /\ Sits(c, A2) /\ Sits(e, A2) => c.addr # e.addr
  BY <1>1, <1>11 DEF BlocksOwned
<1>16. ASSUME NEW q \in SmallPages(A2)
       PROVE  LET e == A2[q].desc IN
              /\ \A y \in Blocks(q, e) : y \in Items(L2[e]) \/ \E c \in H2 : c.addr = y
              /\ Cardinality(Items(L2[e]) \cap Blocks(q, e)) = A2[q].free_cnt
              /\ A2[q].free_cnt < blocks_per_arena(e)
  <2> DEFINE e == A[q].desc
  <2>1. q \in SmallPages(A) /\ q # page /\ A2[q] = A[q] /\ q \in Ram /\ e \in Desc
    <3>1. q \in SmallPages(A) /\ q # page /\ A2[q] = A[q] /\ q \in Ram /\ A[q] # NULL /\ e # NULL
      BY <1>10 DEF SmallPages
    <3> QED
      BY <3>1, <1>9 DEF Arena
  <2>2. /\ \A y \in Blocks(q, e) : y \in Items(L[e]) \/ \E c \in H : c.addr = y
        /\ Cardinality(Items(L[e]) \cap Blocks(q, e)) = A[q].free_cnt
        /\ A[q].free_cnt < blocks_per_arena(e)
    BY ZenonT(40), <2>1, <1>1 DEF BlocksOwned
  <2>3. A2[q].desc = e
    BY <2>1
  <2> HIDE DEF e
  <2>4. ASSUME NEW y \in Blocks(q, e) PROVE y \notin Blocks(page, d) /\ y # x
    <3>1. y \notin Blocks(page, d)
      <4> SUFFICES ASSUME y \in Blocks(page, d) PROVE FALSE
        OBVIOUS
      <4>1. q = page
        BY <2>1, <1>2, ArenasApart
      <4> QED
        BY <4>1, <2>1
    <3>2. x \in Blocks(page, d)
      BY <1>2
    <3> QED
      BY <3>1, <3>2
  <2>5. \A y \in Blocks(q, e) : y \in Items(L[e]) <=> y \in Items(L2[e])
    BY <2>1, <2>4, <1>7
  <2>6. Items(L2[e]) \cap Blocks(q, e) = Items(L[e]) \cap Blocks(q, e)
    BY <2>5
  <2>7. \A y \in Blocks(q, e) : y \in Items(L2[e]) \/ \E c \in H2 : c.addr = y
    BY <2>2, <2>4, <2>5
  <2> QED
    BY ZenonT(40), <2>1, <2>2, <2>3, <2>6, <2>7
<1>17. BlocksOwned(H2, A2, L2)
  BY ZenonT(40), <1>7, <1>14, <1>15, <1>16 DEF BlocksOwned
<1> QED
  BY <1>13, <1>17 DEF Layout, A2, L2, M2, s

\* The blocks that malloc() puts on the list of a new arena.
NewList(page, d) == [i \in 1 .. blocks_per_arena(d) |-> arena_to_block(page, d, i - 1)]

\* They are the arena's, each once.
LEMMA NewBlocks ==
  ASSUME NEW page \in Nat, NEW d \in Desc, NEW s, s = NewList(page, d)
  PROVE  /\ s \in Seq(Nat) /\ s # <<>> /\ Once(s)
         /\ Items(s) = Blocks(page, d)
         /\ Head(s) = arena_to_block(page, d, 0)
<1> DEFINE n == blocks_per_arena(d)
<1>1. n \in Nat \ {0}
  BY DescFits
<1>2. \A i \in 1 .. n : i - 1 \in 0 .. n - 1 /\ i - 1 \in Nat
  BY SMT, <1>1
<1>3. \A i \in 1 .. n : s[i] = arena_to_block(page, d, i - 1)
  BY DEF NewList
<1>4. \A i \in 1 .. n : s[i] \in Blocks(page, d)
  BY <1>2, <1>3 DEF Blocks
<1>5. \A i \in 1 .. n : s[i] \in Nat
  BY <1>4, BlockPlace
<1>6. s \in [1 .. n -> Nat]
  BY <1>5 DEF NewList
<1> HIDE DEF n
<1>7. s \in Seq(Nat) /\ Len(s) = n
  <2>1. n \in Nat
    BY <1>1
  <2>2. s = [i \in 1 .. n |-> s[i]]
    BY <1>6
  <2>3. [i \in 1 .. n |-> s[i]] \in Seq(Nat) /\ Len([i \in 1 .. n |-> s[i]]) = n
    BY SMT, <2>1, <1>5
  <2> QED
    BY <2>2, <2>3
<1>8. s # <<>>
  BY <1>1, <1>7
<1>9. Once(s)
  <2> SUFFICES ASSUME NEW i \in 1 .. n, NEW j \in 1 .. n, s[i] = s[j] PROVE i = j
    BY <1>7 DEF Once
  <2>1. arena_to_block(page, d, i - 1) = arena_to_block(page, d, j - 1)
    BY <1>3
  <2>2. i - 1 = j - 1
    BY <2>1, <1>2, BlockIndex
  <2> QED
    BY SMT, <2>2, <1>1
<1>10. Items(s) = Blocks(page, d)
  <2>1. Items(s) \subseteq Blocks(page, d)
    BY <1>4, <1>7 DEF Items
  <2>2. ASSUME NEW y \in Blocks(page, d) PROVE y \in Items(s)
    <3>1. PICK k \in 0 .. n - 1 : y = arena_to_block(page, d, k)
      BY DEF Blocks, n
    <3>2. k + 1 \in 1 .. n /\ (k + 1) - 1 = k
      BY SMT, <1>1
    <3>3. s[k + 1] = y
      BY <3>1, <3>2, <1>3
    <3> QED
      BY <3>2, <3>3, <1>7 DEF Items
  <2> QED
    BY <2>1, <2>2
<1>11. Head(s) = arena_to_block(page, d, 0)
  <2>1. Head(s) = s[1]
    BY SMT, <1>7, <1>8
  <2>2. 1 \in 1 .. n /\ 1 - 1 = 0
    BY SMT, <1>1
  <2>3. s[1] = arena_to_block(page, d, 1 - 1)
    BY <2>2, <1>3
  <2> QED
    BY <2>1, <2>2, <2>3
<1> QED
  BY <1>7, <1>8, <1>9, <1>10, <1>11

\* b is the first block of a new arena on the page.
FirstOf(page, d, size, s, b, new) ==
  /\ page \in Ram /\ d \in Desc /\ size \in Nat \ {0} /\ size <= d
  /\ s = NewList(page, d) /\ b = Live("block", Head(s), size)
  /\ new = [desc |-> d, free_cnt |-> blocks_per_arena(d) - 1]

\* malloc() makes the thread's page an arena; its first block is taken, the
\* others are listed.
LEMMA NewArena ==
  ASSUME NEW H, NEW A, NEW L, NEW U, NEW M, Layout(H, A, L, U, M),
         NEW t \in Thread, NEW page, NEW d, NEW size, NEW s, NEW b, NEW new,
         FirstOf(page, d, size, s, b, new), M[t] = {page}, L[d] = <<>>
  PROVE  /\ Layout(H \cup {b}, [A EXCEPT ![page] = new],
                   [L EXCEPT ![d] = Tail(s)], U, [M EXCEPT ![t] = {}])
         /\ b \notin H
<1> DEFINE x == Head(s)
           n == blocks_per_arena(d)
           A2 == [A EXCEPT ![page] = new]
           L2 == [L EXCEPT ![d] = Tail(s)]
           M2 == [M EXCEPT ![t] = {}]
           H2 == H \cup {b}
<1> page \in Ram /\ d \in Desc /\ size \in Nat \ {0} /\ size <= d
  BY DEF FirstOf
<1> s = NewList(page, d) /\ b = Live("block", Head(s), size)
  BY DEF FirstOf
<1>1. PagesOwned(H, A, U, M) /\ BlocksOwned(H, A, L)
  BY DEF Layout
<1>2. page \in Nat /\ d # NULL /\ d \in Nat /\ n \in Nat \ {0}
  BY SMT, DescFits DEF Ram
<1>3. /\ s \in Seq(Nat) /\ s # <<>> /\ Once(s) /\ Items(s) = Blocks(page, d)
  BY <1>2, NewBlocks
<1>4. /\ x \in Nat /\ x \in Blocks(page, d) /\ Tail(s) \in Seq(Nat) /\ Once(Tail(s))
      /\ Items(Tail(s)) = Blocks(page, d) \ {x}
  BY <1>3, PopFront
<1> HIDE DEF x
<1>5. b \in Block /\ b.kind = "block" /\ b.addr = x /\ b.size = size
  BY <1>4 DEF Live, Block, x
<1>6. pg_no(x) = page /\ Span(b) = {page}
  BY SMT, <1>2, <1>4, <1>5, SmallSpan
<1>7. /\ A \in [Ram -> Arena \cup {NULL}] /\ M \in [Thread -> SUBSET Ram]
      /\ H \subseteq Block /\ U \subseteq Ram
      /\ L \in [Desc -> Seq(Nat)] /\ \A e \in Desc : Once(L[e])
  BY <1>1 DEF PagesOwned, BlocksOwned
<1>8. page \in U /\ page \notin SmallPages(A) /\ \A c \in H : page \notin Span(c)
  BY <1>1 DEF PagesOwned
<1>9. ASSUME NEW c \in H PROVE pg_no(c.addr) # page /\ c.addr # x
  <2>1. pg_no(c.addr) \in Span(c)
    BY <1>1, HeldWhere
  <2> QED
    BY <2>1, <1>6, <1>8
<1>10. b \notin H
  BY <1>5, <1>9
<1>11. new \in Arena /\ new # NULL /\ new.desc = d /\ new.free_cnt = n - 1
  <2>1. n - 1 \in Nat
    BY SMT, <1>2
  <2>2. new \in Arena /\ new.desc = d /\ new.free_cnt = n - 1
    BY <2>1 DEF Arena, FirstOf
  <2>3. new # NULL
    BY SMT, <2>2, MemoryAssumption DEF Arena
  <2> QED
    BY <2>2, <2>3
<1>12. A2[page] = new /\ \A q \in Ram : q # page => A2[q] = A[q]
  BY <1>7
<1>13. /\ A2 \in [Ram -> Arena \cup {NULL}]
       /\ SmallPages(A2) = SmallPages(A) \cup {page}
       /\ \A q \in SmallPages(A) : A2[q] = A[q]
  <2>1. A2 \in [Ram -> Arena \cup {NULL}]
    BY <1>7, <1>11
  <2> HIDE DEF A2
  <2>2. SmallPages(A2) = SmallPages(A) \cup {page}
    BY <1>2, <1>11, <1>12 DEF SmallPages
  <2>3. \A q \in SmallPages(A) : A2[q] = A[q]
    BY <1>8, <1>12 DEF SmallPages
  <2> QED
    BY <2>1, <2>2, <2>3
<1>14. \A c \in H : /\ Sits(c, A2) <=> Sits(c, A)
                    /\ Small(c, A) => Small(c, A2)
                    /\ Big(c, A) => Big(c, A2)
  BY <1>1, <1>8, OtherArenas
<1>15. M2 \in [Thread -> SUBSET Ram] /\ \A u \in Thread : M2[u] = IF u = t THEN {} ELSE M[u]
  BY <1>7
<1>16. /\ L2 \in [Desc -> Seq(Nat)] /\ L2[d] = Tail(s)
       /\ \A e \in Desc : e # d => L2[e] = L[e]
  BY <1>4, <1>7
<1> HIDE DEF A2, L2, M2
<1>17. Sits(b, A2) /\ Small(b, A2)
  BY <1>4, <1>5, <1>6, <1>11, <1>12, <1>13 DEF Sits, Small
<1>18. PagesOwned(H2, A2, U, M2)
  <2>1. \A u \in Thread : M[u] \subseteq U /\ M[u] \cap SmallPages(A) = {}
    BY <1>1 DEF PagesOwned
  <2>2. \A u, v \in Thread : u # v => M[u] \cap M[v] = {}
    BY <1>1 DEF PagesOwned
  <2>3. \A u \in Thread : page \notin M2[u]
    BY <2>2, <1>15
  <2>4. \A u \in Thread : M2[u] \subseteq U /\ M2[u] \cap SmallPages(A2) = {}
    BY <2>1, <2>3, <1>13, <1>15
  <2>5. \A u, v \in Thread : u # v => M2[u] \cap M2[v] = {}
    BY <2>2, <1>15
  <2>6. \A u \in Thread, c \in H2 : M2[u] \cap Span(c) = {}
    <3>1. \A u \in Thread, c \in H : M[u] \cap Span(c) = {}
      BY <1>1 DEF PagesOwned
    <3> QED
      BY SMTT(40), <3>1, <2>3, <1>6, <1>15
  <2>7. \A c \in H2 : WholePages(c) \/ Small(c, A2) \/ Big(c, A2)
    BY <1>1, <1>14, <1>17 DEF PagesOwned
  <2>8. SmallPages(A2) \subseteq U /\ \A c \in H2 : Span(c) \subseteq U
    BY <1>1, <1>6, <1>8, <1>13 DEF PagesOwned
  <2>9. \A c \in H2 : ~Sits(c, A2) => Span(c) \cap SmallPages(A2) = {}
    BY <1>1, <1>8, <1>13, <1>14, <1>17 DEF PagesOwned
  <2>10. \A c, e \in H2 : c # e /\ ~Sits(c, A2) /\ ~Sits(e, A2) => Span(c) \cap Span(e) = {}
    BY <1>1, <1>14, <1>17 DEF PagesOwned
  <2>11. ASSUME NEW q \in U
         PROVE  q \in SmallPages(A2) \/ (\E c \in H2 : q \in Span(c)) \/ (\E u \in Thread : q \in M2[u])
    <3>1. q \in SmallPages(A) \/ (\E c \in H : q \in Span(c)) \/ (\E u \in Thread : q \in M[u])
      BY <1>1 DEF PagesOwned
    <3>2. ASSUME NEW u \in Thread, q \in M[u] PROVE q \in M2[u] \/ q = page
      BY <3>2, <1>15
    <3> QED
      BY <3>1, <3>2, <1>13
  <2>12. H2 \subseteq Block
    BY <1>5, <1>7
  <2> QED
    BY <1>7, <1>13, <1>15, <2>4, <2>5, <2>6, <2>7, <2>8, <2>9, <2>10, <2>11, <2>12
       DEF PagesOwned
<1>19. ASSUME NEW e \in Desc, NEW y \in Items(L2[e])
       PROVE  /\ pg_no(y) \in SmallPages(A2) /\ A2[pg_no(y)].desc = e
              /\ y \in Blocks(pg_no(y), e) /\ \A c \in H2 : c.addr # y
  <2>1. CASE e = d
    <3>1. y \in Blocks(page, d) /\ y # x
      BY <2>1, <1>4, <1>16
    <3>2. pg_no(y) = page
      BY <3>1, <1>2, BlockPlace
    <3>3. \A c \in H2 : c.addr # y
      BY <3>1, <3>2, <1>5, <1>9
    <3> QED
      BY <2>1, <3>1, <3>2, <3>3, <1>11, <1>12, <1>13
  <2>2. CASE e # d
    <3>1. y \in Items(L[e])
      BY <2>2, <1>16
    <3>2. /\ pg_no(y) \in SmallPages(A) /\ A[pg_no(y)].desc = e
          /\ y \in Blocks(pg_no(y), e) /\ \A c \in H : c.addr # y
      BY <3>1, <1>1 DEF BlocksOwned
    <3>3. y # x
      BY <3>2, <1>6, <1>8
    <3> QED
      BY <3>2, <3>3, <1>5, <1>13
  <2> QED
    BY <2>1, <2>2
<1>20. \A c, e \in H2 : c # e /\ Sits(c, A2) /\ Sits(e, A2) => c.addr # e.addr
  BY ZenonT(40), <1>1, <1>5, <1>9, <1>14 DEF BlocksOwned
<1>21. ASSUME NEW q \in SmallPages(A2)
       PROVE  LET e == A2[q].desc IN
              /\ \A y \in Blocks(q, e) : y \in Items(L2[e]) \/ \E c \in H2 : c.addr = y
              /\ Cardinality(Items(L2[e]) \cap Blocks(q, e)) = A2[q].free_cnt
              /\ A2[q].free_cnt < blocks_per_arena(e)
  <2>1. CASE q = page
    <3>1. A2[q].desc = d /\ A2[q].free_cnt = n - 1
      BY <2>1, <1>11, <1>12
    <3>2. \A y \in Blocks(q, d) : y \in Items(L2[d]) \/ \E c \in H2 : c.addr = y
      BY <2>1, <1>4, <1>5, <1>16
    <3>3. Items(L2[d]) \cap Blocks(q, d) = Blocks(page, d) \ {x}
      BY <2>1, <1>4, <1>16
    <3>4. IsFiniteSet(Blocks(page, d)) /\ Cardinality(Blocks(page, d)) = n
      BY <1>2, BlocksCount
    <3>5. Cardinality(Blocks(page, d) \ {x}) = Cardinality(Blocks(page, d)) - 1
      BY ZenonT(40), <3>4, <1>4, FS_RemoveElement
    <3>6. Cardinality(Items(L2[d]) \cap Blocks(q, d)) = n - 1
      BY ZenonT(40), <3>3, <3>4, <3>5
    <3>7. n - 1 < n
      BY SMT, <1>2
    <3> QED
      BY <3>1, <3>2, <3>6, <3>7
  <2>2. CASE q # page
    <3> DEFINE e == A[q].desc
    <3>1. q \in SmallPages(A) /\ A2[q] = A[q] /\ q \in Ram /\ e \in Desc
      <4>1. q \in SmallPages(A) /\ A2[q] = A[q]
        BY <2>2, <1>13
      <4>2. q \in Ram /\ A[q] # NULL /\ e # NULL
        BY <4>1 DEF SmallPages
      <4> QED
        BY <4>1, <4>2, <1>7 DEF Arena
    <3>2. /\ \A y \in Blocks(q, e) : y \in Items(L[e]) \/ \E c \in H : c.addr = y
          /\ Cardinality(Items(L[e]) \cap Blocks(q, e)) = A[q].free_cnt
          /\ A[q].free_cnt < blocks_per_arena(e)
      BY ZenonT(40), <3>1, <1>1 DEF BlocksOwned
    <3>3. A2[q].desc = e
      BY <3>1
    <3> HIDE DEF e
    <3>4. \A y \in Blocks(q, e) : y \in Items(L[e]) <=> y \in Items(L2[e])
      <4>1. CASE e = d
        <5>1. Items(L[e]) = {}
          BY SMTT(40), <4>1 DEF Items
        <5>2. \A y \in Blocks(q, e) : y \notin Blocks(page, d)
          BY <2>2, <3>1, ArenasApart
        <5> QED
          BY <4>1, <5>1, <5>2, <1>4, <1>16
      <4>2. CASE e # d
        BY <4>2, <3>1, <1>16
      <4> QED
        BY ZenonT(40), <4>1, <4>2
    <3>5. Items(L2[e]) \cap Blocks(q, e) = Items(L[e]) \cap Blocks(q, e)
      BY <3>4
    <3>6. \A y \in Blocks(q, e) : y \in Items(L2[e]) \/ \E c \in H2 : c.addr = y
      BY <3>2, <3>4
    <3> QED
      BY ZenonT(40), <3>1, <3>2, <3>3, <3>5, <3>6
  <2> QED
    BY <2>1, <2>2
<1>22. \A e \in Desc : Once(L2[e])
  BY ZenonT(40), <1>4, <1>7, <1>16
<1>23. BlocksOwned(H2, A2, L2)
  BY ZenonT(40), <1>16, <1>19, <1>20, <1>21, <1>22 DEF BlocksOwned
<1> QED
  BY <1>10, <1>18, <1>23 DEF Layout, A2, L2, M2

-----------------------------------------------------------------------------
(* What a step of t leaves alone *)

\* The old block and the new one of t's call change hands, or none does.
LEMMA HandSame ==
  ASSUME NEW l, NEW f, NEW l2, NEW f2, Apart(l, f), NEW t \in Thread,
         \A u \in Thread \ {t} : f2[u] = f[u],
         l2 \cap f2[t] = {}, l2 \cup f2[t] = l \cup f[t]
  PROVE  All(l2, f2) = All(l, f) /\ Apart(l2, f2)
<1>1. \A u \in Thread \ {t} : l \cap f[u] = {} /\ f[t] \cap f[u] = {}
  BY DEF Apart
<1>2. \A u \in Thread \ {t} : l2 \cap f2[u] = {} /\ f2[t] \cap f2[u] = {}
  BY <1>1
<1>3. Apart(l2, f2)
  BY SMT, <1>2 DEF Apart
<1>4. \A b : b \in All(l2, f2) <=> b \in l2 \cup f2[t] \/ \E u \in Thread \ {t} : b \in f[u]
  BY DEF All
<1>5. \A b : b \in All(l, f) <=> b \in l \cup f[t] \/ \E u \in Thread \ {t} : b \in f[u]
  BY DEF All
<1> QED
  BY <1>3, <1>4, <1>5

\* One block more is held.
LEMMA HandNew ==
  ASSUME NEW l, NEW f, NEW l2, NEW f2, Apart(l, f), NEW t \in Thread,
         \A u \in Thread \ {t} : f2[u] = f[u], NEW b, b \notin All(l, f),
         l2 \cap f2[t] = {}, l2 \cup f2[t] = (l \cup f[t]) \cup {b}
  PROVE  All(l2, f2) = All(l, f) \cup {b} /\ Apart(l2, f2)
<1>1. \A u \in Thread \ {t} : l \cap f[u] = {} /\ f[t] \cap f[u] = {} /\ b \notin f[u]
  BY DEF Apart, All
<1>2. \A u \in Thread \ {t} : l2 \cap f2[u] = {} /\ f2[t] \cap f2[u] = {}
  BY SMT, <1>1
<1>3. Apart(l2, f2)
  BY SMT, <1>2 DEF Apart
<1>4. \A c : c \in All(l2, f2) <=> c \in l2 \cup f2[t] \/ \E u \in Thread \ {t} : c \in f[u]
  BY DEF All
<1>5. \A c : c \in All(l, f) <=> c \in l \cup f[t] \/ \E u \in Thread \ {t} : c \in f[u]
  BY DEF All
<1> QED
  BY <1>3, <1>4, <1>5

\* One block of the caller's, or of t's call, is held no more.
LEMMA HandBack ==
  ASSUME NEW l, NEW f, NEW l2, NEW f2, Apart(l, f), NEW t \in Thread,
         \A u \in Thread \ {t} : f2[u] = f[u], NEW b \in l \cup f[t],
         l2 \cap f2[t] = {}, l2 \cup f2[t] = (l \cup f[t]) \ {b}
  PROVE  All(l2, f2) = All(l, f) \ {b} /\ Apart(l2, f2)
<1>1. \A u \in Thread \ {t} : l \cap f[u] = {} /\ f[t] \cap f[u] = {} /\ b \notin f[u]
  BY DEF Apart
<1>2. \A u \in Thread \ {t} : l2 \cap f2[u] = {} /\ f2[t] \cap f2[u] = {}
  BY <1>1
<1>3. Apart(l2, f2)
  BY SMT, <1>2 DEF Apart
<1>4. \A c : c \in All(l2, f2) <=> c \in l2 \cup f2[t] \/ \E u \in Thread \ {t} : c \in f[u]
  BY DEF All
<1>5. \A c : c \in All(l, f) <=> c \in l \cup f[t] \/ \E u \in Thread \ {t} : c \in f[u]
  BY DEF All
<1> QED
  BY <1>1, <1>3, <1>4, <1>5

\* The other threads' calls stay where they are.
Others(t) == \A u \in Thread \ {t} : pc'[u] = pc[u] /\ call'[u] = call[u] /\ room'[u] = room[u]

\* So do the blocks and pages they have.
LEMMA OthersHave ==
  ASSUME NEW t \in Thread, Others(t)
  PROVE  /\ \A u \in Thread \ {t} : Has'[u] = Has[u]
         /\ Mine' = [Mine EXCEPT ![t] = Mine'[t]]
<1>1. ASSUME NEW u \in Thread \ {t} PROVE Has'[u] = Has[u] /\ Mine'[u] = Mine[u]
  <2>1. pc'[u] = pc[u] /\ call'[u] = call[u]
    BY DEF Others
  <2>2. Has'[u] = Has[u]
    BY <2>1 DEF Has, HasOld, New
  <2>3. Mine'[u] = Mine[u]
    BY <2>1 DEF Mine
  <2> QED
    BY <2>2, <2>3
<1>2. DOMAIN Mine = Thread /\ Mine = [u \in Thread |-> Mine[u]]
  BY DEF Mine
<1>3. Mine' = [u \in Thread |-> Mine'[u]]
  BY DEF Mine
<1>4. Mine' = [u \in Thread |-> IF u = t THEN Mine'[t] ELSE Mine[u]]
  BY <1>1, <1>3
<1> QED
  BY <1>1, <1>2, <1>4

\* The pages of a state.
LEMMA UsedAreMarked ==
  UsedPages = Marked(used_map) /\ UsedPages' = Marked(used_map')
  BY DEF UsedPages, Marked

\* A step of t keeps the calls in order, if it does for t's own, and leaves the
\* arenas of the blocks that others free.
LEMMA CallsKept ==
  ASSUME CallsOK, NEW t \in Thread, Others(t),
         pc' \in [Thread -> Place], DOMAIN call' = Thread, room' \in [Thread -> BOOLEAN],
         pc'[t] # "idle" => call'[t] \in Calls, Place_OK(t)',
         \A u \in Thread \ {t} : pc[u] = "free" =>
           LET page == pg_no(call[u].pos)
           IN page \in SmallPages(arena') /\ arena'[page].desc = arena[page].desc
  PROVE  CallsOK'
<1>1. ASSUME NEW u \in Thread \ {t} PROVE (pc'[u] # "idle" => call'[u] \in Calls) /\ Place_OK(u)'
  <2>1. pc'[u] = pc[u] /\ call'[u] = call[u]
    BY DEF Others
  <2>2. Place_OK(u) /\ (pc[u] # "idle" => call[u] \in Calls)
    BY DEF CallsOK
  <2>3. Place_OK(u)'
    BY <2>1, <2>2 DEF Place_OK, New
  <2> QED
    BY <2>1, <2>2, <2>3
<1>2. \A u \in Thread : (pc'[u] # "idle" => call'[u] \in Calls) /\ Place_OK(u)'
  BY <1>1
<1> QED
  BY <1>2 DEF CallsOK

\* The locks, if t's own change as its place in the call does.
LEMMA LocksKept ==
  ASSUME CallsOK, LocksOK, NEW t \in Thread, Others(t),
         used_map' \in [Pool -> SUBSET Int],
         \A p \in Pool : used_map'[p] \subseteq Bits(0, bitmap_size(p)),
         pool_lock' \in [Pool -> Thread \cup {NULL}],
         desc_lock' \in [Desc -> Thread \cup {NULL}],
         \A p \in Pool : pool_lock'[p] = t <=> pc'[t] = "scan" /\ call'[t].pool = p,
         \A p \in Pool : pool_lock'[p] # pool_lock[p] =>
           {pool_lock[p], pool_lock'[p]} \subseteq {t, NULL},
         \A d \in Desc : desc_lock'[d] = t <=>
           pc'[t] \in {"pool", "scan", "got", "clear"} /\ call'[t].desc = d,
         \A d \in Desc : desc_lock'[d] # desc_lock[d] =>
           {desc_lock[d], desc_lock'[d]} \subseteq {t, NULL},
         \A d \in Desc : free_list'[d] # free_list[d] => desc_lock[d] \in {t, NULL},
         pc'[t] \in {"pool", "scan", "got"} /\ call'[t].desc # NULL =>
           free_list'[call'[t].desc] = <<>>
  PROVE  LocksOK'
<1>1. NULL \notin Thread
  BY MemoryAssumption
<1>2. ASSUME NEW u \in Thread \ {t}
      PROVE  /\ \A p \in Pool : pool_lock'[p] = u <=> pool_lock[p] = u
             /\ \A d \in Desc : desc_lock'[d] = u <=> desc_lock[d] = u
  BY ZenonT(40), <1>1
<1>3. ASSUME NEW u \in Thread
      PROVE  /\ \A p \in Pool : pool_lock'[p] = u <=> pc'[u] = "scan" /\ call'[u].pool = p
             /\ \A d \in Desc : desc_lock'[d] = u <=>
                  pc'[u] \in {"pool", "scan", "got", "clear"} /\ call'[u].desc = d
             /\ pc'[u] \in {"pool", "scan", "got"} /\ call'[u].desc # NULL =>
                  free_list'[call'[u].desc] = <<>>
  <2>1. CASE u = t
    BY <2>1
  <2>2. CASE u # t
    <3>1. pc'[u] = pc[u] /\ call'[u] = call[u] /\ u \in Thread \ {t}
      BY <2>2 DEF Others
    <3>2. /\ \A p \in Pool : pool_lock[p] = u <=> pc[u] = "scan" /\ call[u].pool = p
          /\ \A d \in Desc : desc_lock[d] = u <=>
               pc[u] \in {"pool", "scan", "got", "clear"} /\ call[u].desc = d
          /\ pc[u] \in {"pool", "scan", "got"} /\ call[u].desc # NULL =>
               free_list[call[u].desc] = <<>>
      BY ZenonT(40) DEF LocksOK, TypeOK
    <3>3. ASSUME pc[u] \in {"pool", "scan", "got"}, call[u].desc # NULL
          PROVE  free_list'[call[u].desc] = <<>>
      <4>1. call[u].desc \in Desc
        BY <3>3 DEF CallsOK, Calls
      <4>2. desc_lock[call[u].desc] = u
        BY <3>2, <3>3, <4>1
      <4>3. desc_lock[call[u].desc] \notin {t, NULL}
        BY <2>2, <4>2, <1>1
      <4> QED
        BY <3>2, <3>3, <4>1, <4>3
    <3> QED
      BY SMT, <3>1, <3>2, <3>3, <1>2
  <2> QED
    BY <2>1, <2>2
<1>4. TypeOK'
  BY <1>3 DEF TypeOK
<1> QED
  BY <1>3, <1>4 DEF LocksOK

\* The room ahead of the scans, if t marks only pages of a pool it has locked.
LEMMA RoomKept ==
  ASSUME CallsOK, LocksOK, RoomAhead, NEW t \in Thread, Others(t),
         \A p \in Pool : used_map'[p] \subseteq used_map[p] \/ pool_lock[p] = t,
         pc'[t] = "scan" /\ room'[t] => Ahead(t)',
         pc'[t] = "got" /\ call'[t].pos = NULL => ~room'[t]
  PROVE  RoomAhead'
<1>1. ASSUME NEW u \in Thread \ {t}
      PROVE  /\ pc'[u] = "scan" /\ room'[u] => Ahead(u)'
             /\ pc'[u] = "got" /\ call'[u].pos = NULL => ~room'[u]
  <2>1. pc'[u] = pc[u] /\ call'[u] = call[u] /\ room'[u] = room[u]
    BY DEF Others
  <2>2. ASSUME pc[u] = "scan", room[u] PROVE Ahead(u)'
    <3> DEFINE p == call[u].pool
               cnt == call[u].cnt
    <3>1. PICK i \in FreeWindow(p, cnt) : call[u].pos <= i
      BY <2>2 DEF RoomAhead, Ahead
    <3>2. p \in Pool
      BY <2>2 DEF CallsOK, Calls
    <3>3. pool_lock[p] # t
      BY <2>2, <3>2 DEF LocksOK, TypeOK
    <3>4. used_map'[p] \subseteq used_map[p]
      BY <3>2, <3>3
    <3>5. i \in Window(p, cnt) /\ Bits(i, cnt) \cap used_map'[p] = {}
      BY <3>4 DEF FreeWindow
    <3>6. i \in {j \in Window(p, cnt) : Bits(j, cnt) \cap used_map'[p] = {}}
      BY <3>5
    <3> QED
      BY <2>1, <3>1, <3>6 DEF Ahead, FreeWindow
  <2> QED
    BY <2>1, <2>2 DEF RoomAhead, FailsOnlyWhenFull
<1> QED
  BY <1>1 DEF RoomAhead, FailsOnlyWhenFull

\* A state is in order if its parts are.
LEMMA InOrderNow ==
  ASSUME Apart(live', Has'),
         Layout(All(live', Has'), arena', free_list', Marked(used_map'), Mine')
  PROVE  InOrder'
<1>1. Held' = All(live', Has') /\ UsedPages' = Marked(used_map')
  BY UsedAreMarked DEF Held
<1> QED
  BY <1>1 DEF InOrder

\* A step that moves no block and no page keeps the layout.
LEMMA InOrderSame ==
  ASSUME InOrder, NEW t \in Thread, Others(t),
         UNCHANGED <<used_map, arena, free_list>>,
         live' \cap Has'[t] = {}, live' \cup Has'[t] = live \cup Has[t], Mine'[t] = Mine[t]
  PROVE  InOrder'
<1>1. Apart(live, Has) /\ Layout(All(live, Has), arena, free_list, Marked(used_map), Mine)
  BY UsedAreMarked DEF InOrder, Held
<1>2. All(live', Has') = All(live, Has) /\ Apart(live', Has')
  BY ZenonT(40), <1>1, OthersHave, HandSame
<1>3. Mine' = Mine
  <2>1. Mine' = [Mine EXCEPT ![t] = Mine[t]]
    BY OthersHave
  <2> QED
    BY ZenonT(40), <2>1 DEF Mine
<1> QED
  BY <1>1, <1>2, <1>3, InOrderNow

\* The descriptor that malloc() chooses fits.
LEMMA DescForIs ==
  ASSUME NEW size \in Nat
  PROVE  /\ DescFor(size) \in Desc \cup {NULL}
         /\ DescFor(size) # NULL => size <= DescFor(size)
<1> DEFINE S == {d \in Desc : d >= size}
<1>1. CASE S = {}
  BY <1>1 DEF DescFor
<1>2. CASE S # {}
  <2>1. S \subseteq Nat
    BY DescFits
  <2>2. \E x \in S : \A y \in S : x <= y
    BY ZenonT(40), <1>2, <2>1, LeastNat
  <2>3. (CHOOSE x \in S : \A y \in S : x <= y) \in S
    BY <2>2
  <2>4. DescFor(size) = CHOOSE x \in S : \A y \in S : x <= y
    BY <1>2 DEF DescFor
  <2>5. DescFor(size) \in Desc /\ DescFor(size) >= size /\ DescFor(size) \in Nat
    BY <2>1, <2>3, <2>4
  <2> QED
    BY <2>5
<1> QED
  BY <1>1, <1>2

\* The call that malloc() and realloc() begin with.
LEMMA StartIs ==
  ASSUME NEW size \in Nat \ {0}, NEW op, NEW old, NEW d, d = DescFor(size), NEW c,
         \/ op = "malloc" /\ old = NULL
         \/ op = "realloc" /\ old \in Block /\ old.kind = "block",
         c = Call(op, size, d, "kernel",
                  IF d = NULL THEN DIV_ROUND_UP(size + HEADER, PGSIZE) ELSE 1, old)
  PROVE  c \in Calls /\ Asked(c) /\ c.cnt # 0 /\ c.pos = 0 /\ c.old = old /\ c.desc = d
<1> DEFINE n == DIV_ROUND_UP(size + HEADER, PGSIZE)
<1>1. d \in Desc \cup {NULL} /\ (d # NULL => size <= d)
  BY DescForIs
<1>2. n \in Nat \ {0}
  <2>1. size + HEADER \in Nat \ {0}
    BY SMT, MemoryAssumption
  <2> QED
    BY <2>1, RoundUp
<1>3. old \in Block => old # NULL
  BY SMT, MemoryAssumption DEF Block
<1> HIDE DEF n
<1>4. c = [op |-> op, size |-> size, desc |-> d, pool |-> "kernel",
           cnt |-> IF d = NULL THEN n ELSE 1, pos |-> 0, old |-> old]
  BY DEF Call, n
<1>5. /\ c.op = op /\ c.size = size /\ c.desc = d /\ c.pool = "kernel" /\ c.pos = 0 /\ c.old = old
      /\ c.cnt = IF d = NULL THEN n ELSE 1
  BY SMTT(40), <1>4
<1>6. c \in Calls
  BY SMTT(40), <1>1, <1>2, <1>4 DEF Calls, Pool
<1>7. Asked(c)
  BY <1>1, <1>3, <1>5 DEF Asked, n
<1> QED
  BY SMT, <1>2, <1>5, <1>6, <1>7

\* pc and call after Goto() and an assignment to the call.
LEMMA GotoIs ==
  ASSUME CallsOK, NEW t \in Thread, NEW next \in Place, NEW c,
         Goto(t, next), call' = [call EXCEPT ![t] = c]
  PROVE  /\ pc' \in [Thread -> Place] /\ pc'[t] = next /\ DOMAIN call' = Thread /\ call'[t] = c
         /\ \A u \in Thread \ {t} : pc'[u] = pc[u] /\ call'[u] = call[u]
  BY DEF CallsOK, Goto

\* NULL is none of the values that a call's fields have.
LEMMA NullIs ==
  NULL \notin Int /\ NULL \notin Block /\ NULL \notin Thread /\ NULL \notin Desc
<1>1. NULL \notin Int /\ NULL \notin Thread
  BY MemoryAssumption
<1>2. NULL \notin Block
  BY SMT, MemoryAssumption DEF Block
<1>3. NULL \notin Desc
  BY DescFits
<1> QED
  BY <1>1, <1>2, <1>3

\* Where a thread holds no lock and changes none.
LEMMA LocksAlone ==
  ASSUME CallsOK, LocksOK, NEW t \in Thread, Others(t),
         UNCHANGED <<used_map, pool_lock, free_list, desc_lock>>,
         pc[t] # "scan", pc'[t] # "scan",
         pc'[t] \in {"pool", "scan", "got", "clear"} => call'[t].desc = NULL,
         pc[t] \in {"pool", "scan", "got", "clear"} => call[t].desc = NULL
  PROVE  LocksOK'
<1>1. /\ used_map \in [Pool -> SUBSET Int]
      /\ pool_lock \in [Pool -> Thread \cup {NULL}]
      /\ desc_lock \in [Desc -> Thread \cup {NULL}] /\ TypeOK
  BY DEF LocksOK
<1>2. \A p \in Pool : used_map[p] \subseteq Bits(0, bitmap_size(p)) /\ pool_lock[p] # t
  BY <1>1 DEF TypeOK
<1>3. \A d \in Desc : desc_lock[d] # t
  BY SMT, <1>1, NullIs DEF TypeOK
<1>4. \A d \in Desc : ~(pc'[t] \in {"pool", "scan", "got", "clear"} /\ call'[t].desc = d)
  BY NullIs
<1> QED
  BY <1>1, <1>2, <1>3, <1>4, LocksKept

-----------------------------------------------------------------------------
(* The steps *)

\* palloc_get_multiple() begins.
LEMMA Keeps_palloc_get_multiple ==
  ASSUME IInv, NEW t \in Thread, NEW p \in Pool, NEW cnt \in Counts,
         palloc_get_multiple(t, p, cnt)
  PROVE  IInv'
<1> DEFINE c == Call("palloc", PGSIZE * cnt, NULL, p, cnt, NULL)
<1>1. CallsOK /\ LocksOK /\ RoomAhead /\ InOrder
  BY DEF IInv
<1>2. /\ pc[t] = "idle" /\ Goto(t, "pool") /\ call' = [call EXCEPT ![t] = c]
      /\ UNCHANGED <<used_map, pool_lock, arena, free_list, desc_lock, live, room>>
  BY DEF palloc_get_multiple
<1>3. PGSIZE * cnt \in Nat \ {0} /\ cnt \in Nat \ {0}
  <2>1. cnt \in Nat \ {0} /\ PGSIZE \in Nat \ {0}
    BY SMT, MemoryAssumption
  <2>2. PGSIZE * 1 <= PGSIZE * cnt /\ PGSIZE * cnt \in Int
    BY SMT, <2>1, TimesMonotone
  <2> QED
    BY SMT, <2>1, <2>2
<1>4. /\ c \in Calls /\ Asked(c) /\ c.cnt # 0 /\ c.pos = 0 /\ c.desc = NULL /\ c.old = NULL
  <2>1. c = [op |-> "palloc", size |-> PGSIZE * cnt, desc |-> NULL, pool |-> p, cnt |-> cnt,
             pos |-> 0, old |-> NULL]
    BY DEF Call
  <2>2. c \in Calls
    BY SMTT(40), <1>3, <2>1 DEF Calls
  <2>3. /\ c.op = "palloc" /\ c.size = PGSIZE * cnt /\ c.desc = NULL /\ c.pool = p /\ c.cnt = cnt
        /\ c.pos = 0 /\ c.old = NULL
    BY SMT, <2>1
  <2>4. Asked(c)
    BY <2>3 DEF Asked
  <2> QED
    BY <1>3, <2>2, <2>3, <2>4
<1> HIDE DEF c
<1>5. /\ pc' \in [Thread -> Place] /\ pc'[t] = "pool" /\ DOMAIN call' = Thread /\ call'[t] = c
      /\ Others(t)
  BY ZenonT(40), <1>1, <1>2, GotoIs DEF Place, Others
<1>6. CallsOK'
  <2>1. Place_OK(t)'
    BY <1>4, <1>5 DEF Place_OK
  <2>2. room' \in [Thread -> BOOLEAN]
    BY <1>1, <1>2 DEF CallsOK
  <2>3. \A u \in Thread \ {t} : pc[u] = "free" => pg_no(call[u].pos) \in SmallPages(arena')
    BY <1>1, <1>2 DEF CallsOK, Place_OK
  <2> QED
    BY <1>1, <1>2, <1>4, <1>5, <2>1, <2>2, <2>3, CallsKept
<1>7. LocksOK'
  BY <1>1, <1>2, <1>4, <1>5, LocksAlone
<1>8. RoomAhead'
  BY <1>1, <1>2, <1>5, RoomKept
<1>9. InOrder'
  <2>1. Has[t] = {} /\ Has'[t] = {} /\ Mine[t] = {} /\ Mine'[t] = {}
    BY <1>2, <1>4, <1>5 DEF Has, HasOld, Mine
  <2> QED
    BY ZenonT(40), <2>1, <1>1, <1>2, <1>5, InOrderSame
<1> QED
  BY <1>6, <1>7, <1>8, <1>9 DEF IInv

\* malloc() and realloc() begin: the block realloc() is called with is its own.
LEMMA StartKeeps ==
  ASSUME IInv, NEW t \in Thread, NEW size \in Nat \ {0}, NEW op, NEW old,
         pc[t] = "idle", start(t, op, size, old),
         \/ op = "malloc" /\ old = NULL /\ live' = live
         \/ op = "realloc" /\ old \in live /\ old.kind = "block" /\ live' = live \ {old},
         UNCHANGED <<used_map, pool_lock, arena, free_list, desc_lock, room>>
  PROVE  IInv'
<1> DEFINE d == DescFor(size)
           c == Call(op, size, d, "kernel",
                     IF d = NULL THEN DIV_ROUND_UP(size + HEADER, PGSIZE) ELSE 1, old)
           next == IF d = NULL THEN "pool" ELSE "desc"
<1>1. CallsOK /\ LocksOK /\ RoomAhead /\ InOrder
  BY DEF IInv
<1>2. Goto(t, next) /\ call' = [call EXCEPT ![t] = c]
  BY DEF start
<1>3. old \in live => old \in Block /\ old # NULL
  <2>1. old \in live => old \in Block
    BY <1>1 DEF InOrder, Held, All, Layout, PagesOwned
  <2> QED
    BY <2>1, NullIs
<1>4. c \in Calls /\ Asked(c) /\ c.cnt # 0 /\ c.pos = 0 /\ c.old = old /\ c.desc = d
  BY SMT, <1>3, StartIs
<1> HIDE DEF c, d
<1>5. next \in {"pool", "desc"} /\ (next = "pool" <=> d = NULL) /\ next \in Place
  BY DEF Place
<1> HIDE DEF next
<1>6. /\ pc' \in [Thread -> Place] /\ pc'[t] = next /\ DOMAIN call' = Thread /\ call'[t] = c
      /\ Others(t)
  BY ZenonT(40), <1>1, <1>2, <1>5, GotoIs DEF Others
<1>7. CallsOK'
  <2>1. Place_OK(t)'
    BY <1>4, <1>5, <1>6 DEF Place_OK
  <2>2. room' \in [Thread -> BOOLEAN]
    BY <1>1 DEF CallsOK
  <2>3. \A u \in Thread \ {t} : pc[u] = "free" => pg_no(call[u].pos) \in SmallPages(arena')
    BY <1>1 DEF CallsOK, Place_OK
  <2> QED
    BY <1>1, <1>4, <1>6, <2>1, <2>2, <2>3, CallsKept
<1>8. LocksOK'
  BY <1>1, <1>4, <1>5, <1>6, LocksAlone
<1>9. RoomAhead'
  BY <1>1, <1>5, <1>6, RoomKept
<1>10. InOrder'
  <2>1. Has[t] = {} /\ Mine[t] = {}
    BY DEF Has, HasOld, Mine
  <2>2. Has'[t] = (IF old = NULL THEN {} ELSE {old}) /\ Mine'[t] = {}
    BY <1>4, <1>5, <1>6 DEF Has, HasOld, Mine
  <2>3. live' \cap Has'[t] = {} /\ live' \cup Has'[t] = live \cup Has[t]
    BY <1>3, <2>1, <2>2
  <2> QED
    BY ZenonT(40), <2>1, <2>2, <2>3, <1>1, <1>6, InOrderSame
<1> QED
  BY <1>7, <1>8, <1>9, <1>10 DEF IInv

\* A thread takes a pool's lock: its scan has the room there is.
LEMMA Keeps_pool_acquire ==
  ASSUME IInv, NEW t \in Thread, pool_acquire(t)
  PROVE  IInv'
<1> DEFINE p == call[t].pool
           cnt == call[t].cnt
<1>1. CallsOK /\ LocksOK /\ RoomAhead /\ InOrder
  BY DEF IInv
<1>2. /\ pc[t] = "pool" /\ pool_lock[p] = NULL
      /\ pool_lock' = [pool_lock EXCEPT ![p] = t]
      /\ room' = [room EXCEPT ![t] = FreeWindow(p, cnt) # {}]
      /\ Goto(t, "scan")
      /\ UNCHANGED <<used_map, arena, free_list, desc_lock, live, call>>
  BY DEF pool_acquire
<1>3. call[t] \in Calls /\ Place_OK(t) /\ p \in Pool /\ cnt \in Nat /\ call[t].pos = 0
  BY <1>1, <1>2 DEF CallsOK, Place_OK, Calls
<1>4. /\ pc' \in [Thread -> Place] /\ pc'[t] = "scan" /\ DOMAIN call' = Thread /\ call'[t] = call[t]
      /\ room' \in [Thread -> BOOLEAN] /\ Others(t)
  BY <1>1, <1>2 DEF CallsOK, Others, Goto, Place
<1>5. CallsOK'
  <2>1. Place_OK(t)'
    BY SMTT(40), <1>2, <1>3, <1>4, NullIs DEF Place_OK
  <2>2. \A u \in Thread \ {t} : pc[u] = "free" => pg_no(call[u].pos) \in SmallPages(arena')
    BY <1>1, <1>2 DEF CallsOK, Place_OK
  <2> QED
    BY <1>1, <1>2, <1>3, <1>4, <2>1, <2>2, CallsKept
<1>6. LocksOK'
  <2>1. /\ used_map \in [Pool -> SUBSET Int]
        /\ pool_lock \in [Pool -> Thread \cup {NULL}]
        /\ desc_lock \in [Desc -> Thread \cup {NULL}]
        /\ \A q \in Pool : used_map[q] \subseteq Bits(0, bitmap_size(q))
        /\ \A q \in Pool : pool_lock[q] # t
        /\ \A d \in Desc : desc_lock[d] = t <=> call[t].desc = d
        /\ call[t].desc # NULL => free_list[call[t].desc] = <<>>
    BY <1>1, <1>2 DEF LocksOK, TypeOK
  <2>2. /\ pool_lock' \in [Pool -> Thread \cup {NULL}]
        /\ \A q \in Pool : pool_lock'[q] = IF q = p THEN t ELSE pool_lock[q]
    BY ZenonT(40), <1>2, <2>1
  <2>3. \A q \in Pool : pool_lock'[q] = t <=> pc'[t] = "scan" /\ call'[t].pool = q
    BY <2>1, <2>2, <1>4
  <2>4. \A q \in Pool : pool_lock'[q] # pool_lock[q] =>
          {pool_lock[q], pool_lock'[q]} \subseteq {t, NULL}
    BY <2>2, <1>2
  <2> QED
    BY <2>1, <2>2, <2>3, <2>4, <1>1, <1>2, <1>4, LocksKept
<1>7. RoomAhead'
  <2>1. ASSUME room'[t] PROVE Ahead(t)'
    <3>1. PICK i : i \in FreeWindow(p, cnt)
      BY ZenonT(40), <2>1, <1>1, <1>2 DEF CallsOK
    <3>2. i \in Window(p, cnt) /\ Bits(i, cnt) \cap used_map'[p] = {}
      BY <3>1, <1>2 DEF FreeWindow
    <3>3. 0 <= i
      BY SMT, <3>2 DEF Window
    <3> QED
      BY <3>2, <3>3, <1>3, <1>4 DEF Ahead, FreeWindow
  <2> QED
    BY <2>1, <1>1, <1>2, <1>4, RoomKept
<1>8. InOrder'
  <2>1. Has'[t] = Has[t] /\ Mine[t] = {} /\ Mine'[t] = {}
    BY <1>2, <1>4 DEF Has, HasOld, Mine
  <2>2. live' \cap Has'[t] = {}
    BY <2>1, <1>1, <1>2 DEF InOrder, Apart
  <2> QED
    BY ZenonT(40), <2>1, <2>2, <1>1, <1>2, <1>4, InOrderSame
<1> QED
  BY <1>5, <1>6, <1>7, <1>8 DEF IInv

\* The bitmaps of a state.
LEMMA MapsOK ==
  LocksOK => used_map \in Maps
  BY DEF LocksOK, TypeOK, Maps

\* A scan tries a window, takes it or goes on, or ends without.
LEMMA Keeps_bitmap_scan ==
  ASSUME IInv, NEW t \in Thread, bitmap_scan(t)
  PROVE  IInv'
<1> DEFINE p == call[t].pool
           cnt == call[t].cnt
           i == call[t].pos
<1>1. CallsOK /\ LocksOK /\ RoomAhead /\ InOrder
  BY DEF IInv
<1>2. pc[t] = "scan" /\ UNCHANGED <<arena, free_list, desc_lock, live, room>>
  BY DEF bitmap_scan
<1>3. \/ /\ i \notin Window(p, cnt)
         /\ call' = [call EXCEPT ![t].pos = NULL]
         /\ pool_lock' = [pool_lock EXCEPT ![p] = NULL]
         /\ Goto(t, "got") /\ UNCHANGED used_map
      \/ /\ i \in Window(p, cnt) /\ i \in FreeWindow(p, cnt)
         /\ used_map' = [used_map EXCEPT ![p] = @ \cup Bits(i, cnt)]
         /\ pool_lock' = [pool_lock EXCEPT ![p] = NULL]
         /\ Goto(t, "got") /\ UNCHANGED call
      \/ /\ i \in Window(p, cnt) /\ i \notin FreeWindow(p, cnt)
         /\ call' = [call EXCEPT ![t].pos = i + 1]
         /\ UNCHANGED <<used_map, pool_lock, pc>>
  BY DEF bitmap_scan
<1>4. /\ call[t] \in Calls /\ Place_OK(t) /\ Asked(call[t]) /\ p \in Pool /\ cnt \in Nat /\ cnt # 0
      /\ i \in Nat
  BY <1>1, <1>2 DEF CallsOK, Place_OK, Calls
<1>5. /\ call'[t] = [call[t] EXCEPT !.pos = call'[t].pos] /\ call'[t] \in Calls
      /\ pc' \in [Thread -> Place] /\ DOMAIN call' = Thread /\ Others(t) /\ pc'[t] \in {"got", "scan"}
  <2>1. call'[t].pos \in Nat \cup {NULL} /\ call'[t] = [call[t] EXCEPT !.pos = call'[t].pos]
    BY SMT, <1>1, <1>3, <1>4 DEF CallsOK, Calls
  <2>2. call'[t] \in Calls
    BY <2>1, <1>4 DEF Calls
  <2>3. pc' \in [Thread -> Place] /\ DOMAIN call' = Thread /\ Others(t) /\ pc'[t] \in {"got", "scan"}
    BY <1>1, <1>2, <1>3 DEF CallsOK, Others, Goto, Place
  <2> QED
    BY <2>1, <2>2, <2>3
<1>6. /\ call'[t].op = call[t].op /\ call'[t].size = call[t].size /\ call'[t].desc = call[t].desc
      /\ call'[t].pool = p /\ call'[t].cnt = cnt /\ call'[t].old = call[t].old
  <2>1. call[t] = [op |-> call[t].op, size |-> call[t].size, desc |-> call[t].desc, pool |-> p,
                   cnt |-> cnt, pos |-> i, old |-> call[t].old]
    BY <1>4 DEF Calls
  <2> QED
    BY <1>5, <2>1
<1>7. Asked(call'[t])
  BY <1>4, <1>6 DEF Asked
<1>8. \/ pc'[t] = "got" /\ call'[t].pos = NULL /\ i \notin Window(p, cnt) /\ used_map' = used_map
      \/ pc'[t] = "got" /\ call'[t].pos = i /\ i \in FreeWindow(p, cnt) /\ i \in Window(p, cnt)
      \/ pc'[t] = "scan" /\ call'[t].pos = i + 1 /\ i \notin FreeWindow(p, cnt)
         /\ used_map' = used_map
  BY SMTT(40), <1>1, <1>2, <1>3, <1>4 DEF CallsOK, Goto, Calls
<1>9. CallsOK'
  <2>1. pc'[t] = "scan" => call'[t].pos # NULL
    <3>1. i + 1 \in Int
      BY SMT, <1>4
    <3> QED
      BY <3>1, <1>8, NullIs
  <2>2. pc'[t] = "got" /\ call'[t].pos # NULL => call'[t].pos \in Window(call'[t].pool, call'[t].cnt)
    BY <1>6, <1>8
  <2>3. Place_OK(t)'
    BY <1>4, <1>5, <1>6, <1>7, <2>1, <2>2 DEF Place_OK, Window
  <2>4. room' \in [Thread -> BOOLEAN]
    BY <1>1, <1>2 DEF CallsOK
  <2>5. \A u \in Thread \ {t} : pc[u] = "free" => pg_no(call[u].pos) \in SmallPages(arena')
    BY <1>1, <1>2 DEF CallsOK, Place_OK
  <2> QED
    BY <1>1, <1>2, <1>5, <2>3, <2>4, <2>5, CallsKept
<1>10. /\ used_map' \in [Pool -> SUBSET Int]
       /\ \A q \in Pool : used_map'[q] \subseteq Bits(0, bitmap_size(q))
  <2>1. used_map' \in Maps
    <3>1. CASE used_map' = used_map
      BY <3>1, <1>1, MapsOK
    <3>2. CASE i \in FreeWindow(p, cnt) /\ used_map' = [used_map EXCEPT ![p] = @ \cup Bits(i, cnt)]
      <4>1. i \in Window(p, cnt) /\ Bits(i, cnt) \cap used_map[p] = {}
        BY <3>2 DEF FreeWindow
      <4> QED
        BY ZenonT(40), <4>1, <3>2, <1>1, <1>4, MapsOK, MarkMore
    <3> QED
      BY <3>1, <3>2, <1>3
  <2> QED
    BY <2>1 DEF Maps
<1>11. LocksOK'
  <2>1. /\ pool_lock \in [Pool -> Thread \cup {NULL}]
        /\ desc_lock \in [Desc -> Thread \cup {NULL}]
        /\ \A q \in Pool : pool_lock[q] = t <=> p = q
        /\ \A d \in Desc : desc_lock[d] = t <=> call[t].desc = d
        /\ call[t].desc # NULL => free_list[call[t].desc] = <<>>
    BY SMT, <1>1, <1>2 DEF LocksOK, TypeOK
  <2>2. /\ pool_lock' \in [Pool -> Thread \cup {NULL}]
        /\ \A q \in Pool : q # p => pool_lock'[q] = pool_lock[q]
        /\ pool_lock'[p] = IF pc'[t] = "scan" THEN t ELSE NULL
    BY <1>1, <1>2, <1>3, <1>4, <2>1 DEF CallsOK, Goto
  <2>3. \A q \in Pool : pool_lock'[q] = t <=> pc'[t] = "scan" /\ call'[t].pool = q
    BY SMTT(40), <2>1, <2>2, <1>6, NullIs
  <2>4. \A q \in Pool : pool_lock'[q] # pool_lock[q] =>
          {pool_lock[q], pool_lock'[q]} \subseteq {t, NULL}
    BY <2>1, <2>2
  <2>5. \A d \in Desc : desc_lock'[d] = t <=>
          pc'[t] \in {"pool", "scan", "got", "clear"} /\ call'[t].desc = d
    BY <2>1, <1>2, <1>5, <1>6
  <2> QED
    BY ZenonT(40), <2>1, <2>2, <2>3, <2>4, <2>5, <1>1, <1>2, <1>5, <1>6, <1>10, LocksKept
<1>12. RoomAhead'
  <2>1. \A q \in Pool : used_map'[q] \subseteq used_map[q] \/ pool_lock[q] = t
    BY SMTT(40), <1>1, <1>2, <1>3 DEF LocksOK, TypeOK
  <2>2. ASSUME room[t]
        PROVE  \E j \in Int : j \in Window(p, cnt) /\ Bits(j, cnt) \cap used_map[p] = {} /\ i <= j
    BY SMTT(40), <2>2, <1>1, <1>2 DEF RoomAhead, Ahead, FreeWindow, Window
  <2>3. bitmap_size(p) \in Nat
    BY <1>4, PoolPlace
  <2>4. ASSUME pc'[t] = "scan", room'[t] PROVE Ahead(t)'
    <3>1. i \notin FreeWindow(p, cnt) /\ call'[t].pos = i + 1 /\ used_map' = used_map
      BY <2>4, <1>8
    <3>2. PICK j \in Int : j \in Window(p, cnt) /\ Bits(j, cnt) \cap used_map[p] = {} /\ i <= j
      BY <2>2, <2>4, <1>2
    <3>3. j # i
      BY <3>1, <3>2 DEF FreeWindow
    <3>4. i + 1 <= j
      BY SMTT(40), <3>2, <3>3, <1>4
    <3> QED
      BY <3>1, <3>2, <3>4, <1>6 DEF Ahead, FreeWindow
  <2>5. ASSUME pc'[t] = "got", call'[t].pos = NULL PROVE ~room'[t]
    <3>1. i \notin Window(p, cnt)
      BY SMTT(40), <2>5, <1>4, <1>8, NullIs
    <3>2. ASSUME room[t] PROVE FALSE
      <4>1. PICK j \in Int : j \in Window(p, cnt) /\ i <= j
        BY <2>2, <3>2
      <4>2. i \in Window(p, cnt)
        BY SMT, <4>1, <1>4, <2>3 DEF Window
      <4> QED
        BY <4>2, <3>1
    <3> QED
      BY <3>2, <1>2
  <2> QED
    BY <2>1, <2>4, <2>5, <1>1, <1>5, RoomKept
<1>13. Has'[t] = Has[t] /\ live' \cap Has'[t] = {} /\ Mine[t] = {}
  <2>1. Has'[t] = Has[t] /\ Mine[t] = {}
    BY <1>2, <1>5, <1>6 DEF Has, HasOld, Mine
  <2> QED
    BY <2>1, <1>1, <1>2 DEF InOrder, Apart
<1>14. InOrder'
  <2>1. CASE used_map' = used_map /\ ~(pc'[t] = "got" /\ call'[t].pos = i)
    <3>1. Mine'[t] = {}
      BY <2>1, <1>5, <1>8 DEF Mine
    <3> QED
      BY ZenonT(40), <3>1, <2>1, <1>1, <1>2, <1>5, <1>13, InOrderSame
  <2>2. CASE /\ pc'[t] = "got" /\ call'[t].pos = i /\ i \in FreeWindow(p, cnt)
             /\ used_map' = [used_map EXCEPT ![p] = @ \cup Bits(i, cnt)]
    <3> DEFINE S == Bits(base(p) + i, cnt)
    <3>1. Mine'[t] = S
      <4>1. i # NULL
        BY SMT, <1>4, NullIs
      <4> QED
        BY <4>1, <2>2, <1>6 DEF Mine
    <3>2. i \in Window(p, cnt) /\ Bits(i, cnt) \cap used_map[p] = {}
      BY <2>2 DEF FreeWindow
    <3>3. Marked(used_map') = Marked(used_map) \cup S /\ S \cap Marked(used_map) = {} /\ S \subseteq Ram
      <4> DEFINE um2 == [used_map EXCEPT ![p] = @ \cup Bits(i, cnt)]
      <4>1. used_map \in Maps
        BY <1>1, MapsOK
      <4> HIDE DEF p, cnt, i
      <4>2. Marked(um2) = Marked(used_map) \cup S /\ S \cap Marked(used_map) = {} /\ S \subseteq Ram
        BY SMTT(40), <4>1, <3>2, <1>4, MarkMore
      <4> QED
        BY ZenonT(40), <4>2, <2>2
    <3> HIDE DEF S
    <3>4. Apart(live, Has) /\ Layout(All(live, Has), arena, free_list, Marked(used_map), Mine)
      BY <1>1, UsedAreMarked DEF InOrder, Held
    <3>5. Layout(All(live, Has), arena, free_list, Marked(used_map'), [Mine EXCEPT ![t] = S])
      BY SMTT(40), <3>3, <3>4, <1>13, Claim
    <3>6. Mine' = [Mine EXCEPT ![t] = S]
      BY <3>1, <1>5, OthersHave
    <3>7. All(live', Has') = All(live, Has) /\ Apart(live', Has')
      BY SMTT(40), <3>4, <1>2, <1>5, <1>13, OthersHave, HandSame
    <3> QED
      BY <3>5, <3>6, <3>7, <1>2, InOrderNow
  <2>3. \/ used_map' = used_map /\ ~(pc'[t] = "got" /\ call'[t].pos = i)
        \/ /\ pc'[t] = "got" /\ call'[t].pos = i /\ i \in FreeWindow(p, cnt)
           /\ used_map' = [used_map EXCEPT ![p] = @ \cup Bits(i, cnt)]
    <3>1. i # NULL /\ i + 1 # i
      BY SMT, <1>4, NullIs
    <3> QED
      BY <3>1, <1>3, <1>8
  <2> QED
    BY <2>1, <2>2, <2>3
<1> QED
  BY <1>9, <1>11, <1>12, <1>14 DEF IInv

\* A call returns: its thread has nothing.
LEMMA Returned ==
  ASSUME CallsOK, NEW t \in Thread, Return(t), room' = room \/ Cleared(t)
  PROVE  /\ Others(t) /\ pc'[t] = "idle" /\ Has'[t] = {} /\ Mine'[t] = {}
         /\ (\A u \in Thread \ {t} : pc[u] = "free" =>
               LET page == pg_no(call[u].pos)
               IN page \in SmallPages(arena') /\ arena'[page].desc = arena[page].desc)
              => CallsOK'
<1>1. /\ pc' \in [Thread -> Place] /\ pc'[t] = "idle" /\ DOMAIN call' = Thread
      /\ \A u \in Thread \ {t} : pc'[u] = pc[u] /\ call'[u] = call[u]
  BY ZenonT(40), GotoIs DEF Return, Place
<1>2. room' \in [Thread -> BOOLEAN] /\ \A u \in Thread \ {t} : room'[u] = room[u]
  BY ZenonT(40) DEF CallsOK, Cleared
<1>3. Others(t)
  BY <1>1, <1>2 DEF Others
<1>4. Place_OK(t)'
  BY <1>1 DEF Place_OK
<1>5. Has'[t] = {} /\ Mine'[t] = {}
  BY <1>1 DEF Has, HasOld, Mine
<1> QED
  BY <1>1, <1>2, <1>3, <1>4, <1>5, CallsKept

\* The arenas stay, and with them those of the blocks that others free.
LEMMA ArenasStay ==
  ASSUME CallsOK, UNCHANGED arena, NEW u \in Thread, pc[u] = "free"
  PROVE  LET page == pg_no(call[u].pos)
         IN page \in SmallPages(arena') /\ arena'[page].desc = arena[page].desc
  BY DEF CallsOK, Place_OK

\* The pages a thread has got, in numbers.
LEMMA GotIs ==
  ASSUME CallsOK, NEW t \in Thread, pc[t] = "got"
  PROVE  /\ call[t] \in Calls /\ Asked(call[t]) /\ call[t].cnt \in Nat \ {0}
         /\ call[t].pos = NULL => Mine[t] = {}
         /\ call[t].pos # NULL =>
              LET page == base(call[t].pool) + call[t].pos
              IN page \in Nat /\ Mine[t] = Bits(page, call[t].cnt)
<1>1. call[t] \in Calls /\ Asked(call[t]) /\ call[t].cnt # 0
  BY DEF CallsOK, Place_OK
<1>2. call[t].pool \in Pool /\ call[t].pos \in Nat \cup {NULL} /\ call[t].cnt \in Nat \ {0}
  BY <1>1 DEF Calls
<1>3. base(call[t].pool) \in Nat
  BY <1>2, PoolPlace
<1> QED
  BY SMT, <1>1, <1>2, <1>3 DEF Mine

\* palloc_get_multiple() returns, with the pages or without.
LEMMA Keeps_got_pages ==
  ASSUME IInv, NEW t \in Thread, got_pages(t)
  PROVE  IInv'
<1> DEFINE c == call[t]
           page == base(c.pool) + c.pos
           b == Live("pages", PGSIZE * page, c.size)
<1>1. CallsOK /\ LocksOK /\ RoomAhead /\ InOrder
  BY DEF IInv
<1>2. /\ pc[t] = "got" /\ c.op = "palloc" /\ Cleared(t) /\ Return(t)
      /\ UNCHANGED <<used_map, pool_lock, arena, free_list, desc_lock>>
      /\ IF c.pos = NULL THEN live' = IF c.old = NULL THEN live ELSE live \cup {c.old}
         ELSE live' = live \cup {b}
  BY DEF got_pages, Refuse
<1>3. /\ c.desc = NULL /\ c.old = NULL /\ c.size = PGSIZE * c.cnt /\ c.cnt \in Nat \ {0}
      /\ c.pos = NULL => Mine[t] = {}
      /\ c.pos # NULL => page \in Nat /\ Mine[t] = Bits(page, c.cnt)
  BY <1>1, <1>2, GotIs DEF Asked
<1>4. /\ Others(t) /\ pc'[t] = "idle" /\ Has'[t] = {} /\ Mine'[t] = {} /\ CallsOK'
  BY <1>1, <1>2, Returned, ArenasStay
<1>5. LocksOK'
  BY <1>1, <1>2, <1>3, <1>4, LocksAlone
<1>6. RoomAhead'
  BY <1>1, <1>2, <1>4, RoomKept
<1>7. Has[t] = {}
  BY <1>2, <1>3 DEF Has, HasOld
<1>8. InOrder'
  <2>1. CASE c.pos = NULL
    <3>1. live' = live /\ Mine[t] = {}
      BY <2>1, <1>2, <1>3
    <3> QED
      BY ZenonT(40), <3>1, <1>1, <1>2, <1>4, <1>7, InOrderSame
  <2>2. CASE c.pos # NULL
    <3>1. live' = live \cup {b} /\ page \in Nat /\ Mine[t] = Bits(page, c.cnt)
      BY <2>2, <1>2, <1>3
    <3>2. b \in Block /\ WholePages(b) /\ pg_no(b.addr) = page /\ Span(b) = Bits(page, c.cnt)
      <4> HIDE DEF page, c
      <4> QED
        BY <3>1, <1>3, PagesSpan
    <3>3. Apart(live, Has) /\ Layout(All(live, Has), arena, free_list, Marked(used_map), Mine)
      BY <1>1, UsedAreMarked DEF InOrder, Held
    <3> HIDE DEF b, page
    <3>4. /\ Layout(All(live, Has) \cup {b}, [arena EXCEPT ![pg_no(b.addr)] = arena[pg_no(b.addr)]],
                    free_list, Marked(used_map), [Mine EXCEPT ![t] = {}])
          /\ b \notin All(live, Has)
      <4>1. Mine[t] = Span(b)
        BY <3>1, <3>2
      <4> QED
        BY <4>1, <3>2, <3>3, Give
    <3>5. [arena EXCEPT ![pg_no(b.addr)] = arena[pg_no(b.addr)]] = arena
      BY <3>3 DEF Layout, PagesOwned
    <3>6. Mine' = [Mine EXCEPT ![t] = {}]
      BY <1>4, OthersHave
    <3>7. All(live', Has') = All(live, Has) \cup {b} /\ Apart(live', Has')
      <4>1. live' \cap Has'[t] = {} /\ live' \cup Has'[t] = (live \cup Has[t]) \cup {b}
        BY <3>1, <1>4, <1>7
      <4>2. \A u \in Thread \ {t} : Has'[u] = Has[u]
        BY <1>4, OthersHave
      <4> QED
        BY ZenonT(40), <4>1, <4>2, <3>3, <3>4, HandNew
    <3> QED
      BY <3>4, <3>5, <3>6, <3>7, <1>2, InOrderNow
  <2> QED
    BY <2>1, <2>2
<1> QED
  BY <1>4, <1>5, <1>6, <1>8 DEF IInv

\* palloc_free_multiple() clears a bit.
LEMMA Keeps_palloc_free_multiple ==
  ASSUME IInv, NEW t \in Thread, palloc_free_multiple(t)
  PROVE  IInv'
<1> DEFINE c == call[t]
           page == c.pos
           p == CHOOSE q \in Pool : page_from_pool(q, page)
<1>1. CallsOK /\ LocksOK /\ RoomAhead /\ InOrder
  BY DEF IInv
<1>2. /\ pc[t] = "clear" /\ used_map' = [used_map EXCEPT ![p] = @ \ {PageIndex(page)}]
      /\ UNCHANGED <<pool_lock, arena, free_list, live, room>>
  BY DEF palloc_free_multiple
<1>3. \/ /\ c.cnt > 1
         /\ call' = [call EXCEPT ![t].pos = page + 1, ![t].cnt = c.cnt - 1]
         /\ UNCHANGED <<desc_lock, pc>>
      \/ /\ ~(c.cnt > 1) /\ Return(t)
         /\ desc_lock' = IF c.desc = NULL THEN desc_lock ELSE [desc_lock EXCEPT ![c.desc] = NULL]
  BY DEF palloc_free_multiple
<1>4. c \in Calls /\ page \in Nat /\ c.cnt \in Nat \ {0} /\ c.desc \in Desc \cup {NULL}
  BY <1>1, <1>2 DEF CallsOK, Place_OK, Calls
<1>5. Apart(live, Has) /\ Layout(All(live, Has), arena, free_list, Marked(used_map), Mine)
  BY <1>1, UsedAreMarked DEF InOrder, Held
<1>6. Mine[t] = Bits(page, c.cnt) /\ page \in Mine[t] /\ Mine[t] \subseteq Marked(used_map)
  <2>1. Mine[t] = Bits(page, c.cnt)
    BY <1>2 DEF Mine
  <2>2. page \in Bits(page, c.cnt)
    BY SMT, <1>4 DEF Bits
  <2> QED
    BY <2>1, <2>2, <1>5 DEF Layout, PagesOwned
<1>7. /\ used_map' \in Maps /\ Marked(used_map') = Marked(used_map) \ {page}
      /\ used_map \in Maps
  <2>1. used_map \in Maps /\ page \in Marked(used_map)
    BY <1>1, <1>6, MapsOK
  <2> HIDE DEF c
  <2> QED
    BY ZenonT(40), <2>1, <1>2, MarkLess
<1>8. \A q \in Pool : used_map'[q] \subseteq used_map[q]
  BY ZenonT(40), <1>2, <1>7 DEF Maps
<1>9. /\ Others(t) /\ CallsOK' /\ Has[t] = {} /\ Has'[t] = {} /\ Mine'[t] = Mine[t] \ {page}
      /\ pc'[t] \in {"clear", "idle"} /\ (pc'[t] = "clear" => call'[t].desc = c.desc)
  <2>1. Has[t] = {}
    BY <1>2 DEF Has, HasOld
  <2>2. CASE c.cnt > 1 /\ call' = [call EXCEPT ![t].pos = page + 1, ![t].cnt = c.cnt - 1] /\ pc' = pc
    <3>1. page + 1 \in Nat /\ c.cnt - 1 \in Nat /\ c.cnt - 1 # 0
      BY SMT, <1>4, <2>2
    <3>2. /\ c = [op |-> c.op, size |-> c.size, desc |-> c.desc, pool |-> c.pool,
                  cnt |-> c.cnt, pos |-> c.pos, old |-> c.old]
          /\ c.op \in {"palloc", "malloc", "realloc", "free"} /\ c.size \in Nat \ {0}
          /\ c.pool \in Pool /\ c.old \in Block \cup {NULL}
      BY <1>4 DEF Calls
    <3>3. call'[t] = [op |-> c.op, size |-> c.size, desc |-> c.desc, pool |-> c.pool,
                      cnt |-> c.cnt - 1, pos |-> page + 1, old |-> c.old]
      BY ZenonT(40), <2>2, <3>2, <1>1 DEF CallsOK
    <3>4. call'[t] \in Calls
      BY SMTT(40), <3>1, <3>2, <3>3, <1>4 DEF Calls
    <3>5. call'[t].pos = page + 1 /\ call'[t].cnt = c.cnt - 1 /\ call'[t].desc = c.desc
      BY SMT, <3>3
    <3>6. Others(t) /\ pc' \in [Thread -> Place] /\ pc'[t] = "clear" /\ DOMAIN call' = Thread
          /\ room' \in [Thread -> BOOLEAN]
      BY <2>2, <1>1, <1>2 DEF CallsOK, Others
    <3>7. Place_OK(t)'
      <4>1. page + 1 # NULL
        BY SMT, <3>1, NullIs
      <4> QED
        BY <4>1, <3>1, <3>5, <3>6 DEF Place_OK
    <3>8. CallsOK'
      BY <3>4, <3>6, <3>7, <1>1, <1>2, ArenasStay, CallsKept
    <3>9. Has'[t] = {} /\ Mine'[t] = Bits(page + 1, c.cnt - 1)
      BY <3>5, <3>6 DEF Has, HasOld, Mine
    <3>10. Bits(page + 1, c.cnt - 1) = Bits(page, c.cnt) \ {page}
      BY SMT, <1>4 DEF Bits
    <3> QED
      BY <2>1, <3>5, <3>6, <3>8, <3>9, <3>10, <1>6
  <2>3. CASE ~(c.cnt > 1) /\ Return(t)
    <3>1. Others(t) /\ pc'[t] = "idle" /\ Has'[t] = {} /\ Mine'[t] = {} /\ CallsOK'
      BY <2>3, <1>1, <1>2, Returned, ArenasStay
    <3>2. Bits(page, c.cnt) \ {page} = {}
      BY SMT, <2>3, <1>4 DEF Bits
    <3> QED
      BY <2>1, <3>1, <3>2, <1>6
  <2> QED
    BY <2>2, <2>3, <1>3
<1>10. LocksOK'
  <2>1. /\ pool_lock \in [Pool -> Thread \cup {NULL}]
        /\ desc_lock \in [Desc -> Thread \cup {NULL}]
        /\ \A q \in Pool : pool_lock[q] # t
        /\ \A d \in Desc : desc_lock[d] = t <=> c.desc = d
    BY ZenonT(40), <1>1, <1>2 DEF LocksOK, TypeOK
  <2>2. /\ desc_lock' \in [Desc -> Thread \cup {NULL}]
        /\ \A d \in Desc : d # c.desc => desc_lock'[d] = desc_lock[d]
        /\ \A d \in Desc : d = c.desc => desc_lock'[d] = IF pc'[t] = "clear" THEN t ELSE NULL
    <3>1. CASE desc_lock' = desc_lock /\ pc' = pc
      BY <3>1, <2>1, <1>2
    <3>2. CASE /\ pc'[t] = "idle"
               /\ desc_lock' = IF c.desc = NULL THEN desc_lock ELSE [desc_lock EXCEPT ![c.desc] = NULL]
      BY <3>2, <2>1, <1>4, NullIs
    <3>3. Return(t) => pc'[t] = "idle"
      BY <1>1, <1>2, Returned
    <3> QED
      BY <3>1, <3>2, <3>3, <1>3
  <2>3. \A d \in Desc : desc_lock'[d] = t <=>
          pc'[t] \in {"pool", "scan", "got", "clear"} /\ call'[t].desc = d
    BY ZenonT(40), <2>1, <2>2, <1>9, NullIs
  <2>4. \A d \in Desc : desc_lock'[d] # desc_lock[d] =>
          {desc_lock[d], desc_lock'[d]} \subseteq {t, NULL}
    BY <2>1, <2>2
  <2>5. \A q \in Pool : pool_lock'[q] = t <=> pc'[t] = "scan" /\ call'[t].pool = q
    BY <2>1, <1>2, <1>9
  <2>6. /\ used_map' \in [Pool -> SUBSET Int]
        /\ \A q \in Pool : used_map'[q] \subseteq Bits(0, bitmap_size(q))
    BY <1>7 DEF Maps
  <2> QED
    BY ZenonT(40), <2>1, <2>2, <2>3, <2>4, <2>5, <2>6, <1>1, <1>2, <1>9, LocksKept
<1>11. RoomAhead'
  BY <1>1, <1>8, <1>9, RoomKept
<1>12. InOrder'
  <2>1. Layout(All(live, Has), arena, free_list, Marked(used_map) \ {page},
               [Mine EXCEPT ![t] = @ \ {page}])
    BY <1>5, <1>6, Unclaim
  <2>2. Mine' = [Mine EXCEPT ![t] = @ \ {page}]
    BY <1>9, OthersHave
  <2>3. All(live', Has') = All(live, Has) /\ Apart(live', Has')
    BY SMTT(40), <1>2, <1>5, <1>9, OthersHave, HandSame
  <2> QED
    BY ZenonT(40), <2>1, <2>2, <2>3, <1>2, <1>7, InOrderNow
<1> QED
  BY <1>9, <1>10, <1>11, <1>12 DEF IInv

\* A new block goes to its caller, or to realloc() that copies into it.
LEMMA Delivered ==
  ASSUME CallsOK, Apart(live, Has), NEW t \in Thread, pc[t] \in {"desc", "got"},
         call[t].op # "palloc", NEW addr \in Nat, Deliver(t, addr),
         room' = room \/ Cleared(t),
         NEW b, b = Live("block", addr, call[t].size), b \notin All(live, Has)
  PROVE  /\ Others(t) /\ pc'[t] \in {"copy", "idle"}
         /\ Apart(live', Has') /\ All(live', Has') = All(live, Has) \cup {b}
         /\ Mine' = [Mine EXCEPT ![t] = {}]
         /\ (\A u \in Thread \ {t} : pc[u] = "free" =>
               LET page == pg_no(call[u].pos)
               IN page \in SmallPages(arena') /\ arena'[page].desc = arena[page].desc)
              => CallsOK'
<1> DEFINE c == call[t]
           Free == \A u \in Thread \ {t} : pc[u] = "free" =>
                     LET page == pg_no(call[u].pos)
                     IN page \in SmallPages(arena') /\ arena'[page].desc = arena[page].desc
<1>1. c \in Calls /\ Asked(c)
  BY DEF CallsOK, Place_OK
<1>2. Has[t] = IF c.old = NULL THEN {} ELSE {c.old}
  BY DEF Has, HasOld
<1>3. live \cap Has[t] = {} /\ b \notin live /\ b \notin Has[t]
  BY DEF Apart, All
<1>4. /\ Others(t) /\ pc'[t] \in {"copy", "idle"} /\ Mine'[t] = {} /\ (Free => CallsOK')
      /\ live' \cap Has'[t] = {} /\ live' \cup Has'[t] = (live \cup Has[t]) \cup {b}
  <2>1. CASE c.op = "realloc" /\ c.old # NULL
    <3>1. call' = [call EXCEPT ![t].pos = addr] /\ Goto(t, "copy") /\ live' = live
      BY <2>1 DEF Deliver
    <3>2. /\ c = [op |-> c.op, size |-> c.size, desc |-> c.desc, pool |-> c.pool,
                  cnt |-> c.cnt, pos |-> c.pos, old |-> c.old]
          /\ c.size \in Nat \ {0} /\ c.desc \in Desc \cup {NULL} /\ c.cnt \in Nat
          /\ c.pool \in Pool /\ c.old \in Block \cup {NULL}
      BY <1>1 DEF Calls
    <3>3. call'[t] = [op |-> c.op, size |-> c.size, desc |-> c.desc, pool |-> c.pool,
                      cnt |-> c.cnt, pos |-> addr, old |-> c.old]
      BY <3>1, <3>2 DEF CallsOK
    <3>4. /\ call'[t].op = c.op /\ call'[t].size = c.size /\ call'[t].pos = addr
          /\ call'[t].old = c.old
      BY SMTT(40), <3>3
    <3>5. call'[t] \in Calls
      BY SMTT(40), <3>2, <3>3, <2>1 DEF Calls
    <3>6. /\ pc' \in [Thread -> Place] /\ pc'[t] = "copy" /\ DOMAIN call' = Thread
          /\ room' \in [Thread -> BOOLEAN] /\ Others(t)
      BY ZenonT(40), <3>1 DEF CallsOK, Others, Goto, Place, Cleared
    <3>7. New(t)' = b
      BY <3>4 DEF New
    <3>8. Has'[t] = {c.old, b} /\ Mine'[t] = {}
      BY <2>1, <3>4, <3>6, <3>7 DEF Has, HasOld, Mine
    <3>9. Place_OK(t)'
      <4>1. addr # NULL
        BY SMT, NullIs
      <4>2. b # c.old
        BY <2>1, <1>2, <1>3
      <4> QED
        BY <4>1, <4>2, <2>1, <3>4, <3>6, <3>7 DEF Place_OK
    <3>10. Free => CallsOK'
      BY <3>5, <3>6, <3>9, CallsKept
    <3> QED
      BY <2>1, <3>1, <3>6, <3>8, <3>10, <1>2, <1>3
  <2>2. CASE ~(c.op = "realloc" /\ c.old # NULL)
    <3>1. live' = live \cup {b} /\ Return(t)
      BY <2>2 DEF Deliver
    <3>2. c.old = NULL
      BY <2>2, <1>1 DEF Asked
    <3>3. Others(t) /\ pc'[t] = "idle" /\ Has'[t] = {} /\ Mine'[t] = {} /\ (Free => CallsOK')
      BY <3>1, Returned
    <3> QED
      BY <3>1, <3>2, <3>3, <1>2
  <2> QED
    BY <2>1, <2>2
<1>5. Mine' = [Mine EXCEPT ![t] = {}]
  BY <1>4, OthersHave
<1>6. All(live', Has') = All(live, Has) \cup {b} /\ Apart(live', Has')
  <2>1. \A u \in Thread \ {t} : Has'[u] = Has[u]
    BY <1>4, OthersHave
  <2> QED
    BY SMT, <2>1, <1>4, HandNew
<1> QED
  BY <1>4, <1>5, <1>6

\* No pages: realloc() gives the old block back to its owner.
LEMMA Refused ==
  ASSUME CallsOK, InOrder, NEW t \in Thread, pc[t] = "got", call[t].pos = NULL, Refuse(t),
         Cleared(t), UNCHANGED <<used_map, arena, free_list>>
  PROVE  Others(t) /\ pc'[t] = "idle" /\ CallsOK' /\ InOrder'
<1>1. Others(t) /\ pc'[t] = "idle" /\ Has'[t] = {} /\ Mine'[t] = {} /\ CallsOK'
  BY Returned, ArenasStay DEF Refuse
<1>2. Has[t] = (IF call[t].old = NULL THEN {} ELSE {call[t].old}) /\ Mine[t] = {}
  BY DEF Has, HasOld, Mine
<1>3. live' \cup Has'[t] = live \cup Has[t]
  BY <1>1, <1>2 DEF Refuse
<1> QED
  BY ZenonT(40), <1>1, <1>2, <1>3, InOrderSame

\* An arena's free_cnt says nothing about its blocks' size.
LEMMA RecountKeeps ==
  ASSUME NEW A \in [Ram -> Arena \cup {NULL}], NEW page \in SmallPages(A), NEW n \in Int,
         NEW q \in SmallPages(A)
  PROVE  LET A2 == Recount(A, page, n)
         IN q \in SmallPages(A2) /\ A2[q].desc = A[q].desc
<1> DEFINE A2 == Recount(A, page, n)
<1>1. page \in Ram /\ A[page] # NULL /\ q \in Ram /\ A[q] # NULL /\ A[q].desc # NULL
  BY DEF SmallPages
<1>2. CASE q # page
  <2>1. A2[q] = A[q]
    BY <1>1, <1>2 DEF Recount
  <2> QED
    BY <2>1, <1>1 DEF SmallPages
<1>3. CASE q = page
  <2>1. A[q] = [desc |-> A[q].desc, free_cnt |-> A[q].free_cnt] /\ A[q].desc \in Desc \cup {NULL}
    BY <1>1 DEF Arena
  <2>2. A2[q] = [desc |-> A[q].desc, free_cnt |-> n]
    BY <1>1, <1>3, <2>1 DEF Recount
  <2>3. A2[q] # NULL
    BY SMTT(40), <2>1, <2>2, MemoryAssumption
  <2> QED
    BY SMT, <2>2, <2>3, <1>1 DEF SmallPages
<1> QED
  BY <1>2, <1>3

\* malloc() with the descriptor's lock: the first block of the list, or on to
\* palloc_get_page() with the lock held.
LEMMA Keeps_malloc_small ==
  ASSUME IInv, NEW t \in Thread, malloc_small(t)
  PROVE  IInv'
<1> DEFINE c == call[t]
           d == c.desc
<1>1. CallsOK /\ LocksOK /\ RoomAhead /\ InOrder
  BY DEF IInv
<1>2. /\ pc[t] = "desc" /\ desc_lock[d] = NULL /\ UNCHANGED <<used_map, pool_lock, room>>
  BY DEF malloc_small
<1>3. c \in Calls /\ Asked(c) /\ d \in Desc /\ Place_OK(t) /\ c.op # "palloc"
      /\ c.size \in Nat \ {0} /\ c.size <= d
  BY <1>1, <1>2 DEF CallsOK, Place_OK, Calls, Asked
<1>4. Apart(live, Has) /\ Layout(All(live, Has), arena, free_list, Marked(used_map), Mine)
  BY <1>1, UsedAreMarked DEF InOrder, Held
<1>5. /\ used_map \in [Pool -> SUBSET Int]
      /\ \A q \in Pool : used_map[q] \subseteq Bits(0, bitmap_size(q))
      /\ pool_lock \in [Pool -> Thread \cup {NULL}]
      /\ desc_lock \in [Desc -> Thread \cup {NULL}]
      /\ \A q \in Pool : pool_lock[q] # t
      /\ \A e \in Desc : desc_lock[e] # t
  BY <1>1, <1>2 DEF LocksOK, TypeOK
<1>6. CASE free_list[d] = <<>>
  <2>1. /\ desc_lock' = [desc_lock EXCEPT ![d] = t] /\ Goto(t, "pool")
        /\ UNCHANGED <<arena, free_list, live, call>>
    BY <1>6 DEF malloc_small
  <2>2. /\ pc' \in [Thread -> Place] /\ pc'[t] = "pool" /\ DOMAIN call' = Thread /\ call'[t] = c
        /\ room' \in [Thread -> BOOLEAN] /\ Others(t)
    BY <2>1, <1>1, <1>2 DEF CallsOK, Others, Goto, Place
  <2>3. CallsOK'
    <3>1. Place_OK(t)'
      BY <2>2, <1>2, <1>3 DEF Place_OK
    <3> QED
      BY <3>1, <2>1, <2>2, <1>1, <1>3, ArenasStay, CallsKept
  <2>4. LocksOK'
    <3>1. /\ desc_lock' \in [Desc -> Thread \cup {NULL}]
          /\ \A e \in Desc : desc_lock'[e] = IF e = d THEN t ELSE desc_lock[e]
      BY ZenonT(40), <2>1, <1>5
    <3>2. \A e \in Desc : desc_lock'[e] = t <=>
            pc'[t] \in {"pool", "scan", "got", "clear"} /\ call'[t].desc = e
      BY <3>1, <2>2, <1>5
    <3>3. \A e \in Desc : desc_lock'[e] # desc_lock[e] =>
            {desc_lock[e], desc_lock'[e]} \subseteq {t, NULL}
      BY <3>1, <1>2
    <3>4. \A q \in Pool : pool_lock'[q] = t <=> pc'[t] = "scan" /\ call'[t].pool = q
      BY <2>2, <1>2, <1>5
    <3>5. free_list'[call'[t].desc] = <<>>
      BY <1>6, <2>1, <2>2
    <3> QED
      BY ZenonT(40), <3>1, <3>2, <3>3, <3>4, <3>5, <2>1, <2>2, <1>1, <1>2, <1>5, LocksKept
  <2>5. RoomAhead'
    BY <2>2, <1>1, <1>2, RoomKept
  <2>6. InOrder'
    <3>1. Has'[t] = Has[t] /\ Mine[t] = {} /\ Mine'[t] = {}
      BY <2>2, <1>2 DEF Has, HasOld, Mine
    <3>2. live' \cap Has'[t] = {}
      BY <3>1, <2>1, <1>4 DEF Apart
    <3> QED
      BY ZenonT(40), <3>1, <3>2, <2>1, <2>2, <1>1, <1>2, InOrderSame
  <2> QED
    BY <2>3, <2>4, <2>5, <2>6 DEF IInv
<1>7. CASE free_list[d] # <<>>
  <2> DEFINE x == Head(free_list[d])
             page == pg_no(x)
             n == arena[page].free_cnt - 1
             b == Live("block", x, c.size)
  <2>1. /\ free_list' = [free_list EXCEPT ![d] = Tail(free_list[d])]
        /\ arena' = [arena EXCEPT ![page].free_cnt = n]
        /\ Deliver(t, x) /\ UNCHANGED desc_lock
    BY <1>7 DEF malloc_small, TakeBlock
  <2>2. arena' = Recount(arena, page, n)
    BY <2>1 DEF Recount
  <2>3. /\ arena \in [Ram -> Arena \cup {NULL}] /\ free_list \in [Desc -> Seq(Nat)]
        /\ Once(free_list[d])
    BY <1>3, <1>4 DEF Layout, PagesOwned, BlocksOwned
  <2>4. x \in Nat /\ x \in Items(free_list[d])
    BY <2>3, <1>3, <1>7, PopFront
  <2>5. page \in SmallPages(arena)
    BY <2>4, <1>3, <1>4 DEF Layout, BlocksOwned
  <2>6. n \in Int
    BY SMT, <2>3, <2>5 DEF SmallPages, Arena
  <2>7. /\ Layout(All(live, Has) \cup {b}, Recount(arena, page, n), free_list', Marked(used_map), Mine)
        /\ b \notin All(live, Has)
    <3> DEFINE L2 == [free_list EXCEPT ![d] = Tail(free_list[d])]
               A2 == Recount(arena, page, arena[page].free_cnt - 1)
               H == All(live, Has)
               U == Marked(used_map)
               size == c.size
    <3>1. x = Head(free_list[d]) /\ page = pg_no(x) /\ b = Live("block", x, size)
      OBVIOUS
    <3>2. /\ Layout(H, arena, free_list, U, Mine) /\ d \in Desc /\ free_list[d] # <<>>
          /\ size \in Nat \ {0} /\ size <= d
      BY <1>3, <1>4, <1>7
    <3>3. Layout(H \cup {b}, A2, L2, U, Mine) /\ b \notin H
      <4> HIDE DEF x, page, b, d, c, H, U, size
      <4> QED
        BY <3>1, <3>2, TakeListed
    <3> QED
      BY <3>3, <2>1
  <2> HIDE DEF b, n, page
  <2>8. /\ Others(t) /\ pc'[t] \in {"copy", "idle"}
        /\ Apart(live', Has') /\ All(live', Has') = All(live, Has) \cup {b}
        /\ Mine' = [Mine EXCEPT ![t] = {}] /\ CallsOK'
    <3>1. \A u \in Thread \ {t} : pc[u] = "free" =>
            LET q == pg_no(call[u].pos)
            IN q \in SmallPages(arena') /\ arena'[q].desc = arena[q].desc
      <4>1. \A u \in Thread \ {t} : pc[u] = "free" => pg_no(call[u].pos) \in SmallPages(arena)
        BY <1>1 DEF CallsOK, Place_OK
      <4> QED
        BY <4>1, <2>2, <2>3, <2>5, <2>6, RecountKeeps
    <3>2. b = Live("block", x, call[t].size)
      BY DEF b
    <3> HIDE DEF x, c
    <3> QED
      BY ZenonT(40), <3>1, <3>2, <2>1, <2>4, <2>7, <1>1, <1>2, <1>3, <1>4, Delivered DEF c
  <2>9. LocksOK'
    <3>1. \A e \in Desc : e # d => free_list'[e] = free_list[e]
      BY <2>1, <2>3
    <3>2. \A e \in Desc : free_list'[e] # free_list[e] => desc_lock[e] \in {t, NULL}
      BY <3>1, <1>2
    <3> QED
      BY <3>2, <2>1, <2>8, <1>1, <1>2, <1>5, LocksKept
  <2>10. RoomAhead'
    BY <2>8, <1>1, <1>2, RoomKept
  <2>11. InOrder'
    <3>1. Mine' = Mine
      BY ZenonT(40), <2>8, <1>2 DEF Mine
    <3> QED
      BY <3>1, <2>2, <2>7, <2>8, <1>2, InOrderNow
  <2> QED
    BY <2>8, <2>9, <2>10, <2>11 DEF IInv
<1> QED
  BY <1>6, <1>7

\* malloc() with the page it asked for, or without.
LEMMA Keeps_malloc_arena ==
  ASSUME IInv, NEW t \in Thread, malloc_arena(t)
  PROVE  IInv'
<1> DEFINE c == call[t]
           d == c.desc
           page == base("kernel") + c.pos
           s == NewList(page, d)
           n == blocks_per_arena(d)
<1>1. CallsOK /\ LocksOK /\ RoomAhead /\ InOrder
  BY DEF IInv
<1>2. /\ pc[t] = "got" /\ c.op # "palloc" /\ d # NULL
      /\ desc_lock' = [desc_lock EXCEPT ![d] = NULL] /\ Cleared(t)
      /\ UNCHANGED <<used_map, pool_lock>>
  BY DEF malloc_arena
<1>3. /\ c \in Calls /\ Asked(c) /\ d \in Desc /\ c.size \in Nat \ {0} /\ c.size <= d
      /\ c.pool = "kernel" /\ c.cnt = 1
      /\ c.pos # NULL => page \in Nat /\ Mine[t] = Bits(page, 1)
  <2>1. /\ c \in Calls /\ Asked(c) /\ d \in Desc /\ c.size \in Nat \ {0} /\ c.size <= d
        /\ c.pool = "kernel" /\ c.cnt = 1
    BY <1>1, <1>2, GotIs DEF Calls, Asked
  <2>2. c.pos # NULL =>
          base(c.pool) + c.pos \in Nat /\ Mine[t] = Bits(base(c.pool) + c.pos, c.cnt)
    BY <1>1, <1>2, GotIs
  <2> QED
    BY <2>1, <2>2
<1>4. Apart(live, Has) /\ Layout(All(live, Has), arena, free_list, Marked(used_map), Mine)
  BY <1>1, UsedAreMarked DEF InOrder, Held
<1>5. /\ used_map \in [Pool -> SUBSET Int]
      /\ \A q \in Pool : used_map[q] \subseteq Bits(0, bitmap_size(q))
      /\ pool_lock \in [Pool -> Thread \cup {NULL}]
      /\ desc_lock \in [Desc -> Thread \cup {NULL}]
      /\ \A q \in Pool : pool_lock[q] # t
      /\ \A e \in Desc : desc_lock[e] = t <=> d = e
      /\ free_list[d] = <<>>
  BY <1>1, <1>2 DEF LocksOK, TypeOK
<1>6. /\ desc_lock' \in [Desc -> Thread \cup {NULL}]
      /\ \A e \in Desc : desc_lock'[e] = IF e = d THEN NULL ELSE desc_lock[e]
  BY ZenonT(40), <1>2, <1>5
<1>7. ASSUME Others(t), pc'[t] \in {"copy", "idle"}, CallsOK', InOrder',
             \A e \in Desc : e # d => free_list'[e] = free_list[e]
      PROVE  IInv'
  <2>1. \A e \in Desc : desc_lock'[e] # t
    BY <1>5, <1>6, NullIs
  <2>2. \A e \in Desc : desc_lock'[e] # desc_lock[e] =>
          {desc_lock[e], desc_lock'[e]} \subseteq {t, NULL}
    BY <1>5, <1>6
  <2>3. \A e \in Desc : free_list'[e] # free_list[e] => desc_lock[e] \in {t, NULL}
    BY <1>5, <1>7
  <2>4. LocksOK'
    BY <2>1, <2>2, <2>3, <1>1, <1>2, <1>5, <1>6, <1>7, LocksKept
  <2>5. RoomAhead'
    BY <1>1, <1>2, <1>7, RoomKept
  <2> QED
    BY <2>4, <2>5, <1>7 DEF IInv
<1>8. CASE c.pos = NULL
  <2>1. Refuse(t) /\ UNCHANGED <<arena, free_list>>
    BY <1>8 DEF malloc_arena
  <2>2. Others(t) /\ pc'[t] = "idle" /\ CallsOK' /\ InOrder'
    BY <2>1, <1>1, <1>2, <1>8, Refused
  <2> QED
    BY <2>1, <2>2, <1>7
<1>9. CASE c.pos # NULL
  <2> DEFINE x == Head(s)
             b == Live("block", x, c.size)
             new == [desc |-> d, free_cnt |-> n - 1]
             A1 == [arena EXCEPT ![page] = [desc |-> d, free_cnt |-> n]]
  <2>1. TakeBlock(t, free_list[d] \o s, A1)
    BY <1>9 DEF malloc_arena, NewList
  <2>2. /\ arena \in [Ram -> Arena \cup {NULL}] /\ free_list \in [Desc -> Seq(Nat)]
        /\ page \in Nat /\ Mine[t] = {page} /\ page \in Ram /\ page \notin SmallPages(arena)
    <3>1. page \in Nat /\ Mine[t] = Bits(page, 1)
      BY <1>3, <1>9
    <3>2. Bits(page, 1) = {page}
      BY SMT, <3>1 DEF Bits
    <3>3. /\ arena \in [Ram -> Arena \cup {NULL}] /\ free_list \in [Desc -> Seq(Nat)]
          /\ Mine[t] \subseteq Ram /\ Mine[t] \cap SmallPages(arena) = {}
      BY <1>4 DEF Layout, PagesOwned, BlocksOwned
    <3> QED
      BY <3>1, <3>2, <3>3
  <2>3. s \in Seq(Nat) /\ s # <<>> /\ x \in Blocks(page, d) /\ x \in Nat /\ pg_no(x) = page
    <3>1. s \in Seq(Nat) /\ s # <<>> /\ Once(s) /\ Items(s) = Blocks(page, d)
      <4> HIDE DEF page, d
      <4> QED
        BY <2>2, <1>3, NewBlocks
    <3>2. x \in Nat /\ x \in Items(s)
      <4> HIDE DEF s
      <4> QED
        BY <3>1, PopFront
    <3> HIDE DEF x, s, d, page
    <3> QED
      BY SMTT(40), <3>1, <3>2, <2>2, <1>3, BlockPlace
  <2>4. free_list[d] \o s = s
    <3> HIDE DEF s, d
    <3>1. <<>> \o s = s
      BY SMT, <2>3
    <3> QED
      BY <3>1, <1>5
  <2>5. /\ free_list' = [free_list EXCEPT ![d] = Tail(s)]
        /\ arena' = [A1 EXCEPT ![pg_no(x)].free_cnt = @ - 1]
        /\ Deliver(t, x)
    <3>1. TakeBlock(t, s, A1)
      BY ZenonT(40), <2>1, <2>4
    <3> HIDE DEF s, A1
    <3> QED
      BY <3>1 DEF TakeBlock
  <2>6. arena' = [arena EXCEPT ![page] = new]
    <3> HIDE DEF page, d, n, x, s, c
    <3>1. arena' = [A1 EXCEPT ![page].free_cnt = @ - 1]
      BY <2>3, <2>5
    <3>2. A1[page] = [desc |-> d, free_cnt |-> n] /\ DOMAIN A1 = Ram /\ DOMAIN arena = Ram
          /\ \A q \in Ram : q # page => A1[q] = arena[q]
      BY <2>2
    <3> HIDE DEF A1
    <3>3. [A1[page] EXCEPT !.free_cnt = @ - 1] = new
      BY SMT, <3>2
    <3>4. DOMAIN arena' = Ram /\ arena' = [q \in Ram |-> arena'[q]]
      BY ZenonT(40), <3>1, <3>2
    <3>5. \A q \in Ram : arena'[q] = IF q = page THEN new ELSE arena[q]
      BY <3>1, <3>2, <3>3
    <3>6. [arena EXCEPT ![page] = new] = [q \in Ram |-> IF q = page THEN new ELSE arena[q]]
      BY ZenonT(40), <3>2
    <3> QED
      BY <3>4, <3>5, <3>6
  <2>7. /\ Layout(All(live, Has) \cup {b}, [arena EXCEPT ![page] = new],
                  [free_list EXCEPT ![d] = Tail(s)], Marked(used_map), [Mine EXCEPT ![t] = {}])
        /\ b \notin All(live, Has)
    <3> DEFINE size == c.size
               H == All(live, Has)
               U == Marked(used_map)
    <3>1. FirstOf(page, d, size, s, b, new)
      BY <2>2, <1>3 DEF FirstOf
    <3>2. Layout(H, arena, free_list, U, Mine) /\ Mine[t] = {page} /\ free_list[d] = <<>>
      BY <2>2, <1>4, <1>5
    <3> HIDE DEF s, b, page, d, c, size, H, U, new
    <3>3. /\ Layout(H \cup {b}, [arena EXCEPT ![page] = new],
                    [free_list EXCEPT ![d] = Tail(s)], U, [Mine EXCEPT ![t] = {}])
          /\ b \notin H
      BY ZenonT(40), <3>1, <3>2, NewArena
    <3> QED
      BY <3>3 DEF H, U
  <2>8. /\ Others(t) /\ pc'[t] \in {"copy", "idle"}
        /\ Apart(live', Has') /\ All(live', Has') = All(live, Has) \cup {b}
        /\ Mine' = [Mine EXCEPT ![t] = {}] /\ CallsOK'
    <3>1. \A u \in Thread \ {t} : pc[u] = "free" =>
            LET q == pg_no(call[u].pos)
            IN q \in SmallPages(arena') /\ arena'[q].desc = arena[q].desc
      <4>1. \A u \in Thread \ {t} : pc[u] = "free" => pg_no(call[u].pos) \in SmallPages(arena)
        BY <1>1 DEF CallsOK, Place_OK
      <4> HIDE DEF page, new
      <4>2. \A q \in SmallPages(arena) : q \in Ram /\ arena'[q] = arena[q]
        BY <2>2, <2>6 DEF SmallPages
      <4>3. \A q \in SmallPages(arena) : q \in SmallPages(arena')
        BY <4>2 DEF SmallPages
      <4> QED
        BY <4>1, <4>2, <4>3
    <3>2. b = Live("block", x, call[t].size) /\ call[t].op # "palloc" /\ pc[t] = "got"
      BY <1>2
    <3> HIDE DEF b, x, c
    <3> QED
      BY ZenonT(40), <3>1, <3>2, <2>3, <2>5, <2>7, <1>1, <1>2, <1>4, Delivered
  <2>9. InOrder'
    <3> HIDE DEF b, new, page, d, s
    <3> QED
      BY ZenonT(40), <2>5, <2>6, <2>7, <2>8, <1>2, InOrderNow
  <2>10. \A e \in Desc : e # d => free_list'[e] = free_list[e]
    <3> HIDE DEF s, d
    <3> QED
      BY <2>2, <2>5
  <2> QED
    BY <2>8, <2>9, <2>10, <1>7
<1> QED
  BY <1>8, <1>9

\* malloc() of a big block with the pages it asked for, or without.
LEMMA Keeps_malloc_big ==
  ASSUME IInv, NEW t \in Thread, malloc_big(t)
  PROVE  IInv'
<1> DEFINE c == call[t]
           page == base("kernel") + c.pos
<1>1. CallsOK /\ LocksOK /\ RoomAhead /\ InOrder
  BY DEF IInv
<1>2. /\ pc[t] = "got" /\ c.op # "palloc" /\ c.desc = NULL /\ Cleared(t)
      /\ UNCHANGED <<used_map, pool_lock, free_list, desc_lock>>
  BY DEF malloc_big
<1>3. /\ c.size \in Nat \ {0} /\ c.cnt = DIV_ROUND_UP(c.size + HEADER, PGSIZE)
      /\ c.pos # NULL => page \in Nat /\ Mine[t] = Bits(page, c.cnt)
  <2>1. /\ c.size \in Nat \ {0} /\ c.cnt = DIV_ROUND_UP(c.size + HEADER, PGSIZE)
        /\ c.pool = "kernel"
    BY <1>1, <1>2, GotIs DEF Calls, Asked
  <2>2. c.pos # NULL =>
          base(c.pool) + c.pos \in Nat /\ Mine[t] = Bits(base(c.pool) + c.pos, c.cnt)
    BY <1>1, <1>2, GotIs
  <2> QED
    BY <2>1, <2>2
<1>4. Apart(live, Has) /\ Layout(All(live, Has), arena, free_list, Marked(used_map), Mine)
  BY <1>1, UsedAreMarked DEF InOrder, Held
<1>5. ASSUME Others(t), pc'[t] \in {"copy", "idle"}, CallsOK', InOrder'
      PROVE  IInv'
  <2>1. LocksOK'
    BY <1>1, <1>2, <1>5, LocksAlone
  <2>2. RoomAhead'
    BY <1>1, <1>2, <1>5, RoomKept
  <2> QED
    BY <2>1, <2>2, <1>5 DEF IInv
<1>6. CASE c.pos = NULL
  <2>1. Refuse(t) /\ UNCHANGED arena
    BY <1>6 DEF malloc_big
  <2>2. Others(t) /\ pc'[t] = "idle" /\ CallsOK' /\ InOrder'
    BY <2>1, <1>1, <1>2, <1>6, Refused
  <2> QED
    BY <2>2, <1>5
<1>7. CASE c.pos # NULL
  <2> DEFINE x == PGSIZE * page + HEADER
             b == Live("block", x, c.size)
             new == [desc |-> NULL, free_cnt |-> c.cnt]
  <2>1. arena' = [arena EXCEPT ![page] = new] /\ Deliver(t, x)
    BY <1>7 DEF malloc_big
  <2>2. /\ b \in Block /\ pg_no(b.addr) = page /\ Span(b) = Bits(page, c.cnt) /\ Mine[t] = Span(b)
        /\ page \in Nat
    <3>1. page \in Nat /\ Mine[t] = Bits(page, c.cnt)
      BY <1>3, <1>7
    <3>2. /\ b \in Block /\ pg_no(b.addr) = page
          /\ Span(b) = Bits(page, DIV_ROUND_UP(c.size + HEADER, PGSIZE))
      <4> HIDE DEF page, c
      <4> QED
        BY <3>1, <1>3, BigSpan
    <3> QED
      BY <3>1, <3>2, <1>3
  <2>3. x \in Nat /\ b.kind = "block" /\ b.addr = x /\ b.size = c.size
    <3>1. b.kind = "block" /\ b.addr = x /\ b.size = c.size
      BY DEF Live
    <3> QED
      BY <3>1, <2>2 DEF Block
  <2>4. /\ arena \in [Ram -> Arena \cup {NULL}] /\ page \in Ram /\ page \notin SmallPages(arena)
    <3>1. pg_no(b.addr) \in Span(b)
      BY <2>2, SpanBytes
    <3>2. /\ arena \in [Ram -> Arena \cup {NULL}]
          /\ Mine[t] \subseteq Ram /\ Mine[t] \cap SmallPages(arena) = {}
      BY <1>4 DEF Layout, PagesOwned
    <3> QED
      BY <3>1, <3>2, <2>2
  <2>5. /\ Layout(All(live, Has) \cup {b}, [arena EXCEPT ![pg_no(b.addr)] = new],
                  free_list, Marked(used_map), [Mine EXCEPT ![t] = {}])
        /\ b \notin All(live, Has)
    <3>1. b.addr = PGSIZE * pg_no(b.addr) + HEADER
      BY <2>2, <2>3
    <3>2. new = [desc |-> NULL, free_cnt |-> DIV_ROUND_UP(b.size + HEADER, PGSIZE)]
      BY <2>3, <1>3
    <3> HIDE DEF b, new
    <3> QED
      BY SMTT(40), <3>1, <3>2, <2>2, <2>3, <1>4, Give
  <2>6. /\ Others(t) /\ pc'[t] \in {"copy", "idle"}
        /\ Apart(live', Has') /\ All(live', Has') = All(live, Has) \cup {b}
        /\ Mine' = [Mine EXCEPT ![t] = {}] /\ CallsOK'
    <3>1. \A u \in Thread \ {t} : pc[u] = "free" =>
            LET q == pg_no(call[u].pos)
            IN q \in SmallPages(arena') /\ arena'[q].desc = arena[q].desc
      <4>1. \A u \in Thread \ {t} : pc[u] = "free" => pg_no(call[u].pos) \in SmallPages(arena)
        BY <1>1 DEF CallsOK, Place_OK
      <4> HIDE DEF page, new
      <4>2. \A q \in SmallPages(arena) : q \in Ram /\ arena'[q] = arena[q]
        BY <2>1, <2>4 DEF SmallPages
      <4>3. \A q \in SmallPages(arena) : q \in SmallPages(arena')
        BY <4>2 DEF SmallPages
      <4> QED
        BY <4>1, <4>2, <4>3
    <3>2. b = Live("block", x, call[t].size) /\ call[t].op # "palloc" /\ pc[t] = "got"
      BY <1>2
    <3> HIDE DEF b, x, c
    <3> QED
      BY ZenonT(40), <3>1, <3>2, <2>1, <2>3, <2>5, <1>1, <1>2, <1>4, Delivered
  <2>7. InOrder'
    <3> HIDE DEF b, new, page
    <3> QED
      BY <2>1, <2>2, <2>5, <2>6, <1>2, InOrderNow
  <2> QED
    BY <2>6, <2>7, <1>5
<1> QED
  BY <1>6, <1>7

\* free() begins: a block of a small arena is held until it is listed; the
\* pages of any other are the thread's.
LEMMA Released ==
  ASSUME CallsOK, InOrder, NEW t \in Thread, NEW block \in live \cup Has[t], Mine[t] = {},
         release(t, block), live' = (live \cup Has[t]) \ {block},
         UNCHANGED <<used_map, arena, free_list, room>>
  PROVE  /\ Others(t) /\ CallsOK' /\ InOrder' /\ pc'[t] \in {"clear", "free"}
         /\ pc'[t] = "clear" => call'[t].desc = NULL
<1> DEFINE H == All(live, Has)
           page == pg_no(block.addr)
           d == IF block.kind = "pages" THEN NULL ELSE arena[page].desc
           cnt == IF block.kind = "pages" THEN block.size \div PGSIZE ELSE arena[page].free_cnt
           next == IF d = NULL THEN "clear" ELSE "free"
           pos == IF d = NULL THEN page ELSE block.addr
           c == [op |-> "free", size |-> block.size, desc |-> d, pool |-> "kernel", cnt |-> cnt,
                 pos |-> pos, old |-> block]
<1>1. Apart(live, Has) /\ Layout(H, arena, free_list, Marked(used_map), Mine)
  BY UsedAreMarked DEF InOrder, Held
<1>2. PagesOwned(H, arena, Marked(used_map), Mine) /\ block \in H
  BY <1>1 DEF Layout, All
<1>3. call' = [call EXCEPT ![t] = c] /\ Goto(t, next)
  <2>1. /\ call' = [call EXCEPT ![t] = [Call("free", block.size, d, "kernel", cnt, block)
                                         EXCEPT !.pos = pos]]
        /\ Goto(t, next)
    BY DEF release
  <2> HIDE DEF d, cnt, pos, next
  <2>2. [Call("free", block.size, d, "kernel", cnt, block) EXCEPT !.pos = pos] = c
    BY SMTT(40) DEF Call
  <2> QED
    BY ZenonT(40), <2>1, <2>2
<1>4. /\ block \in Block /\ page \in Ram /\ page \in Nat
      /\ arena \in [Ram -> Arena \cup {NULL}]
      /\ Sits(block, arena) => Small(block, arena) /\ arena[page].desc \in Desc
      /\ ~Sits(block, arena) => WholePages(block) \/ Big(block, arena)
  <2>1. /\ block \in Block /\ page \in Ram
        /\ Sits(block, arena) => Small(block, arena) /\ arena[page].desc \in Desc
        /\ ~Sits(block, arena) => WholePages(block) \/ Big(block, arena)
    <3> HIDE DEF H
    <3> QED
      BY <1>2, HeldWhere
  <2> QED
    BY SMT, <2>1, <1>2 DEF PagesOwned, Ram
<1>5. /\ block.addr \in Nat /\ block.size \in Nat \ {0} /\ block.kind \in {"pages", "block"}
      /\ block # NULL
  BY <1>4, NullIs DEF Block
<1>6. CASE Sits(block, arena)
  <2>1. page \in SmallPages(arena) /\ block.kind = "block" /\ d = arena[page].desc /\ d \in Desc
        /\ cnt \in Nat /\ d # NULL
    <3>1. page \in SmallPages(arena) /\ block.kind = "block"
      BY <1>6 DEF Sits
    <3>2. d = arena[page].desc /\ d \in Desc /\ cnt = arena[page].free_cnt
      BY <3>1, <1>4, <1>6
    <3>3. arena[page].free_cnt \in Nat
      BY <3>1, <1>4 DEF SmallPages, Arena
    <3> QED
      BY <3>1, <3>2, <3>3, NullIs
  <2>2. next = "free" /\ pos = block.addr
    BY <2>1
  <2> HIDE DEF d, cnt, next, pos
  <2>3. c \in Calls
    BY <2>1, <2>2, <1>4, <1>5 DEF Calls, Pool
  <2>4. c.desc = d /\ c.pos = block.addr /\ c.old = block
    BY <2>2
  <2> HIDE DEF c
  <2>5. /\ pc' \in [Thread -> Place] /\ pc'[t] = "free" /\ DOMAIN call' = Thread /\ call'[t] = c
        /\ room' \in [Thread -> BOOLEAN] /\ Others(t)
    BY <2>2, <1>3 DEF CallsOK, Goto, Place, Others
  <2>6. Place_OK(t)'
    BY <2>1, <2>4, <2>5, <1>5 DEF Place_OK
  <2>7. CallsOK'
    BY <2>3, <2>5, <2>6, ArenasStay, CallsKept
  <2>8. Has'[t] = {block} /\ Mine'[t] = {}
    BY <2>4, <2>5, <1>5 DEF Has, HasOld, Mine
  <2>9. live' \cap Has'[t] = {} /\ live' \cup Has'[t] = live \cup Has[t]
    BY <2>8
  <2>10. InOrder'
    BY ZenonT(40), <2>5, <2>8, <2>9, InOrderSame
  <2> QED
    BY <2>5, <2>7, <2>10
<1>7. CASE ~Sits(block, arena)
  <2>1. d = NULL /\ cnt \in Nat \ {0} /\ Span(block) = Bits(page, cnt)
    <3>1. CASE WholePages(block)
      <4>1. block.kind = "pages"
        BY <3>1 DEF WholePages
      <4>2. block.size \div PGSIZE \in Nat \ {0} /\ Span(block) = Bits(page, block.size \div PGSIZE)
        BY <3>1, <1>4, WholeSpan
      <4> QED
        BY <4>1, <4>2
    <3>2. CASE Big(block, arena)
      <4> DEFINE n == DIV_ROUND_UP(block.size + HEADER, PGSIZE)
      <4>1. /\ block.kind = "block" /\ block.addr = PGSIZE * page + HEADER
            /\ arena[page] = [desc |-> NULL, free_cnt |-> n]
        BY <3>2 DEF Big
      <4>2. n \in Nat \ {0} /\ Span(block) = Bits(page, n)
        <5>1. block = Live("block", PGSIZE * page + HEADER, block.size)
          BY <4>1, <1>4 DEF Block, Live
        <5> HIDE DEF page
        <5> QED
          BY <5>1, <1>4, <1>5, BigSpan
      <4> HIDE DEF n
      <4>3. d = NULL /\ cnt = n
        BY SMT, <4>1
      <4> QED
        BY <4>2, <4>3
    <3> QED
      BY <3>1, <3>2, <1>4, <1>7
  <2>2. next = "clear" /\ pos = page
    BY <2>1
  <2> HIDE DEF d, cnt, next, pos
  <2>3. c \in Calls
    BY <2>1, <2>2, <1>4, <1>5 DEF Calls, Pool
  <2>4. c.desc = NULL /\ c.pos = page /\ c.old = block /\ c.cnt = cnt
    BY <2>1, <2>2
  <2> HIDE DEF c, page
  <2>5. /\ pc' \in [Thread -> Place] /\ pc'[t] = "clear" /\ DOMAIN call' = Thread /\ call'[t] = c
        /\ room' \in [Thread -> BOOLEAN] /\ Others(t)
    BY <2>2, <1>3 DEF CallsOK, Goto, Place, Others
  <2>6. Place_OK(t)'
    <3>1. page # NULL
      BY SMT, <1>4, NullIs
    <3> QED
      BY <3>1, <2>1, <2>4, <2>5 DEF Place_OK
  <2>7. CallsOK'
    BY <2>3, <2>5, <2>6, ArenasStay, CallsKept
  <2>8. Has'[t] = {} /\ Mine'[t] = Span(block)
    BY <2>1, <2>4, <2>5 DEF Has, HasOld, Mine
  <2>9. Layout(H \ {block}, arena, free_list, Marked(used_map), [Mine EXCEPT ![t] = Span(block)])
    <3> HIDE DEF H
    <3> QED
      BY <1>1, <1>2, <1>7, TakeBack
  <2>10. Mine' = [Mine EXCEPT ![t] = Span(block)]
    BY <2>5, <2>8, OthersHave
  <2>11. All(live', Has') = H \ {block} /\ Apart(live', Has')
    <3>1. \A u \in Thread \ {t} : Has'[u] = Has[u]
      BY <2>5, OthersHave
    <3>2. live' \cap Has'[t] = {} /\ live' \cup Has'[t] = (live \cup Has[t]) \ {block}
      BY <2>8
    <3> QED
      BY SMTT(40), <3>1, <3>2, <1>1, HandBack
  <2>12. InOrder'
    <3> HIDE DEF H
    <3> QED
      BY <2>9, <2>10, <2>11, InOrderNow
  <2> QED
    BY <2>4, <2>5, <2>7, <2>12
<1> QED
  BY <1>6, <1>7

\* free() of a block that its caller has.
LEMMA Keeps_free ==
  ASSUME IInv, NEW t \in Thread, NEW block \in live, free(t, block)
  PROVE  IInv'
<1>1. CallsOK /\ LocksOK /\ RoomAhead /\ InOrder
  BY DEF IInv
<1>2. /\ pc[t] = "idle" /\ live' = live \ {block} /\ release(t, block)
      /\ UNCHANGED <<used_map, pool_lock, arena, free_list, desc_lock, room>>
  BY DEF free
<1>3. Has[t] = {} /\ Mine[t] = {}
  BY <1>2 DEF Has, HasOld, Mine
<1>4. /\ Others(t) /\ CallsOK' /\ InOrder' /\ pc'[t] \in {"clear", "free"}
      /\ pc'[t] = "clear" => call'[t].desc = NULL
  <2>1. block \in live \cup Has[t] /\ live' = (live \cup Has[t]) \ {block}
    BY <1>2, <1>3
  <2> QED
    BY <2>1, <1>1, <1>2, <1>3, Released
<1>5. LocksOK'
  BY <1>1, <1>2, <1>4, LocksAlone
<1>6. RoomAhead'
  BY <1>1, <1>2, <1>4, RoomKept
<1> QED
  BY <1>4, <1>5, <1>6 DEF IInv

\* realloc() has copied: the caller has the new block, and the old one is freed.
LEMMA Keeps_realloc_copy ==
  ASSUME IInv, NEW t \in Thread, realloc_copy(t)
  PROVE  IInv'
<1> DEFINE old == call[t].old
<1>1. CallsOK /\ LocksOK /\ RoomAhead /\ InOrder
  BY DEF IInv
<1>2. /\ pc[t] = "copy" /\ live' = live \cup {New(t)} /\ release(t, old)
      /\ UNCHANGED <<used_map, pool_lock, arena, free_list, desc_lock, room>>
  BY DEF realloc_copy, New
<1>3. old # NULL /\ New(t) # old
  BY <1>1, <1>2 DEF CallsOK, Place_OK
<1>4. Has[t] = {old, New(t)} /\ Mine[t] = {}
  BY <1>2, <1>3 DEF Has, HasOld, Mine
<1>5. live \cap Has[t] = {}
  BY <1>1 DEF InOrder, Apart
<1>6. /\ Others(t) /\ CallsOK' /\ InOrder' /\ pc'[t] \in {"clear", "free"}
      /\ pc'[t] = "clear" => call'[t].desc = NULL
  <2>1. old \in live \cup Has[t] /\ live' = (live \cup Has[t]) \ {old}
    BY <1>2, <1>3, <1>4, <1>5
  <2> QED
    BY <2>1, <1>1, <1>2, <1>4, Released
<1>7. LocksOK'
  BY <1>1, <1>2, <1>6, LocksAlone
<1>8. RoomAhead'
  BY <1>1, <1>2, <1>6, RoomKept
<1> QED
  BY <1>6, <1>7, <1>8 DEF IInv

\* free() of a small block with the descriptor's lock: it is listed, or its
\* arena is in use no more and goes back, with the lock held.
LEMMA Keeps_free_small ==
  ASSUME IInv, NEW t \in Thread, free_small(t)
  PROVE  IInv'
<1> DEFINE c == call[t]
           d == c.desc
           b == c.old
           page == pg_no(c.pos)
           cnt == arena[page].free_cnt + 1
           H == All(live, Has)
<1>1. CallsOK /\ LocksOK /\ RoomAhead /\ InOrder
  BY DEF IInv
<1>2. pc[t] = "free" /\ desc_lock[d] = NULL /\ UNCHANGED <<used_map, pool_lock, live, room>>
  BY DEF free_small
<1>3. /\ c \in Calls /\ b # NULL /\ b.kind = "block" /\ c.pos = b.addr /\ d # NULL
      /\ page = pg_no(b.addr) /\ page \in SmallPages(arena) /\ d = arena[page].desc
  BY <1>1, <1>2 DEF CallsOK, Place_OK
<1>4. b \in Block /\ d \in Desc /\ Sits(b, arena)
  BY <1>3 DEF Calls, Sits
<1>5. Has[t] = {b} /\ Mine[t] = {}
  BY <1>2, <1>3 DEF Has, HasOld, Mine
<1>6. /\ Apart(live, Has) /\ Layout(H, arena, free_list, Marked(used_map), Mine) /\ b \in H
      /\ live \cap Has[t] = {}
  BY <1>1, <1>5, UsedAreMarked DEF InOrder, Held, All, Apart
<1>7. /\ arena \in [Ram -> Arena \cup {NULL}] /\ free_list \in [Desc -> Seq(Nat)]
      /\ page \in Ram /\ page \in Nat /\ cnt \in Nat /\ blocks_per_arena(d) \in Nat
  <2>1. arena \in [Ram -> Arena \cup {NULL}] /\ free_list \in [Desc -> Seq(Nat)]
    BY <1>6 DEF Layout, PagesOwned, BlocksOwned
  <2>2. page \in Ram /\ page \in Nat /\ arena[page] # NULL
    BY SMTT(40), <1>3 DEF SmallPages, Ram
  <2>3. cnt \in Nat
    BY SMT, <2>1, <2>2 DEF Arena
  <2>4. blocks_per_arena(d) \in Nat
    BY <1>4, DescFits
  <2> QED
    BY <2>1, <2>2, <2>3, <2>4
<1>8. /\ used_map \in [Pool -> SUBSET Int]
      /\ \A q \in Pool : used_map[q] \subseteq Bits(0, bitmap_size(q))
      /\ pool_lock \in [Pool -> Thread \cup {NULL}]
      /\ desc_lock \in [Desc -> Thread \cup {NULL}]
      /\ \A q \in Pool : pool_lock[q] # t
      /\ \A e \in Desc : desc_lock[e] # t
  BY <1>1, <1>2 DEF LocksOK, TypeOK
<1>9. ASSUME Others(t), Has'[t] = {}
      PROVE  All(live', Has') = H \ {b} /\ Apart(live', Has')
  <2>1. \A u \in Thread \ {t} : Has'[u] = Has[u]
    BY <1>9, OthersHave
  <2>2. live' \cap Has'[t] = {} /\ live' \cup Has'[t] = (live \cup Has[t]) \ {b}
    BY <1>2, <1>5, <1>6, <1>9
  <2>3. b \in Has[t] /\ Apart(live, Has)
    BY <1>5, <1>6
  <2> HIDE DEF b
  <2> QED
    BY SMTT(40), <2>1, <2>2, <2>3, HandBack
<1>10. CASE ~ArenaUnused(cnt, d)
  <2>1. /\ free_list' = [free_list EXCEPT ![d] = <<b.addr>> \o free_list[d]]
        /\ arena' = [arena EXCEPT ![page].free_cnt = cnt]
        /\ Return(t) /\ UNCHANGED desc_lock
    BY ZenonT(40), <1>3, <1>10 DEF free_small
  <2>2. arena' = Recount(arena, page, cnt)
    BY <2>1 DEF Recount
  <2>3. arena[page].free_cnt + 1 < blocks_per_arena(d)
    BY SMTT(40), <1>7, <1>10 DEF ArenaUnused
  <2>4. Others(t) /\ pc'[t] = "idle" /\ Has'[t] = {} /\ Mine'[t] = {} /\ CallsOK'
    <3>1. \A u \in Thread \ {t} : pc[u] = "free" =>
            LET q == pg_no(call[u].pos)
            IN q \in SmallPages(arena') /\ arena'[q].desc = arena[q].desc
      <4>1. \A u \in Thread \ {t} : pc[u] = "free" => pg_no(call[u].pos) \in SmallPages(arena)
        BY <1>1 DEF CallsOK, Place_OK
      <4> HIDE DEF page, cnt
      <4>2. cnt \in Int
        BY SMT, <1>7
      <4> QED
        BY ZenonT(40), <4>1, <4>2, <2>2, <1>3, <1>7, RecountKeeps
    <3> QED
      BY ZenonT(40), <3>1, <2>1, <1>1, <1>2, Returned
  <2>5. Layout(H \ {b}, Recount(arena, page, arena[page].free_cnt + 1),
               [free_list EXCEPT ![d] = <<b.addr>> \o free_list[d]], Marked(used_map), Mine)
    <3> HIDE DEF page, d, b, H, c
    <3> QED
      BY ZenonT(40), <2>3, <1>3, <1>4, <1>6, PutBack
  <2>6. InOrder'
    <3>1. Mine' = Mine
      <4>1. Mine' = [Mine EXCEPT ![t] = {}]
        BY <2>4, OthersHave
      <4> QED
        BY ZenonT(40), <4>1, <1>2 DEF Mine
    <3>2. All(live', Has') = H \ {b} /\ Apart(live', Has')
      BY <2>4, <1>9
    <3> HIDE DEF page, d, b, H, c
    <3> QED
      BY ZenonT(40), <3>1, <3>2, <2>1, <2>2, <2>5, <1>2, InOrderNow
  <2>7. LocksOK'
    <3>1. \A e \in Desc : e # d => free_list'[e] = free_list[e]
      BY <2>1, <1>7
    <3>2. \A e \in Desc : free_list'[e] # free_list[e] => desc_lock[e] \in {t, NULL}
      BY <3>1, <1>2
    <3> QED
      BY <3>2, <2>1, <2>4, <1>1, <1>2, <1>8, LocksKept
  <2>8. RoomAhead'
    BY <2>4, <1>1, <1>2, RoomKept
  <2> QED
    BY <2>4, <2>6, <2>7, <2>8 DEF IInv
<1>11. CASE ArenaUnused(cnt, d)
  <2> DEFINE L2 == [free_list EXCEPT ![d] = Unlisted(<<b.addr>> \o free_list[d], page, d)]
  <2>1. /\ free_list' = L2
        /\ arena' = [arena EXCEPT ![page] = NULL]
        /\ desc_lock' = [desc_lock EXCEPT ![d] = t]
        /\ call' = [call EXCEPT ![t].pos = page, ![t].cnt = 1]
        /\ Goto(t, "clear")
    BY ZenonT(40), <1>3, <1>11 DEF free_small
  <2>2. arena[page].free_cnt + 1 >= blocks_per_arena(d)
    BY <1>7, <1>11 DEF ArenaUnused
  <2>3. /\ c = [op |-> c.op, size |-> c.size, desc |-> c.desc, pool |-> c.pool,
                cnt |-> c.cnt, pos |-> c.pos, old |-> c.old]
        /\ c.op \in {"palloc", "malloc", "realloc", "free"} /\ c.size \in Nat \ {0}
        /\ c.pool \in Pool /\ c.old \in Block \cup {NULL}
    BY <1>3 DEF Calls
  <2>4. call'[t] = [op |-> c.op, size |-> c.size, desc |-> c.desc, pool |-> c.pool,
                    cnt |-> 1, pos |-> page, old |-> c.old]
    <3> HIDE DEF page
    <3> QED
      BY ZenonT(40), <2>1, <2>3, <1>1 DEF CallsOK
  <2>5. call'[t] \in Calls /\ call'[t].pos = page /\ call'[t].cnt = 1 /\ call'[t].desc = d
    <3> HIDE DEF page
    <3> QED
      BY SMTT(40), <2>3, <2>4, <1>4, <1>7 DEF Calls
  <2>6. /\ pc' \in [Thread -> Place] /\ pc'[t] = "clear" /\ DOMAIN call' = Thread
        /\ room' \in [Thread -> BOOLEAN] /\ Others(t)
    BY <2>1, <1>1, <1>2 DEF CallsOK, Goto, Place, Others
  <2>7. Has'[t] = {} /\ Mine'[t] = {page}
    <3>1. Has'[t] = {} /\ Mine'[t] = Bits(page, 1)
      BY <2>5, <2>6 DEF Has, HasOld, Mine
    <3>2. Bits(page, 1) = {page}
      BY SMTT(40), <1>7 DEF Bits
    <3> QED
      BY <3>1, <3>2
  <2>8. Layout(H \ {b}, [arena EXCEPT ![page] = NULL], L2, Marked(used_map),
               [Mine EXCEPT ![t] = {page}])
    <3> HIDE DEF page, d, b, H, c
    <3> QED
      BY <2>2, <1>3, <1>4, <1>5, <1>6, Unused
  <2>9. /\ Layout(All(live', Has'), arena', free_list', Marked(used_map'), Mine')
        /\ Apart(live', Has')
    <3>1. Mine' = [Mine EXCEPT ![t] = {page}]
      BY <2>6, <2>7, OthersHave
    <3>2. All(live', Has') = H \ {b} /\ Apart(live', Has')
      BY <2>6, <2>7, <1>9
    <3> HIDE DEF page, d, b, H, c, L2
    <3> QED
      BY <3>1, <3>2, <2>1, <2>8, <1>2
  <2>10. InOrder'
    BY <2>9, InOrderNow
  <2>11. ASSUME NEW u \in Thread \ {t}, pc[u] = "free"
         PROVE  LET q == pg_no(call[u].pos)
                IN q \in SmallPages(arena') /\ arena'[q].desc = arena[q].desc
    <3> DEFINE q == pg_no(call[u].pos)
    <3>1. /\ q \in SmallPages(arena) /\ call[u].old # NULL /\ call[u].pos = call[u].old.addr
      BY <2>11, <1>1 DEF CallsOK, Place_OK
    <3>2. call[u].old \in Has'[u]
      <4>1. call[u].old \in Has[u]
        BY <2>11, <3>1 DEF Has, HasOld
      <4> QED
        BY <4>1, <2>6, OthersHave
    <3>3. call[u].old \in All(live', Has')
      BY <3>2 DEF All
    <3>4. /\ PagesOwned(All(live', Has'), arena', Marked(used_map'), Mine')
      BY <2>9 DEF Layout
    <3>5. q \in Span(call[u].old)
      BY <3>1, <3>3, <3>4, HeldWhere
    <3>6. Mine'[t] \cap Span(call[u].old) = {}
      BY <3>3, <3>4 DEF PagesOwned
    <3>7. q # page
      BY <3>5, <3>6, <2>7
    <3>8. q \in Ram /\ arena'[q] = arena[q]
      BY <3>1, <3>7, <2>1, <1>7 DEF SmallPages
    <3> QED
      BY <3>1, <3>8 DEF SmallPages
  <2>12. CallsOK'
    <3>1. Place_OK(t)'
      <4>1. page # NULL
        BY SMTT(40), <1>7, NullIs
      <4> QED
        BY SMTT(40), <4>1, <2>5, <2>6 DEF Place_OK
    <3> QED
      BY <3>1, <2>5, <2>6, <2>11, <1>1, CallsKept
  <2>13. LocksOK'
    <3>1. /\ desc_lock' \in [Desc -> Thread \cup {NULL}]
          /\ \A e \in Desc : desc_lock'[e] = IF e = d THEN t ELSE desc_lock[e]
      BY ZenonT(40), <2>1, <1>8
    <3>2. \A e \in Desc : desc_lock'[e] = t <=>
            pc'[t] \in {"pool", "scan", "got", "clear"} /\ call'[t].desc = e
      BY <3>1, <2>5, <2>6, <1>8
    <3>3. \A e \in Desc : desc_lock'[e] # desc_lock[e] =>
            {desc_lock[e], desc_lock'[e]} \subseteq {t, NULL}
      BY <3>1, <1>2
    <3>4. \A e \in Desc : e # d => free_list'[e] = free_list[e]
      BY <2>1, <1>7
    <3>5. \A e \in Desc : free_list'[e] # free_list[e] => desc_lock[e] \in {t, NULL}
      BY <3>4, <1>2
    <3> QED
      BY <3>1, <3>2, <3>3, <3>5, <2>6, <1>1, <1>2, <1>8, LocksKept
  <2>14. RoomAhead'
    BY <2>6, <1>1, <1>2, RoomKept
  <2> QED
    BY <2>10, <2>12, <2>13, <2>14 DEF IInv
<1> QED
  BY <1>10, <1>11

-----------------------------------------------------------------------------
(* The inductive invariant *)

\* The initial state is in order: nothing is held, used or listed.
LEMMA InitKeeps ==
  Init => IInv
<1> SUFFICES ASSUME Init PROVE IInv
  OBVIOUS
<1>1. \A t \in Thread : pc[t] = "idle" /\ room[t] = FALSE
  BY DEF Init
<1>2. CallsOK
  BY <1>1 DEF Init, CallsOK, Place, Place_OK
<1>3. LocksOK
  BY <1>1, NullIs DEF Init, LocksOK, TypeOK
<1>4. RoomAhead
  BY <1>1 DEF RoomAhead, FailsOnlyWhenFull
<1>5. Has = [t \in Thread |-> {}] /\ Mine = [t \in Thread |-> {}]
  BY <1>1 DEF Has, HasOld, Mine
<1>6. Apart(live, Has) /\ Held = {}
  BY <1>5 DEF Apart, Held, All, Init
<1>7. UsedPages = {}
  BY DEF UsedPages, Init
<1>8. arena = [page \in Ram |-> NULL] /\ SmallPages(arena) = {}
  BY DEF Init, Ram, SmallPages
<1>9. PagesOwned(Held, arena, UsedPages, Mine)
  BY <1>5, <1>6, <1>7, <1>8 DEF PagesOwned
<1>10. BlocksOwned(Held, arena, free_list)
  <2>1. /\ free_list \in [Desc -> Seq(Nat)] /\ \A d \in Desc : free_list[d] = <<>>
    BY SMT DEF Init
  <2>2. Items(<<>>) = {} /\ Once(<<>>)
    BY SMT DEF Items, Once
  <2> QED
    BY <2>1, <2>2, <1>6, <1>8 DEF BlocksOwned
<1> QED
  BY <1>2, <1>3, <1>4, <1>6, <1>9, <1>10 DEF IInv, InOrder, Layout

\* Every step keeps the invariant.
LEMMA NextKeeps ==
  IInv /\ [Next]_vars => IInv'
<1> SUFFICES ASSUME IInv, [Next]_vars PROVE IInv'
  OBVIOUS
<1>1. CASE UNCHANGED vars
  <2>1. UNCHANGED <<used_map, pool_lock, arena, free_list, desc_lock, live, pc, call, room>>
    BY <1>1 DEF vars
  <2>2. CallsOK'
    BY ZenonT(40), <2>1 DEF IInv, CallsOK, Place_OK, New
  <2>3. LocksOK'
    BY ZenonT(40), <2>1 DEF IInv, LocksOK, TypeOK
  <2>4. RoomAhead'
    BY <2>1 DEF IInv, RoomAhead, FailsOnlyWhenFull, Ahead, FreeWindow
  <2>5. Has' = Has /\ Mine' = Mine
    BY <2>1 DEF Has, HasOld, New, Mine
  <2>6. Apart(live, Has) /\ Layout(All(live, Has), arena, free_list, Marked(used_map), Mine)
    BY UsedAreMarked DEF IInv, InOrder, Held
  <2>7. InOrder'
    BY <2>1, <2>5, <2>6, InOrderNow
  <2> QED
    BY <2>2, <2>3, <2>4, <2>7 DEF IInv
<1>2. CASE Next
  <2>1. PICK t \in Thread : Start(t) \/ Step(t)
    BY <1>2 DEF Next
  <2>2. ASSUME NEW p \in Pool, NEW cnt \in Counts, palloc_get_multiple(t, p, cnt) PROVE IInv'
    BY <2>2, Keeps_palloc_get_multiple
  <2>3. ASSUME NEW size \in Sizes, malloc(t, size) PROVE IInv'
    <3>1. size \in Nat \ {0}
      BY <2>3, MemoryAssumption DEF malloc
    <3> QED
      BY <3>1, <2>3, StartKeeps DEF malloc
  <2>4. ASSUME NEW block \in live, NEW size \in Sizes, realloc(t, block, size) PROVE IInv'
    <3>1. size \in Nat \ {0}
      BY <2>4, MemoryAssumption DEF realloc
    <3> QED
      BY <3>1, <2>4, StartKeeps DEF realloc
  <2>5. ASSUME NEW block \in live, free(t, block) PROVE IInv'
    BY <2>5, Keeps_free
  <2>6. Start(t) => IInv'
    BY <2>2, <2>3, <2>4, <2>5 DEF Start
  <2>7. pool_acquire(t) => IInv'
    BY Keeps_pool_acquire
  <2>8. bitmap_scan(t) => IInv'
    BY Keeps_bitmap_scan
  <2>9. got_pages(t) => IInv'
    BY Keeps_got_pages
  <2>10. palloc_free_multiple(t) => IInv'
    BY Keeps_palloc_free_multiple
  <2>11. malloc_small(t) => IInv'
    BY Keeps_malloc_small
  <2>12. malloc_arena(t) => IInv'
    BY Keeps_malloc_arena
  <2>13. malloc_big(t) => IInv'
    BY Keeps_malloc_big
  <2>14. realloc_copy(t) => IInv'
    BY Keeps_realloc_copy
  <2>15. free_small(t) => IInv'
    BY Keeps_free_small
  <2> QED
    BY <2>1, <2>6, <2>7, <2>8, <2>9, <2>10, <2>11, <2>12, <2>13, <2>14, <2>15 DEF Step
<1> QED
  BY <1>1, <1>2

-----------------------------------------------------------------------------
(* What the layout says *)

\* A block of a small arena lies apart from every held block but itself.
LEMMA SmallApart ==
  ASSUME NEW H, NEW A, NEW U, NEW M, PagesOwned(H, A, U, M), NEW b \in H,
         NEW page \in SmallPages(A), NEW x \in Blocks(page, A[page].desc),
         NEW size \in Nat \ {0}, size <= A[page].desc, x # b.addr
  PROVE  Bytes(b) \cap Bits(x, size) = {}
<1> DEFINE d == A[page].desc
           c == Live("block", x, size)
<1>1. page \in Nat /\ d \in Desc /\ b \in Block
  <2>1. page \in Ram /\ A[page] # NULL /\ d # NULL
    BY DEF SmallPages
  <2>2. A \in [Ram -> Arena \cup {NULL}] /\ b \in Block
    BY DEF PagesOwned
  <2> QED
    BY SMT, <2>1, <2>2 DEF Arena, Ram
<1>2. x \in Nat /\ pg_no(x) = page /\ d \in Nat
  BY ZenonT(40), <1>1, BlockPlace, DescFits
<1>3. c \in Block /\ c.addr = x /\ c.size = size /\ Bytes(c) = Bits(x, size)
  <2>1. c \in Block /\ c.addr = x /\ c.size = size
    BY <1>2 DEF Block, Live
  <2> QED
    BY <2>1 DEF Bytes, Bits
<1> HIDE DEF d
<1>4. Span(c) = {page}
  <2> HIDE DEF c
  <2>1. c.addr \in Blocks(page, d) /\ c.size <= d
    BY <1>3 DEF d
  <2> QED
    BY <2>1, <1>1, <1>3, SmallSpan
<1> HIDE DEF c
<1>5. CASE Sits(b, A) /\ pg_no(b.addr) = page
  <2>1. b.addr \in Blocks(page, d) /\ b.size <= d
    BY <1>5, HeldWhere DEF Small, d
  <2>2. b.addr + d <= x \/ x + d <= b.addr
    BY <2>1, <1>1, BlocksApart DEF d
  <2>3. b.addr \in Nat /\ b.size \in Nat \ {0} /\ size <= d
    BY <1>1 DEF Block, d
  <2> QED
    BY SMTT(40), <2>1, <2>2, <2>3, <1>2 DEF Bytes, Bits
<1>6. CASE page \notin Span(b)
  <2>1. Span(b) \cap Span(c) = {}
    BY <1>4, <1>6
  <2> QED
    BY <2>1, <1>1, <1>3, SpansApart
<1>7. CASE ~(Sits(b, A) /\ pg_no(b.addr) = page) /\ page \in Span(b)
  <2>1. CASE Sits(b, A)
    BY SMTT(40), <2>1, <1>7, HeldWhere
  <2>2. CASE ~Sits(b, A)
    BY <2>2, <1>7 DEF PagesOwned
  <2> QED
    BY <2>1, <2>2
<1> QED
  BY <1>5, <1>6, <1>7

\* Held blocks do not overlap.
LEMMA HeldApart ==
  ASSUME NEW H, NEW A, NEW L, NEW U, NEW M, Layout(H, A, L, U, M),
         NEW b \in H, NEW c \in H, b # c
  PROVE  Bytes(b) \cap Bytes(c) = {}
<1>1. PagesOwned(H, A, U, M) /\ BlocksOwned(H, A, L) /\ b \in Block /\ c \in Block
  BY DEF Layout, PagesOwned
<1>2. ASSUME NEW e \in H, NEW g \in H, e # g, Sits(g, A)
      PROVE  Bytes(e) \cap Bytes(g) = {}
  <2> DEFINE page == pg_no(g.addr)
  <2>1. g.addr \in Blocks(page, A[page].desc) /\ g.size <= A[page].desc /\ page \in SmallPages(A)
    BY <1>1, <1>2, HeldWhere DEF Small, Sits
  <2>2. e.addr # g.addr
    <3>1. CASE Sits(e, A)
      BY <3>1, <1>1, <1>2 DEF BlocksOwned
    <3>2. CASE ~Sits(e, A)
      <4>1. pg_no(e.addr) \in Span(e)
        BY <1>1, HeldWhere
      <4>2. Span(e) \cap SmallPages(A) = {}
        BY <3>2, <1>1 DEF PagesOwned
      <4> QED
        BY <4>1, <4>2, <2>1
    <3> QED
      BY <3>1, <3>2
  <2>3. g.size \in Nat \ {0} /\ Bytes(g) = Bits(g.addr, g.size)
    BY <1>1 DEF PagesOwned, Block, Bytes, Bits
  <2> HIDE DEF page
  <2> QED
    BY <2>1, <2>2, <2>3, <1>1, SmallApart
<1>3. CASE ~Sits(b, A) /\ ~Sits(c, A)
  <2>1. Span(b) \cap Span(c) = {}
    BY <1>1, <1>3 DEF PagesOwned
  <2> QED
    BY <2>1, <1>1, SpansApart
<1> QED
  BY <1>2, <1>3

\* In such a layout what callers have overlaps neither other blocks, nor the
\* headers of arenas, nor the free lists, and lies in pages marked used.
LEMMA InOrderNoOverlap ==
  ASSUME LocksOK, InOrder
  PROVE  NoOverlap
<1>1. Layout(Held, arena, free_list, UsedPages, Mine)
  BY DEF InOrder
<1>2. PagesOwned(Held, arena, UsedPages, Mine) /\ BlocksOwned(Held, arena, free_list)
  BY <1>1 DEF Layout
<1>3. TypeOK
  BY DEF LocksOK
<1>4. ASSUME NEW b \in Held, NEW c \in Held, b # c
      PROVE  Bytes(b) \cap Bytes(c) = {}
  BY <1>1, <1>4, HeldApart
<1>5. ASSUME NEW b \in Held, b.kind = "block"
      PROVE  Bytes(b) \cap (PGSIZE * pg_no(b.addr) .. PGSIZE * pg_no(b.addr) + HEADER - 1) = {}
  <2> DEFINE page == pg_no(b.addr)
  <2>1. b \in Held /\ b \in Block /\ page \in Ram /\ page \in Nat
    BY SMTT(40), <1>1, <1>2, HeldWhere DEF Ram
  <2>2. b.addr \in Nat /\ b.size \in Nat \ {0}
    BY <2>1 DEF Block
  <2>3. PGSIZE * page \in Nat /\ HEADER \in Nat
    BY SMT, <2>1, MemoryAssumption
  <2>4. PGSIZE * page + HEADER <= b.addr
    <3>1. CASE Sits(b, arena)
      <4>1. b.addr \in Blocks(page, arena[page].desc) /\ arena[page].desc \in Desc
        BY <2>1, <3>1, <1>2, HeldWhere DEF Small
      <4> HIDE DEF page
      <4> QED
        BY <4>1, <2>1, BlockPlace
    <3>2. CASE ~Sits(b, arena)
      <4>1. b.addr = PGSIZE * page + HEADER
        BY ZenonT(40), <2>1, <3>2, <1>2, <1>5, HeldWhere DEF WholePages, Big
      <4> QED
        BY SMT, <4>1, <2>2
    <3> QED
      BY <3>1, <3>2
  <2> HIDE DEF page
  <2>5. Bytes(b) \cap (PGSIZE * page .. PGSIZE * page + HEADER - 1) = {}
    BY SMT, <2>2, <2>3, <2>4 DEF Bytes
  <2> QED
    BY <2>5 DEF page
<1>6. ASSUME NEW d \in Desc, NEW i \in DOMAIN free_list[d]
      PROVE  /\ pg_no(free_list[d][i]) \in UsedPages
             /\ \A b \in Held : Bytes(b) \cap Bits(free_list[d][i], d) = {}
  <2> DEFINE x == free_list[d][i]
             page == pg_no(x)
  <2>1. x \in Items(free_list[d])
    <3>1. free_list[d] \in Seq(Nat)
      BY <1>2 DEF BlocksOwned
    <3> QED
      BY SMT, <3>1 DEF Items
  <2>2. page \in SmallPages(arena) /\ arena[page].desc = d /\ x \in Blocks(page, d)
    BY <2>1, <1>2 DEF BlocksOwned
  <2>3. \A b \in Held : b.addr # x
    BY <2>1, <1>2 DEF BlocksOwned
  <2>4. d \in Nat \ {0} /\ d <= d
    BY SMT, DescFits
  <2> HIDE DEF x, page
  <2>5. \A b \in Held : Bytes(b) \cap Bits(x, d) = {}
    BY <2>2, <2>3, <2>4, <1>2, SmallApart
  <2>6. page \in UsedPages
    BY <2>2, <1>2 DEF PagesOwned
  <2> QED
    BY <2>5, <2>6, <1>1 DEF x, page
<1>7. ASSUME NEW b \in Held PROVE {pg_no(a) : a \in Bytes(b)} \subseteq UsedPages
  <2>1. b \in Block /\ Span(b) \subseteq UsedPages
    BY <1>1, <1>2 DEF PagesOwned
  <2> QED
    BY <2>1, SpanBytes
<1>8. ASSUME NEW t \in Thread, pc[t] = "clear"
      PROVE  Bits(call[t].pos, call[t].cnt) \subseteq UsedPages
  <2>1. Mine[t] = Bits(call[t].pos, call[t].cnt)
    BY <1>8 DEF Mine
  <2> QED
    BY <2>1, <1>2 DEF PagesOwned
<1> QED
  BY <1>3, <1>4, <1>5, <1>6, <1>7, <1>8 DEF NoOverlap

\* Each arena of small blocks that is in use holds one that is not listed.
LEMMA ArenaHolds ==
  ASSUME NEW H, NEW A, NEW L, NEW U, NEW M, Layout(H, A, L, U, M), NEW page \in SmallPages(A)
  PROVE  \E b \in H : page \in Span(b)
<1> DEFINE d == A[page].desc
           B == Blocks(page, d)
<1>1. /\ \A x \in B : x \in Items(L[d]) \/ \E b \in H : b.addr = x
      /\ Cardinality(Items(L[d]) \cap B) = A[page].free_cnt
      /\ A[page].free_cnt < blocks_per_arena(d)
  BY ZenonT(40) DEF Layout, BlocksOwned
<1>2. page \in Nat /\ d \in Desc /\ A[page].free_cnt \in Nat
  <2>1. page \in Ram /\ A[page] # NULL /\ d # NULL
    BY DEF SmallPages
  <2>2. A \in [Ram -> Arena \cup {NULL}]
    BY DEF Layout, PagesOwned
  <2> QED
    BY SMT, <2>1, <2>2 DEF Arena, Ram
<1> HIDE DEF d
<1>3. Cardinality(B) = blocks_per_arena(d) /\ blocks_per_arena(d) \in Nat
  BY <1>2, BlocksCount, DescFits
<1>4. Items(L[d]) \cap B # B
  <2> HIDE DEF B
  <2> QED
    BY SMTT(40), <1>1, <1>2, <1>3
<1>5. PICK x \in B : x \notin Items(L[d])
  BY <1>4
<1>6. PICK b \in H : b.addr = x
  BY <1>1, <1>5
<1>7. pg_no(x) = page
  BY <1>2, BlockPlace
<1>8. pg_no(b.addr) \in Span(b)
  BY HeldWhere DEF Layout
<1> QED
  BY <1>6, <1>7, <1>8

\* In such a layout the counts of free blocks are right, and when no call is
\* under way the pages in use are those that callers have a byte in.
LEMMA InOrderNoLeak ==
  ASSUME InOrder
  PROVE  NothingLeaks
<1>1. Layout(Held, arena, free_list, UsedPages, Mine)
  BY DEF InOrder
<1>2. PagesOwned(Held, arena, UsedPages, Mine) /\ BlocksOwned(Held, arena, free_list)
  BY <1>1 DEF Layout
<1>3. ASSUME NEW page \in DOMAIN arena, arena[page] # NULL, arena[page].desc # NULL
      PROVE  LET d == arena[page].desc
                 listed == {i \in DOMAIN free_list[d] : free_list[d][i] \in Blocks(page, d)}
             IN Cardinality(listed) = arena[page].free_cnt
  <2> DEFINE d == arena[page].desc
  <2>1. page \in SmallPages(arena) /\ d \in Desc
    BY <1>2, <1>3 DEF PagesOwned, SmallPages, Arena
  <2>2. /\ free_list[d] \in Seq(Nat) /\ Once(free_list[d])
        /\ Cardinality(Items(free_list[d]) \cap Blocks(page, d)) = arena[page].free_cnt
    BY <2>1, <1>2 DEF BlocksOwned
  <2> HIDE DEF d
  <2>3. Cardinality({i \in DOMAIN free_list[d] : free_list[d][i] \in Blocks(page, d)})
          = Cardinality(Items(free_list[d]) \cap Blocks(page, d))
    BY ZenonT(40), <2>2, PlacesCount
  <2> QED
    BY <2>2, <2>3 DEF d
<1>4. ASSUME Idle
      PROVE  UsedPages = UNION {{pg_no(a) : a \in Bytes(b)} : b \in live}
  <2>1. \A t \in Thread : Has[t] = {} /\ Mine[t] = {}
    BY <1>4 DEF Idle, Has, HasOld, Mine
  <2>2. Held = live
    BY <2>1 DEF Held, All
  <2>3. \A b \in live : b \in Block /\ Span(b) \subseteq UsedPages
    BY <2>2, <1>2 DEF PagesOwned
  <2>4. \A b \in live : {pg_no(a) : a \in Bytes(b)} = Span(b)
    BY <2>3, SpanBytes
  <2>5. \A page \in UsedPages : \E b \in live : page \in Span(b)
    <3> SUFFICES ASSUME NEW page \in UsedPages PROVE \E b \in live : page \in Span(b)
      OBVIOUS
    <3>1. page \in SmallPages(arena) \/ \E b \in live : page \in Span(b)
      BY <2>1, <2>2, <1>2 DEF PagesOwned
    <3>2. page \in SmallPages(arena) => \E b \in live : page \in Span(b)
      BY <2>2, <1>1, ArenaHolds
    <3> QED
      BY <3>1, <3>2
  <2>6. \A page : page \in UNION {{pg_no(a) : a \in Bytes(b)} : b \in live}
                    <=> \E b \in live : page \in Span(b)
    BY <2>4
  <2> QED
    BY <2>3, <2>5, <2>6
<1> QED
  BY <1>3, <1>4 DEF NothingLeaks

-----------------------------------------------------------------------------
(* The theorems *)

\* The layout is in order in every state that the allocators reach.
LEMMA AlwaysInOrder ==
  Spec => []IInv
<1>1. Init => IInv
  BY InitKeeps
<1>2. IInv /\ [Next]_vars => IInv'
  BY NextKeeps
<1> QED
  BY <1>1, <1>2, PTL DEF Spec

\* Memory that palloc.c and malloc.c hand out is never handed out twice: what
\* callers have does not overlap, covers no arena's header and no block of a
\* free list, and lies in pages marked used, whatever calls interleave.
THEOREM BlocksNeverOverlap ==
  Spec => []NoOverlap
<1>1. IInv => NoOverlap
  BY InOrderNoOverlap DEF IInv
<1> QED
  BY <1>1, AlwaysInOrder, PTL

\* Memory never leaks: an arena's free_cnt is the number of its blocks on the
\* free list, and when no call is under way every page that is marked used
\* holds something that a caller has.
THEOREM MemoryNeverLeaks ==
  Spec => []NothingLeaks
<1>1. IInv => NothingLeaks
  BY InOrderNoLeak DEF IInv
<1> QED
  BY <1>1, AlwaysInOrder, PTL

\* palloc_get_multiple() returns a null pointer only if its pool had no run
\* of free pages that is long enough when it took the lock.
THEOREM FailsWhenFull ==
  Spec => []FailsOnlyWhenFull
<1>1. IInv => FailsOnlyWhenFull
  BY DEF IInv, RoomAhead
<1> QED
  BY <1>1, AlwaysInOrder, PTL
=============================================================================
