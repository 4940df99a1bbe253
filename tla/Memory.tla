------------------------------- MODULE Memory -------------------------------
(***************************************************************************)
(* Kernel memory: the page allocator (threads/palloc.c) with its bitmaps   *)
(* (lib/kernel/bitmap.c), and malloc(), realloc() and free()               *)
(* (threads/malloc.c) on top of it.                                        *)
(*                                                                         *)
(* An address is PGSIZE * page + offset.  A thread's call goes through     *)
(*   "desc"   waits for the descriptor's lock (small blocks);              *)
(*   "pool" "scan" "got"   in palloc_get_multiple();                       *)
(*   "copy"   in realloc();                                                *)
(*   "free" "clear"        in free() and palloc_free_multiple().           *)
(* palloc_free_multiple() takes no lock: it clears bit after bit while     *)
(* another thread may be scanning the same bitmap.                         *)
(***************************************************************************)
EXTENDS Integers, Sequences, FiniteSets

CONSTANTS Thread, NULL,
          PGSIZE, HEADER, MIN_BLOCK,    \* bytes: page, struct arena, block
          BITMAP, ELEM_BYTES, ELEM_BITS,  \* struct bitmap, elem_type
          RamPages, user_page_limit,    \* pages of free memory
          Sizes, Counts, MaxLive        \* what is asked for at a time

VARIABLES used_map, pool_lock,    \* struct pool, per pool
          arena,                  \* struct arena at the start of a page
          free_list, desc_lock,   \* struct desc, per block size
          live,                   \* what callers have and may use
          pc, call,               \* each thread's call
          room                    \* history: the scan began with room

vars == <<used_map, pool_lock, arena, free_list, desc_lock, live, pc, call, room>>

DIV_ROUND_UP(x, step) == (x + step - 1) \div step

-----------------------------------------------------------------------------
(* Layout *)

elem_cnt(bits) == DIV_ROUND_UP(bits, ELEM_BITS)
bitmap_buf_size(bits) == BITMAP + ELEM_BYTES * elem_cnt(bits)

Pool == {"kernel", "user"}

user_pages == IF RamPages \div 2 > user_page_limit THEN user_page_limit ELSE RamPages \div 2
palloc_init == [kernel |-> RamPages - user_pages, user |-> user_pages]

bm_pages(p) == DIV_ROUND_UP(bitmap_buf_size(palloc_init[p]), PGSIZE)
bitmap_size(p) == palloc_init[p] - bm_pages(p)

\* Page 0 stands for the first page of free memory.
base(p) == (IF p = "user" THEN palloc_init.kernel ELSE 0) + bm_pages(p)

page_from_pool(p, page) == page \in base(p) .. base(p) + bitmap_size(p) - 1

Bits(start, cnt) == start .. start + cnt - 1

\* malloc_init(): one descriptor per doubling of the smallest block; descs[]
\* has room for ten.
block_size[i \in 0 .. 9] == IF i = 0 THEN MIN_BLOCK ELSE 2 * block_size[i - 1]
Desc == {block_size[i] : i \in {j \in 0 .. 9 : block_size[j] < PGSIZE \div 2}}
blocks_per_arena(d) == (PGSIZE - HEADER) \div d

pg_no(addr) == addr \div PGSIZE

\* Mutant: the blocks start at the arena's own header.
arena_to_block_bare(page, d, i) == PGSIZE * page + i * d

arena_to_block(page, d, i) == PGSIZE * page + HEADER + i * d
Blocks(page, d) == {arena_to_block(page, d, i) : i \in 0 .. blocks_per_arena(d) - 1}

\* The sizes are those of C types; init_pool() panics where a bitmap would not
\* fit into its pool, and the smallest arena has a block.  A call for 0 pages
\* returns at once.
ASSUME MemoryAssumption ==
  /\ PGSIZE \in Nat /\ HEADER \in Nat /\ HEADER < PGSIZE
  /\ MIN_BLOCK \in Nat \ {0}
  /\ BITMAP \in Nat /\ ELEM_BYTES \in Nat /\ ELEM_BITS \in Nat \ {0}
  /\ RamPages \in Nat /\ user_page_limit \in Nat
  /\ \A p \in Pool : bm_pages(p) <= palloc_init[p]
  /\ \A d \in Desc : HEADER + d <= PGSIZE
  /\ Sizes \subseteq Nat /\ Counts \subseteq Nat \ {0}
  /\ NULL \notin Thread /\ NULL \notin Int
  /\ NULL \notin [kind : {"pages", "block"}, addr : Int, size : Int]
  /\ NULL \notin [desc : Desc \cup {NULL}, free_cnt : Int]

-----------------------------------------------------------------------------
(* A thread's place in its call *)

Goto(t, next) == pc' = [pc EXCEPT ![t] = next]

Return(t) == Goto(t, "idle") /\ call' = [call EXCEPT ![t] = NULL]

Cleared(t) == room' = [room EXCEPT ![t] = FALSE]

Call(op, size, d, p, cnt, old) ==
  [op |-> op, size |-> size, desc |-> d, pool |-> p, cnt |-> cnt, pos |-> 0,
   old |-> old]

Live(kind, addr, size) == [kind |-> kind, addr |-> addr, size |-> size]

\* What happens to a caller's new block: realloc() goes on to copy.
Deliver(t, addr) ==
  IF call[t].op = "realloc" /\ call[t].old # NULL
  THEN /\ call' = [call EXCEPT ![t].pos = addr]
       /\ Goto(t, "copy")
       /\ UNCHANGED live
  ELSE /\ live' = live \cup {Live("block", addr, call[t].size)}
       /\ Return(t)

\* No memory: realloc() leaves the old block to its owner.
Refuse(t) ==
  /\ live' = IF call[t].old = NULL THEN live ELSE live \cup {call[t].old}
  /\ Return(t)

-----------------------------------------------------------------------------
(* palloc.c *)

palloc_get_multiple(t, p, cnt) ==
  /\ pc[t] = "idle" /\ Cardinality(live) < MaxLive
  /\ Goto(t, "pool")
  /\ call' = [call EXCEPT ![t] = Call("palloc", PGSIZE * cnt, NULL, p, cnt, NULL)]
  /\ UNCHANGED <<used_map, pool_lock, arena, free_list, desc_lock, live, room>>

\* The windows bitmap_scan() tries, and those that are free.
Window(p, cnt) == 0 .. bitmap_size(p) - cnt
FreeWindow(p, cnt) == {i \in Window(p, cnt) : Bits(i, cnt) \cap used_map[p] = {}}

pool_acquire(t) ==
  LET p == call[t].pool IN
  /\ pc[t] = "pool"
  /\ pool_lock[p] = NULL
  /\ pool_lock' = [pool_lock EXCEPT ![p] = t]
  /\ room' = [room EXCEPT ![t] = FreeWindow(p, call[t].cnt) # {}]
  /\ Goto(t, "scan")
  /\ UNCHANGED <<used_map, arena, free_list, desc_lock, live, call>>

\* Mutant: the last window is not tried.
bitmap_scan_short(t) ==
  LET p == call[t].pool
      cnt == call[t].cnt
      i == call[t].pos
  IN /\ pc[t] = "scan"
     /\ IF i + 1 \notin Window(p, cnt)
        THEN /\ call' = [call EXCEPT ![t].pos = NULL]
             /\ pool_lock' = [pool_lock EXCEPT ![p] = NULL]
             /\ Goto(t, "got")
             /\ UNCHANGED used_map
        ELSE IF i \in FreeWindow(p, cnt)
        THEN /\ used_map' = [used_map EXCEPT ![p] = @ \cup Bits(i, cnt)]
             /\ pool_lock' = [pool_lock EXCEPT ![p] = NULL]
             /\ Goto(t, "got")
             /\ UNCHANGED call
        ELSE /\ call' = [call EXCEPT ![t].pos = i + 1]
             /\ UNCHANGED <<used_map, pool_lock, pc>>
     /\ UNCHANGED <<arena, free_list, desc_lock, live, room>>

\* Mutant: a scan without a find starts over.
bitmap_scan_again(t) ==
  LET p == call[t].pool
      cnt == call[t].cnt
      i == call[t].pos
  IN /\ pc[t] = "scan"
     /\ IF i \in FreeWindow(p, cnt)
        THEN /\ used_map' = [used_map EXCEPT ![p] = @ \cup Bits(i, cnt)]
             /\ pool_lock' = [pool_lock EXCEPT ![p] = NULL]
             /\ Goto(t, "got")
             /\ UNCHANGED call
        ELSE /\ call' = [call EXCEPT ![t].pos = IF i + 1 \in Window(p, cnt) THEN i + 1 ELSE 0]
             /\ UNCHANGED <<used_map, pool_lock, pc>>
     /\ UNCHANGED <<arena, free_list, desc_lock, live, room>>

\* One window of bitmap_scan(); with the one that is found,
\* bitmap_scan_and_flip() and lock_release().
bitmap_scan(t) ==
  LET p == call[t].pool
      cnt == call[t].cnt
      i == call[t].pos
  IN /\ pc[t] = "scan"
     /\ IF i \notin Window(p, cnt)
        THEN /\ call' = [call EXCEPT ![t].pos = NULL]
             /\ pool_lock' = [pool_lock EXCEPT ![p] = NULL]
             /\ Goto(t, "got")
             /\ UNCHANGED used_map
        ELSE IF i \in FreeWindow(p, cnt)
        THEN /\ used_map' = [used_map EXCEPT ![p] = @ \cup Bits(i, cnt)]
             /\ pool_lock' = [pool_lock EXCEPT ![p] = NULL]
             /\ Goto(t, "got")
             /\ UNCHANGED call
        ELSE /\ call' = [call EXCEPT ![t].pos = i + 1]
             /\ UNCHANGED <<used_map, pool_lock, pc>>
     /\ UNCHANGED <<arena, free_list, desc_lock, live, room>>

got_pages(t) ==
  /\ pc[t] = "got" /\ call[t].op = "palloc"
  /\ IF call[t].pos = NULL THEN Refuse(t)
     ELSE /\ live' = live \cup {Live("pages", PGSIZE * (base(call[t].pool) + call[t].pos),
                                     call[t].size)}
          /\ Return(t)
  /\ Cleared(t)
  /\ UNCHANGED <<used_map, pool_lock, arena, free_list, desc_lock>>

PageIndex(page) ==
  page - base(CHOOSE p \in Pool : page_from_pool(p, page))

\* bitmap_set_multiple (..., false), a bit at a time; free() that gives an
\* arena back holds the descriptor's lock until the end.
palloc_free_multiple(t) ==
  LET page == call[t].pos
      p == CHOOSE q \in Pool : page_from_pool(q, page)
      d == call[t].desc
  IN /\ pc[t] = "clear"
     /\ used_map' = [used_map EXCEPT ![p] = @ \ {PageIndex(page)}]
     /\ IF call[t].cnt > 1
        THEN /\ call' = [call EXCEPT ![t].pos = page + 1, ![t].cnt = @ - 1]
             /\ UNCHANGED <<desc_lock, pc>>
        ELSE /\ Return(t)
             /\ desc_lock' = IF d = NULL THEN desc_lock
                             ELSE [desc_lock EXCEPT ![d] = NULL]
     /\ UNCHANGED <<pool_lock, arena, free_list, live, room>>

-----------------------------------------------------------------------------
(* malloc.c *)

\* The smallest descriptor that fits, else pages for the arena and the block.
DescFor(size) ==
  LET fits == {d \in Desc : d >= size}
  IN IF fits = {} THEN NULL ELSE CHOOSE d \in fits : \A e \in fits : d <= e

\* No caller in the kernel asks for so many bytes that size + sizeof *a wraps
\* around its 32 bits: sizes are those of structures, tables and one sector.
start(t, op, size, old) ==
  LET d == DescFor(size) IN
  /\ call' = [call EXCEPT ![t] =
                Call(op, size, d, "kernel",
                     IF d = NULL THEN DIV_ROUND_UP(size + HEADER, PGSIZE) ELSE 1, old)]
  /\ Goto(t, IF d = NULL THEN "pool" ELSE "desc")

\* malloc(0) returns NULL and changes nothing.
malloc(t, size) ==
  /\ pc[t] = "idle" /\ Cardinality(live) < MaxLive
  /\ size # 0
  /\ start(t, "malloc", size, NULL)
  /\ UNCHANGED <<used_map, pool_lock, arena, free_list, desc_lock, live, room>>

\* Takes the first block of a free list, and lets the descriptor go.
TakeBlock(t, list, arenas) ==
  LET d == call[t].desc
      b == Head(list)
  IN /\ free_list' = [free_list EXCEPT ![d] = Tail(list)]
     /\ arena' = [arenas EXCEPT ![pg_no(b)].free_cnt = @ - 1]
     /\ Deliver(t, b)

malloc_small(t) ==
  LET d == call[t].desc IN
  /\ pc[t] = "desc"
  /\ desc_lock[d] = NULL
  /\ IF free_list[d] = <<>>
     THEN /\ desc_lock' = [desc_lock EXCEPT ![d] = t]
          /\ Goto(t, "pool")
          /\ UNCHANGED <<arena, free_list, live, call>>
     ELSE TakeBlock(t, free_list[d], arena) /\ UNCHANGED desc_lock
  /\ UNCHANGED <<used_map, pool_lock, room>>

\* The new arena, small: all of its blocks go on the free list first.
malloc_arena(t) ==
  LET d == call[t].desc
      page == base("kernel") + call[t].pos
      blocks == [i \in 1 .. blocks_per_arena(d) |-> arena_to_block(page, d, i - 1)]
  IN /\ pc[t] = "got" /\ call[t].op # "palloc" /\ d # NULL
     /\ IF call[t].pos = NULL THEN Refuse(t) /\ UNCHANGED <<arena, free_list>>
        ELSE TakeBlock(t, free_list[d] \o blocks,
                       [arena EXCEPT ![page] = [desc |-> d, free_cnt |-> blocks_per_arena(d)]])
     /\ desc_lock' = [desc_lock EXCEPT ![d] = NULL]
     /\ Cleared(t)
     /\ UNCHANGED <<used_map, pool_lock>>

malloc_big(t) ==
  LET page == base("kernel") + call[t].pos IN
  /\ pc[t] = "got" /\ call[t].op # "palloc" /\ call[t].desc = NULL
  /\ IF call[t].pos = NULL THEN Refuse(t) /\ UNCHANGED arena
     ELSE /\ arena' = [arena EXCEPT ![page] = [desc |-> NULL, free_cnt |-> call[t].cnt]]
          /\ Deliver(t, PGSIZE * page + HEADER)
  /\ Cleared(t)
  /\ UNCHANGED <<used_map, pool_lock, free_list, desc_lock>>

\* realloc() to 0 bytes is free(); of NULL, malloc().  Until realloc() returns
\* its caller frees neither block: they are with the call, in Has[t] below.
realloc(t, block, size) ==
  /\ pc[t] = "idle" /\ block.kind = "block" /\ size # 0
  /\ start(t, "realloc", size, block)
  /\ live' = live \ {block}
  /\ UNCHANGED <<used_map, pool_lock, arena, free_list, desc_lock, room>>

\* free(): the arena says what the block is.
release(t, block) ==
  LET page == pg_no(block.addr)
      d == IF block.kind = "pages" THEN NULL ELSE arena[page].desc
      cnt == IF block.kind = "pages" THEN block.size \div PGSIZE
             ELSE arena[page].free_cnt
  IN /\ call' = [call EXCEPT ![t] =
                   [Call("free", block.size, d, "kernel", cnt, block)
                      EXCEPT !.pos = IF d = NULL THEN page ELSE block.addr]]
     /\ Goto(t, IF d = NULL THEN "clear" ELSE "free")

\* memcpy() of the smaller size, then free() of the old block.
realloc_copy(t) ==
  /\ pc[t] = "copy"
  /\ live' = live \cup {Live("block", call[t].pos, call[t].size)}
  /\ release(t, call[t].old)
  /\ UNCHANGED <<used_map, pool_lock, arena, free_list, desc_lock, room>>

free(t, block) ==
  /\ pc[t] = "idle"
  /\ live' = live \ {block}
  /\ release(t, block)
  /\ UNCHANGED <<used_map, pool_lock, arena, free_list, desc_lock, room>>

list_remove(list, b) ==
  LET i == CHOOSE j \in DOMAIN list : list[j] = b
  IN SubSeq(list, 1, i - 1) \o SubSeq(list, i + 1, Len(list))

\* The loop that takes an arena's blocks off the free list.
Unlisted(list, page, d) ==
  LET rest[i \in 0 .. blocks_per_arena(d)] ==
        IF i = 0 THEN list ELSE list_remove(rest[i - 1], arena_to_block(page, d, i - 1))
  IN rest[blocks_per_arena(d)]

\* Mutant: an arena that is in use no more is kept.
ArenaUnused_never(cnt, d) == FALSE

ArenaUnused(cnt, d) == cnt >= blocks_per_arena(d)

free_small(t) ==
  LET d == call[t].desc
      b == call[t].pos
      page == pg_no(b)
      list == <<b>> \o free_list[d]
      cnt == arena[page].free_cnt + 1
  IN /\ pc[t] = "free"
     /\ desc_lock[d] = NULL
     /\ IF ArenaUnused(cnt, d)
        THEN /\ free_list' = [free_list EXCEPT ![d] = Unlisted(list, page, d)]
             /\ arena' = [arena EXCEPT ![page] = NULL]
             /\ desc_lock' = [desc_lock EXCEPT ![d] = t]
             /\ call' = [call EXCEPT ![t].pos = page, ![t].cnt = 1]
             /\ Goto(t, "clear")
        ELSE /\ free_list' = [free_list EXCEPT ![d] = list]
             /\ arena' = [arena EXCEPT ![page].free_cnt = cnt]
             /\ Return(t)
             /\ UNCHANGED desc_lock
     /\ UNCHANGED <<used_map, pool_lock, live, room>>

-----------------------------------------------------------------------------
Init ==
  /\ used_map = [p \in Pool |-> {}]
  /\ pool_lock = [p \in Pool |-> NULL]
  /\ arena = [page \in 0 .. RamPages - 1 |-> NULL]
  /\ free_list = [d \in Desc |-> <<>>]
  /\ desc_lock = [d \in Desc |-> NULL]
  /\ live = {}
  /\ pc = [t \in Thread |-> "idle"]
  /\ call = [t \in Thread |-> NULL]
  /\ room = [t \in Thread |-> FALSE]

Step(t) == \/ pool_acquire(t) \/ bitmap_scan(t) \/ got_pages(t)
           \/ palloc_free_multiple(t) \/ malloc_small(t) \/ malloc_arena(t)
           \/ malloc_big(t) \/ realloc_copy(t) \/ free_small(t)

Start(t) ==
  \/ \E p \in Pool, cnt \in Counts : palloc_get_multiple(t, p, cnt)
  \/ \E size \in Sizes : malloc(t, size)
  \/ \E block \in live : free(t, block) \/ \E size \in Sizes : realloc(t, block, size)

Next == \E t \in Thread : Start(t) \/ Step(t)

\* Threads run on, and the waiters of a lock get it in turn.
Fairness == \A t \in Thread : SF_vars(Step(t))

Spec == Init /\ [][Next]_vars
FairSpec == Spec /\ Fairness

-----------------------------------------------------------------------------
Idle == \A t \in Thread : pc[t] = "idle"
Bytes(block) == block.addr .. block.addr + block.size - 1

\* The pages in a pool's bitmap that are marked used.
UsedPages == UNION {{base(p) + i : i \in used_map[p]} : p \in Pool}

\* Each lock is held exactly while its holder is in the section it guards.
TypeOK ==
  /\ \A p \in Pool : used_map[p] \subseteq Bits(0, bitmap_size(p))
  /\ \A p \in Pool, t \in Thread :
       pool_lock[p] = t <=> pc[t] = "scan" /\ call[t].pool = p
  /\ \A d \in Desc : \A t \in Thread :
       desc_lock[d] = t <=> /\ pc[t] \in {"pool", "scan", "got", "clear"}
                            /\ call[t].desc = d

\* The old block of realloc() and of free(), until free() has listed it, and
\* the new block of realloc() before its caller has it.
HasOld(t) ==
  /\ pc[t] \in {"desc", "pool", "scan", "got", "copy", "free"}
  /\ call[t].old # NULL

New(t) == Live("block", call[t].pos, call[t].size)

Has ==
  [t \in Thread |-> (IF HasOld(t) THEN {call[t].old} ELSE {})
                    \cup (IF pc[t] = "copy" THEN {New(t)} ELSE {})]

All(l, f) == l \cup UNION {f[t] : t \in Thread}
Held == All(live, Has)

\* What callers have, and the blocks of calls of realloc() and free() under
\* way, never overlap: not with each other, not with an arena's
\* header, not with a block on a free list, although pages are freed without
\* a lock.  All of it lies in pages marked used, so the next scan passes over
\* it, and the assertion bitmap_all() of palloc_free_multiple() holds.
NoOverlap ==
  /\ TypeOK
  /\ \A b, c \in Held : b # c => Bytes(b) \cap Bytes(c) = {}
  /\ \A b \in Held : b.kind = "block" =>
       Bytes(b) \cap (PGSIZE * pg_no(b.addr) .. PGSIZE * pg_no(b.addr) + HEADER - 1) = {}
  /\ \A b \in Held, d \in Desc : \A i \in DOMAIN free_list[d] :
       Bytes(b) \cap Bits(free_list[d][i], d) = {}
  /\ \A b \in Held : {pg_no(addr) : addr \in Bytes(b)} \subseteq UsedPages
  /\ \A d \in Desc : \A i \in DOMAIN free_list[d] : pg_no(free_list[d][i]) \in UsedPages
  /\ \A t \in Thread : pc[t] = "clear" => Bits(call[t].pos, call[t].cnt) \subseteq UsedPages

\* An arena's free_cnt is the number of its blocks on the free list; when no
\* call is under way, the pages in use are therefore those that hold something
\* a caller has, and all other memory is back with the page allocator.
NothingLeaks ==
  /\ \A page \in DOMAIN arena : arena[page] # NULL /\ arena[page].desc # NULL =>
       LET d == arena[page].desc
           listed == {i \in DOMAIN free_list[d] : free_list[d][i] \in Blocks(page, d)}
       IN Cardinality(listed) = arena[page].free_cnt
  /\ Idle => UsedPages = UNION {{pg_no(addr) : addr \in Bytes(b)} : b \in live}

\* palloc_get_multiple() fails only if there was no room for the pages when
\* it took the lock, whatever is being freed meanwhile.
FailsOnlyWhenFull ==
  \A t \in Thread : pc[t] = "got" /\ call[t].pos = NULL => ~room[t]

\* Every call returns: a descriptor's lock is taken before the pool's, never
\* the other way round.
CallsReturn == \A t \in Thread : []<>(pc[t] = "idle")
=============================================================================
