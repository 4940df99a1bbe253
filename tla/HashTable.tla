------------------------------ MODULE HashTable ------------------------------
(***************************************************************************)
(* The hash table of lib/kernel/hash.c: chains in buckets whose number     *)
(* follows the number of elements, if there is memory for it.              *)
(*                                                                         *)
(* A table is [buckets |-> a sequence of chains, elem_cnt |-> a number].   *)
(* hash gives an element's hash value; two elements are equal when they    *)
(* have the same key, and equal elements have equal hash values.           *)
(***************************************************************************)
EXTENDS Integers, Sequences, SequencesExt, FiniteSets, Bitwise

CONSTANTS
  HashElem, key_of,
  HashValue,                                \* the hash values that keys may have
  MIN_BUCKETS, BEST_ELEMS_PER_BUCKET        \* 4 and 2 in the code

bucket_cnt(h) == Len(h.buckets)

Emptied(n) == [i \in 1 .. n |-> <<>>]

\* hash_init (), which finds memory here, and hash_clear ().
hash_init == [buckets |-> Emptied(MIN_BUCKETS), elem_cnt |-> 0]
hash_clear(h) == [buckets |-> Emptied(bucket_cnt(h)), elem_cnt |-> 0]

find_bucket(h, hash, e) == 1 + (hash[e] & (bucket_cnt(h) - 1))

\* The first equal element of the chain, in a sequence of at most one.
find_elem(h, bucket, e) ==
  LET equal == SelectSeq(h.buckets[bucket], LAMBDA x : key_of[x] = key_of[e])
  IN IF equal = <<>> THEN <<>> ELSE <<equal[1]>>

insert_elem(h, bucket, e) ==
  [buckets |-> [h.buckets EXCEPT ![bucket] = <<e>> \o @], elem_cnt |-> h.elem_cnt + 1]

remove_elem(h, e) ==
  [buckets |-> [i \in 1 .. bucket_cnt(h) |-> SelectSeq(h.buckets[i], LAMBDA x : x # e)],
   elem_cnt |-> h.elem_cnt - 1]

turn_off_least_1bit(x) == x & (x - 1)
is_power_of_2(x) == x # 0 /\ turn_off_least_1bit(x) = 0

RECURSIVE HighestBit(_)
HighestBit(n) == IF is_power_of_2(n) THEN n ELSE HighestBit(turn_off_least_1bit(n))

\* How many buckets rehash () wants.
BestBuckets(elem_cnt) ==
  LET best == elem_cnt \div BEST_ELEMS_PER_BUCKET
  IN HighestBit(IF best < MIN_BUCKETS THEN MIN_BUCKETS ELSE best)

\* Mutant: the new buckets are indexed with the old bucket count.
Rehome_stale(h, hash, new, old, e) ==
  [new EXCEPT ![1 + (hash[e] & (old - 1))] = <<e>> \o @]

\* An element goes to the front of its new bucket.
Rehome(h, hash, new, old, e) ==
  [new EXCEPT ![1 + (hash[e] & (Len(new) - 1))] = <<e>> \o @]

\* The old chains, bucket after bucket, each from its front.
rehash(h, hash, memory) ==
  LET n == BestBuckets(h.elem_cnt)
  IN IF n = bucket_cnt(h) \/ ~memory THEN h
     ELSE [h EXCEPT !.buckets =
             FoldLeft(LAMBDA new, e : Rehome(h, hash, new, bucket_cnt(h), e),
                      Emptied(n), FlattenSeq(h.buckets))]

\* hash_insert () leaves an equal element where it is; both operations
\* return the old element.
hash_insert(h, hash, e, memory) ==
  LET bucket == find_bucket(h, hash, e)
      old == find_elem(h, bucket, e)
  IN <<rehash(IF old = <<>> THEN insert_elem(h, bucket, e) ELSE h, hash, memory), old>>

hash_replace(h, hash, e, memory) ==
  LET bucket == find_bucket(h, hash, e)
      old == find_elem(h, bucket, e)
      rest == IF old = <<>> THEN h ELSE remove_elem(h, old[1])
  IN <<rehash(insert_elem(rest, bucket, e), hash, memory), old>>

hash_find(h, hash, e) == find_elem(h, find_bucket(h, hash, e), e)

hash_delete(h, hash, e, memory) ==
  LET found == hash_find(h, hash, e)
  IN <<IF found = <<>> THEN h ELSE rehash(remove_elem(h, found[1]), hash, memory), found>>

\* hash_next (): from an element (or the head of a bucket, position 0) to
\* the next one, over empty buckets; NULL, here <<>>, at the end.
RECURSIVE hash_next(_, _, _)
hash_next(h, bucket, pos) ==
  IF pos + 1 <= Len(h.buckets[bucket]) THEN <<bucket, pos + 1>>
  ELSE IF bucket + 1 > bucket_cnt(h) THEN <<>>
  ELSE hash_next(h, bucket + 1, 0)

\* hash_first () and hash_next () until the end: the elements in the order
\* in which an iteration meets them.
RECURSIVE IterateFrom(_, _, _)
IterateFrom(h, bucket, pos) ==
  LET n == hash_next(h, bucket, pos)
  IN IF n = <<>> THEN <<>>
     ELSE <<h.buckets[n[1]][n[2]]>> \o IterateFrom(h, n[1], n[2])

Iteration(h) == IterateFrom(h, 1, 0)

\* hash_apply () visits the chains in the same order.
hash_apply(h) == FlattenSeq(h.buckets)

-----------------------------------------------------------------------------
(* A table that a program works on, and the elements it should hold *)

VARIABLES table, hash, contents

hashVars == <<table, hash, contents>>

HashInit ==
  /\ table = hash_init
  /\ \E value \in [{key_of[e] : e \in HashElem} -> HashValue] :
        hash = [e \in HashElem |-> value[key_of[e]]]
  /\ contents = {}

Equal(e) == {x \in contents : key_of[x] = key_of[e]}

\* memory: malloc () finds room for the new buckets, if any are needed.
DoHashInsert(e, memory) ==
  /\ e \notin contents
  /\ table' = hash_insert(table, hash, e, memory)[1]
  /\ contents' = IF Equal(e) = {} THEN contents \cup {e} ELSE contents
  /\ UNCHANGED hash

DoHashReplace(e, memory) ==
  /\ e \notin contents
  /\ table' = hash_replace(table, hash, e, memory)[1]
  /\ contents' = (contents \ Equal(e)) \cup {e}
  /\ UNCHANGED hash

DoHashDelete(e, memory) ==
  /\ table' = hash_delete(table, hash, e, memory)[1]
  /\ contents' = contents \ Equal(e)
  /\ UNCHANGED hash

DoHashClear == table' = hash_clear(table) /\ contents' = {} /\ UNCHANGED hash

HashNext ==
  \/ DoHashClear
  \/ \E e \in HashElem, memory \in BOOLEAN :
        DoHashInsert(e, memory) \/ DoHashReplace(e, memory) \/ DoHashDelete(e, memory)

(***************************************************************************)
(* The table is the set of the elements inserted and not deleted since,    *)
(* however hash values collide and whenever rehash () grows it, shrinks it *)
(* or finds no memory to: every element is found through any equal one,    *)
(* nothing else is, hash_first () and hash_next () meet each element       *)
(* exactly once, in the order of hash_apply (), and elem_cnt counts them.  *)
(***************************************************************************)
TableIsSet ==
  /\ \A e \in HashElem : ToSet(hash_find(table, hash, e)) = Equal(e)
  /\ ToSet(Iteration(table)) = contents
  /\ Len(Iteration(table)) = Cardinality(contents)
  /\ hash_apply(table) = Iteration(table)
  /\ table.elem_cnt = Cardinality(contents)
=============================================================================
