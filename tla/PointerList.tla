----------------------------- MODULE PointerList -----------------------------
(***************************************************************************)
(* Doubly linked lists as lib/kernel/list.c builds them, from prev and     *)
(* next pointers between elements and the head and tail of each list.      *)
(* (KernelList has the same lists as sequences.)                           *)
(*                                                                         *)
(* A heap h is a record of two functions, h.next and h.prev.  A loop of    *)
(* the code is a recursive operator.  key gives the order: less (a, b) is  *)
(* key[a] < key[b].                                                        *)
(***************************************************************************)
EXTENDS Integers, Sequences, SequencesExt, FiniteSets

CONSTANTS
  Elem, ListNull,
  ListKeys              \* the keys that elements may have, as functions on Elem

head(list) == <<"head", list>>
tail(list) == <<"tail", list>>

Lists == {"list", "duplicates"}
Node == {head(l) : l \in Lists} \cup {tail(l) : l \in Lists} \cup Elem

list_begin(h, list) == h.next[head(list)]
list_end(list) == tail(list)
list_empty(h, list) == list_begin(h, list) = list_end(list)

\* list_init () for both lists; the elements' pointers do not matter yet.
list_init ==
  [next |-> [n \in Node |-> IF \E l \in Lists : n = head(l)
                            THEN tail(CHOOSE l \in Lists : n = head(l)) ELSE ListNull],
   prev |-> [n \in Node |-> IF \E l \in Lists : n = tail(l)
                            THEN head(CHOOSE l \in Lists : n = tail(l)) ELSE ListNull]]

is_head(h, e) == h.prev[e] = ListNull /\ h.next[e] # ListNull
is_interior(h, e) == h.prev[e] # ListNull /\ h.next[e] # ListNull
is_tail(h, e) == h.prev[e] # ListNull /\ h.next[e] = ListNull

list_insert(h, before, e) ==
  LET p == h.prev[before]
  IN [next |-> [h.next EXCEPT ![e] = before, ![p] = e],
      prev |-> [h.prev EXCEPT ![e] = p, ![before] = e]]

list_push_front(h, list, e) == list_insert(h, list_begin(h, list), e)
list_push_back(h, list, e) == list_insert(h, list_end(list), e)

list_remove(h, e) ==
  [next |-> [h.next EXCEPT ![h.prev[e]] = h.next[e]],
   prev |-> [h.prev EXCEPT ![h.next[e]] = h.prev[e]]]

list_pop_front(h, list) == list_remove(h, list_begin(h, list))
list_pop_back(h, list) == list_remove(h, h.prev[tail(list)])

RECURSIVE SizeFrom(_, _, _)
SizeFrom(h, list, e) == IF e = list_end(list) THEN 0 ELSE 1 + SizeFrom(h, list, h.next[e])
list_size(h, list) == SizeFrom(h, list, list_begin(h, list))

\* first..last leaves its place, then goes before `before'.
list_splice(h, before, first, last_) ==
  IF first = last_ THEN h ELSE
  LET last == h.prev[last_]
      out == [next |-> [h.next EXCEPT ![h.prev[first]] = h.next[last]],
              prev |-> [h.prev EXCEPT ![h.next[last]] = h.prev[first]]]
      p == out.prev[before]
  IN [next |-> [out.next EXCEPT ![last] = before, ![p] = first],
      prev |-> [out.prev EXCEPT ![first] = p, ![before] = last]]

\* swap () of an element's own two pointers.
Turned(h, e) == [next |-> [h.next EXCEPT ![e] = h.prev[e]],
                 prev |-> [h.prev EXCEPT ![e] = h.next[e]]]

RECURSIVE TurnAll(_, _, _)
TurnAll(h, e, end) ==
  IF e = end THEN h
  ELSE LET turned == Turned(h, e) IN TurnAll(turned, turned.prev[e], end)

list_reverse(h, list) ==
  IF list_empty(h, list) THEN h ELSE
  LET t == TurnAll(h, list_begin(h, list), list_end(list))
      front == t.prev[tail(list)]       \* swap (&head.next, &tail.prev)
      back == t.next[head(list)]
      s == [next |-> [t.next EXCEPT ![head(list)] = front],
            prev |-> [t.prev EXCEPT ![tail(list)] = back]]
  IN [next |-> [s.next EXCEPT ![back] = s.prev[front]],
      prev |-> [s.prev EXCEPT ![front] = s.next[back]]]

RECURSIVE find_end_of_run(_, _, _, _)
find_end_of_run(h, a, b, key) ==
  LET n == h.next[a]
  IN IF n # b /\ ~(key[n] < key[h.prev[n]]) THEN find_end_of_run(h, n, b, key) ELSE n

\* Whether inplace_merge () leaves a0 where it is.
MergesFirst(key, a0, a1b0) == ~(key[a1b0] < key[a0])

RECURSIVE inplace_merge(_, _, _, _, _)
inplace_merge(h, a0, a1b0, b1, key) ==
  IF a0 = a1b0 \/ a1b0 = b1 THEN h
  ELSE IF MergesFirst(key, a0, a1b0) THEN inplace_merge(h, h.next[a0], a1b0, b1, key)
  ELSE LET n == h.next[a1b0]
       IN inplace_merge(list_splice(h, a0, h.prev[n], n), a0, n, b1, key)

\* One pass of list_sort (): merges pairs of runs from a0 on, counting them.
RECURSIVE SortPass(_, _, _, _, _)
SortPass(h, list, a0, runs, key) ==
  IF a0 = list_end(list) THEN <<h, runs>> ELSE
  LET a1b0 == find_end_of_run(h, a0, list_end(list), key)
      b1 == find_end_of_run(h, a1b0, list_end(list), key)
  IN IF a1b0 = list_end(list) THEN <<h, runs + 1>>
     ELSE SortPass(inplace_merge(h, a0, a1b0, b1, key), list, b1, runs + 1, key)

RECURSIVE list_sort(_, _, _)
list_sort(h, list, key) ==
  LET pass == SortPass(h, list, list_begin(h, list), 0, key)
  IN IF pass[2] > 1 THEN list_sort(pass[1], list, key) ELSE pass[1]

RECURSIVE PlaceFor(_, _, _, _, _)
PlaceFor(h, list, n, e, key) ==
  IF n = list_end(list) \/ key[e] < key[n] THEN n
  ELSE PlaceFor(h, list, h.next[n], e, key)

list_insert_ordered(h, list, e, key) ==
  list_insert(h, PlaceFor(h, list, list_begin(h, list), e, key), e)

RECURSIVE UniqueFrom(_, _, _, _, _)
UniqueFrom(h, list, duplicates, e, key) ==
  LET n == h.next[e]
  IN IF n = list_end(list) THEN h
     ELSE IF key[e] = key[n]
     THEN UniqueFrom(list_push_back(list_remove(h, n), duplicates, n),
                     list, duplicates, e, key)
     ELSE UniqueFrom(h, list, duplicates, n, key)

list_unique(h, list, duplicates, key) ==
  IF list_empty(h, list) THEN h
  ELSE UniqueFrom(h, list, duplicates, list_begin(h, list), key)

RECURSIVE BestFrom(_, _, _, _, _, _)
BestFrom(h, list, best, e, key, sign) ==
  IF e = list_end(list) THEN best
  ELSE BestFrom(h, list, IF (sign = "max" /\ key[best] < key[e]) \/
                            (sign = "min" /\ key[e] < key[best]) THEN e ELSE best,
                h.next[e], key, sign)

list_max(h, list, key) ==
  LET b == list_begin(h, list)
  IN IF b = list_end(list) THEN b ELSE BestFrom(h, list, b, h.next[b], key, "max")

list_min(h, list, key) ==
  LET b == list_begin(h, list)
  IN IF b = list_end(list) THEN b ELSE BestFrom(h, list, b, h.next[b], key, "min")

-----------------------------------------------------------------------------
(* Two lists that a program works on, and the sequences they stand for *)

VARIABLES
  heap,                 \* all pointers
  key,                  \* the elements' keys
  lists                 \* what each list should hold

listVars == <<heap, key, lists>>

ListInit ==
  /\ heap = list_init
  /\ key \in ListKeys
  /\ lists = [l \in Lists |-> <<>>]

Listed == UNION {ToSet(lists[l]) : l \in Lists}
At(l, i) == IF i <= Len(lists[l]) THEN lists[l][i] ELSE list_end(l)
Sorted(s) == \A i, j \in 1 .. Len(s) : i < j => key[s[i]] <= key[s[j]]

\* The stable sort of s: every element behind the smaller ones and behind the
\* equal ones that came before it.
StableSort(s) ==
  LET place(i) == Cardinality({j \in 1 .. Len(s) :
                    key[s[j]] < key[s[i]] \/ (key[s[j]] = key[s[i]] /\ j <= i)})
  IN [p \in 1 .. Len(s) |-> s[CHOOSE i \in 1 .. Len(s) : place(i) = p]]

\* Whether s[i] repeats the key of the element before it.
Repeats(s, i) == i > 1 /\ key[s[i]] = key[s[i - 1]]
Picked(s, Test(_)) == LET of(i) == IF Test(i) THEN <<s[i]>> ELSE <<>>
                      IN FlattenSeq([i \in 1 .. Len(s) |-> of(i)])

Becomes(h, new) == heap' = h /\ lists' = new /\ UNCHANGED key

DoInsert(l, i, e) == Becomes(list_insert(heap, At(l, i), e), [lists EXCEPT ![l] = InsertAt(@, i, e)])
DoPushFront(l, e) == Becomes(list_push_front(heap, l, e), [lists EXCEPT ![l] = <<e>> \o @])
DoPushBack(l, e) == Becomes(list_push_back(heap, l, e), [lists EXCEPT ![l] = Append(@, e)])
DoInsertOrdered(l, e) ==
  /\ Sorted(lists[l])
  /\ LET i == Cardinality({j \in DOMAIN lists[l] : key[lists[l][j]] <= key[e]})
     IN Becomes(list_insert_ordered(heap, l, e, key), [lists EXCEPT ![l] = InsertAt(@, i + 1, e)])

DoRemove(l, i) == Becomes(list_remove(heap, lists[l][i]), [lists EXCEPT ![l] = RemoveAt(@, i)])
DoPopFront(l) == lists[l] # <<>> /\ Becomes(list_pop_front(heap, l), [lists EXCEPT ![l] = Tail(@)])
DoPopBack(l) == lists[l] # <<>> /\ Becomes(list_pop_back(heap, l), [lists EXCEPT ![l] = Front(@)])

\* Elements i .. j of list l go before element k of list m.
DoSplice(l, i, j, m, k) ==
  LET s == lists[l]
      rest == SubSeq(s, 1, i - 1) \o SubSeq(s, j + 1, Len(s))
      without == [lists EXCEPT ![l] = rest]
      place == IF l = m /\ k > j THEN k - (j - i + 1) ELSE k
  IN /\ l = m => k \notin i .. j
     /\ Becomes(list_splice(heap, At(m, k), At(l, i), At(l, j + 1)),
                [without EXCEPT ![m] = SubSeq(@, 1, place - 1) \o SubSeq(s, i, j)
                                       \o SubSeq(@, place, Len(@))])

DoReverse(l) == Becomes(list_reverse(heap, l), [lists EXCEPT ![l] = Reverse(@)])
DoSort(l) == Becomes(list_sort(heap, l, key), [lists EXCEPT ![l] = StableSort(@)])
DoUnique ==
  LET s == lists["list"]
  IN Becomes(list_unique(heap, "list", "duplicates", key),
             [list |-> Picked(s, LAMBDA i : ~Repeats(s, i)),
              duplicates |-> lists["duplicates"] \o Picked(s, LAMBDA i : Repeats(s, i))])

ListNext ==
  \/ DoUnique
  \/ \E l \in Lists :
        \/ DoPopFront(l) \/ DoPopBack(l) \/ DoReverse(l) \/ DoSort(l)
        \/ \E e \in Elem \ Listed :
              \/ DoPushFront(l, e) \/ DoPushBack(l, e) \/ DoInsertOrdered(l, e)
              \/ \E i \in 1 .. Len(lists[l]) + 1 : DoInsert(l, i, e)
        \/ \E i \in DOMAIN lists[l] :
              \/ DoRemove(l, i)
              \/ \E j \in i .. Len(lists[l]), m \in Lists :
                    \E k \in 1 .. Len(lists[m]) + 1 : DoSplice(l, i, j, m, k)

RECURSIVE Follow(_, _, _, _)
Follow(pointer, n, end, fuel) ==
  IF n = end \/ fuel = 0 THEN <<>>
  ELSE <<n>> \o Follow(pointer, pointer[n], end, fuel - 1)

\* At most as many steps as there are nodes: a loop would show as a repeat.
Forward(h, l) == Follow(h.next, list_begin(h, l), list_end(l), Cardinality(Node))
Backward(h, l) == Follow(h.prev, h.prev[tail(l)], head(l), Cardinality(Node))

(***************************************************************************)
(* However its operations are combined, each list is the sequence it       *)
(* stands for, read forwards and backwards: list_sort () is a stable sort, *)
(* list_splice () moves exactly its range, also within a list,             *)
(* list_unique () keeps the first of equal neighbours and collects the     *)
(* others, list_max () and list_min () return the first of equal extremes, *)
(* and the assertions of list.c on heads, tails and elements hold.         *)
(***************************************************************************)
ListsAsSequences ==
  \A l \in Lists :
    LET s == lists[l]
        First(P(_)) == IF s = <<>> THEN list_end(l)
                       ELSE s[CHOOSE i \in DOMAIN s : P(i) /\ \A j \in 1 .. i - 1 : ~P(j)]
    IN /\ Forward(heap, l) = s /\ Backward(heap, l) = Reverse(s)
       /\ list_size(heap, l) = Len(s)
       /\ is_head(heap, head(l)) /\ is_tail(heap, tail(l))
       /\ \A i \in DOMAIN s : is_interior(heap, s[i])
       /\ list_max(heap, l, key) = First(LAMBDA i : \A x \in ToSet(s) : key[x] <= key[s[i]])
       /\ list_min(heap, l, key) = First(LAMBDA i : \A x \in ToSet(s) : key[s[i]] <= key[x])
=============================================================================
