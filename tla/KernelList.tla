------------------------------ MODULE KernelList ------------------------------
(***************************************************************************)
(* The list operations of lib/kernel/list.c that the thread system uses.   *)
(*                                                                         *)
(* A struct list is a sequence of its elements.  Every list_less_func of   *)
(* the thread system compares one integer field of the two elements, so an *)
(* ordering is given here as a function key from elements to integers, and *)
(* an element with a GREATER key comes first: key is priority for          *)
(* thread_priority_greater, the priority a waiter captured for             *)
(* semaphore_priority_greater, and minus wakeup_tick for wakeup_tick_less. *)
(*                                                                         *)
(* Nothing here is recursive, so that the proofs can expand it: list_sort  *)
(* is given by the place each element ends at, as a stable sort puts it.   *)
(***************************************************************************)
EXTENDS Integers, Sequences, FiniteSets

\* The set of elements on list l.
Elements(l) == {l[i] : i \in 1..Len(l)}

\* No element is linked twice: a list_elem is on one list at one place.
Distinct(l) == \A i, j \in 1..Len(l) : l[i] = l[j] => i = j

\* l is ordered the way list_sort leaves it.
Ordered(l, key) == \A i, j \in 1..Len(l) : i < j => key[l[i]] >= key[l[j]]

(***************************************************************************)
(* list_insert_ordered walks from the front past every element that the    *)
(* new one does not precede, and links it there: behind its equals.        *)
(* Passed is the set of the positions it walks past.                       *)
(***************************************************************************)
Passed(l, e, key) ==
    {i \in 1..Len(l) : \A j \in 1..i : key[l[j]] >= key[e]}

list_insert_ordered(l, e, key) ==
    LET k == Cardinality(Passed(l, e, key))
    IN  SubSeq(l, 1, k) \o <<e>> \o SubSeq(l, k + 1, Len(l))

(***************************************************************************)
(* list_sort is stable: the element that ends up at position k is the one  *)
(* that k - 1 elements go ahead of, because their key is greater or because *)
(* it is equal and they were ahead before.                                 *)
(***************************************************************************)
Ahead(l, key, i) ==
    {j \in 1..Len(l) : \/ key[l[j]] > key[l[i]]
                       \/ key[l[j]] = key[l[i]] /\ j < i}

list_sort(l, key) ==
    [k \in 1..Len(l) |->
        l[CHOOSE i \in 1..Len(l) : Cardinality(Ahead(l, key, i)) = k - 1]]

\* The front element, and what list_pop_front leaves.
list_front(l) == Head(l)
list_rest(l) == Tail(l)
===============================================================================
