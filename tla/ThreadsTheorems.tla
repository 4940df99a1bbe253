--------------------------- MODULE ThreadsTheorems ----------------------------
(***************************************************************************)
(* What the list operations and the scheduler keep true, for any number of *)
(* threads and priorities.  First the lists: what the operations of        *)
(* KernelList return, for every list, element and key (list_insert_ordered *)
(* adds one element and list_sort permutes).  Then the scheduler: whatever *)
(* calls its operations with a run queue that matches the threads' states  *)
(* gets the scheduler back in a consistent state, with the thread of       *)
(* highest priority running.                                               *)
(***************************************************************************)
EXTENDS Threads, FiniteSetTheorems, TLAPS

\* Zenon proves the leaves that name no prover.
USE Zenon

(***************************************************************************)
(* Every non-empty set of natural numbers has a least element; every       *)
(* non-empty set of integers below a bound has a greatest one.             *)
(***************************************************************************)
LEMMA LeastNat ==
    ASSUME NEW T, T \subseteq Nat, T # {}
    PROVE  \E x \in T : \A y \in T : x <= y
<1> DEFINE R == {ss \in Nat \X Nat : ss[1] < ss[2]}
<1>1. IsWellFoundedOn(R, Nat)
    BY NatLessThanWellFounded DEF OpToRel
<1>2. PICK x \in T : \A y \in T : ~ (<<y, x>> \in R)
    BY ZenonT(40), <1>1, WFMin
<1>3. \A y \in T : ~ (y < x)
    BY ZenonT(40), <1>2
<1> QED
    BY SMT, <1>3

\* Every bounded, nonempty set of integers has a greatest element.
LEMMA GreatestInt ==
    ASSUME NEW b \in Int, NEW T, T \subseteq Int, T # {}, \A y \in T : y <= b
    PROVE  \E x \in T : \A y \in T : y <= x
<1> DEFINE D == {n \in Nat : b - n \in T}
<1>1. D \subseteq Nat /\ D # {}
    <2>1. PICK y \in T : TRUE
        BY ZenonT(40)
    <2>2. b - y \in Nat /\ b - (b - y) = y
        BY SMT
    <2> QED
        BY ZenonT(40), <2>1, <2>2
<1>2. PICK n \in D : \A m \in D : n <= m
    BY ZenonT(40), <1>1, LeastNat
<1>3. \A y \in T : y <= b - n
    <2> TAKE y \in T
    <2>1. b - y \in Nat /\ b - (b - y) = y
        BY SMT
    <2>2. n <= b - y
        BY ZenonT(40), <2>1, <1>2
    <2> QED
        BY SMT, <2>2
<1> QED
    BY <1>3, <1>2

(***************************************************************************)
(* list_insert_ordered links e into l at one place and moves nothing else. *)
(***************************************************************************)
LEMMA PassedBound ==
    ASSUME NEW S, NEW l \in Seq(S), NEW e, NEW key
    PROVE  Cardinality(Passed(l, e, key)) \in 0..Len(l)
<1>1. Len(l) \in Nat
    BY SMT
<1>2. IsFiniteSet(1..Len(l)) /\ Cardinality(1..Len(l)) = Len(l)
    BY SMTT(40), <1>1, FS_Interval
<1>3. Passed(l, e, key) \in SUBSET (1..Len(l))
    BY DEF Passed
<1>4. /\ IsFiniteSet(Passed(l, e, key))
      /\ Cardinality(Passed(l, e, key)) <= Len(l)
    BY <1>2, <1>3, FS_Subset
<1>5. Cardinality(Passed(l, e, key)) \in Nat
    BY <1>4, FS_CardinalityType
<1> QED
    BY SMT, <1>1, <1>4, <1>5

\* Where list_insert_ordered puts each element: a prefix, the new one, the rest.
LEMMA InsertShape ==
    ASSUME NEW S, NEW l \in Seq(S), NEW e \in S, NEW key
    PROVE  LET k == Cardinality(Passed(l, e, key))
               m == list_insert_ordered(l, e, key)
           IN  /\ k \in 0..Len(l)
               /\ m \in Seq(S)
               /\ Len(m) = Len(l) + 1
               /\ \A i \in 1..Len(l) + 1 :
                     m[i] = IF i <= k THEN l[i] ELSE IF i = k + 1 THEN e ELSE l[i - 1]
<1> DEFINE k == Cardinality(Passed(l, e, key))
           a == SubSeq(l, 1, k)
           b == SubSeq(l, k + 1, Len(l))
<1>1. Len(l) \in Nat /\ \A i \in 1..Len(l) : l[i] \in S
    BY SMT
<1>2. k \in 0..Len(l)
    BY PassedBound
<1> HIDE DEF k
<1>3. /\ a \in Seq(S)
      /\ Len(a) = k
      /\ \A i \in 1..k : a[i] = l[i]
    <2>1. \A i \in 1..k : l[i] \in S
        BY SMT, <1>1, <1>2
    <2>2. /\ a \in Seq(S)
          /\ Len(a) = IF 1 <= k THEN k - 1 + 1 ELSE 0
          /\ \A i \in 1..k - 1 + 1 : a[i] = l[1 + i - 1]
        BY SMT, <2>1, <1>2
    <2> QED
        BY SMT, <2>2, <1>2, <1>1
<1>4. /\ b \in Seq(S)
      /\ Len(b) = Len(l) - k
      /\ \A i \in 1..Len(l) - k : b[i] = l[k + i]
    <2>1. \A i \in k + 1..Len(l) : l[i] \in S
        BY SMT, <1>1, <1>2
    <2>2. /\ b \in Seq(S)
          /\ Len(b) = IF k + 1 <= Len(l) THEN Len(l) - (k + 1) + 1 ELSE 0
          /\ \A i \in 1..Len(l) - (k + 1) + 1 : b[i] = l[k + 1 + i - 1]
        BY SMT, <2>1, <1>2, <1>1
    <2> QED
        BY SMT, <2>2, <1>2, <1>1
<1>5. <<e>> \in Seq(S) /\ Len(<<e>>) = 1 /\ <<e>>[1] = e
    BY SMT
<1> HIDE DEF a, b
<1>6. /\ a \o <<e>> \in Seq(S)
      /\ Len(a \o <<e>>) = k + 1
      /\ \A i \in 1..k + 1 : (a \o <<e>>)[i] = IF i <= k THEN l[i] ELSE e
    <2>1. /\ a \o <<e>> \in Seq(S)
          /\ Len(a \o <<e>>) = Len(a) + Len(<<e>>)
          /\ \A i \in 1..Len(a) + Len(<<e>>) :
                (a \o <<e>>)[i] = IF i <= Len(a) THEN a[i] ELSE <<e>>[i - Len(a)]
        BY SMT, <1>3, <1>5
    <2> QED
        BY SMT, <2>1, <1>1, <1>2, <1>3, <1>5
<1>7. /\ (a \o <<e>>) \o b \in Seq(S)
      /\ Len((a \o <<e>>) \o b) = Len(l) + 1
      /\ \A i \in 1..Len(l) + 1 : ((a \o <<e>>) \o b)[i] =
            IF i <= k THEN l[i] ELSE IF i = k + 1 THEN e ELSE l[i - 1]
    <2> DEFINE c == a \o <<e>>
    <2> HIDE DEF c
    <2>1. /\ c \in Seq(S)
          /\ Len(c) = k + 1
          /\ \A i \in 1..k + 1 : c[i] = IF i <= k THEN l[i] ELSE e
        BY <1>6 DEF c
    <2>2. /\ c \o b \in Seq(S)
          /\ Len(c \o b) = Len(c) + Len(b)
          /\ \A i \in 1..Len(c) + Len(b) :
                (c \o b)[i] = IF i <= Len(c) THEN c[i] ELSE b[i - Len(c)]
        <3>1. c \in Seq(S) /\ b \in Seq(S)
            BY <2>1, <1>4
        <3> QED
            BY SMT, <3>1
    <2>3. c \o b \in Seq(S) /\ Len(c \o b) = Len(l) + 1
        BY SMT, <2>1, <2>2, <1>1, <1>2, <1>4
    <2>4. ASSUME NEW i \in 1..Len(l) + 1
          PROVE  (c \o b)[i] = IF i <= k THEN l[i] ELSE IF i = k + 1 THEN e ELSE l[i - 1]
        <3>0. i <= k + 1 \/ i > k + 1
            BY SMT, <1>1, <1>2
        <3>1. CASE i <= k + 1
            BY SMT, <3>1, <2>1, <2>2, <1>1, <1>2, <1>4
        <3>2. CASE i > k + 1
            <4>1. i - (k + 1) \in 1..Len(l) - k
                BY SMT, <3>2, <1>1, <1>2
            <4>2. b[i - (k + 1)] = l[i - 1]
                BY SMTT(40), <4>1, <1>1, <1>2, <1>4
            <4>3. (c \o b)[i] = b[i - (k + 1)]
                BY SMT, <3>2, <2>1, <2>2, <1>1, <1>2, <1>4
            <4> QED
                BY SMT, <4>2, <4>3, <3>2, <1>1, <1>2
        <3> QED
            BY ZenonT(40), <3>0, <3>1, <3>2
    <2> QED
        BY <2>3, <2>4 DEF c
<1> QED
    BY ZenonT(40), <1>2, <1>7 DEF list_insert_ordered, k, a, b

(***************************************************************************)
(* list_insert_ordered adds exactly e, and keeps every element linked at   *)
(* one place if e was not on the list.                                     *)
(***************************************************************************)
THEOREM InsertElements ==
    ASSUME NEW S, NEW l \in Seq(S), NEW e \in S, NEW key
    PROVE  /\ list_insert_ordered(l, e, key) \in Seq(S)
           /\ list_insert_ordered(l, e, key) # <<>>
           /\ Elements(list_insert_ordered(l, e, key)) = Elements(l) \cup {e}
           /\ e \notin Elements(l) /\ Distinct(l)
                 => Distinct(list_insert_ordered(l, e, key))
<1> DEFINE k == Cardinality(Passed(l, e, key))
           m == list_insert_ordered(l, e, key)
<1>1. /\ k \in 0..Len(l)
      /\ m \in Seq(S)
      /\ Len(m) = Len(l) + 1
      /\ \A i \in 1..Len(l) + 1 :
            m[i] = IF i <= k THEN l[i] ELSE IF i = k + 1 THEN e ELSE l[i - 1]
    BY SMT, InsertShape
<1>2. Len(l) \in Nat
    BY SMT
<1> HIDE DEF k, m
<1>3. m # <<>>
    BY SMT, <1>1, <1>2
<1>4. Elements(m) \subseteq Elements(l) \cup {e}
    <2> SUFFICES ASSUME NEW i \in 1..Len(l) + 1 PROVE m[i] \in Elements(l) \cup {e}
        BY <1>1 DEF Elements
    <2>1. CASE i <= k
        BY SMT, <2>1, <1>1, <1>2 DEF Elements
    <2>2. CASE i = k + 1
        BY SMT, <2>2, <1>1, <1>2
    <2>3. CASE i > k + 1
        <3>1. i - 1 \in 1..Len(l) /\ m[i] = l[i - 1]
            BY SMT, <2>3, <1>1, <1>2
        <3> QED
            BY <3>1 DEF Elements
    <2>4. i <= k \/ i = k + 1 \/ i > k + 1
        BY SMT, <1>1, <1>2
    <2> QED
        BY <2>1, <2>2, <2>3, <2>4
<1>5. Elements(l) \cup {e} \subseteq Elements(m)
    <2>1. e \in Elements(m)
        <3>1. k + 1 \in 1..Len(m) /\ m[k + 1] = e
            BY SMT, <1>1, <1>2
        <3> QED
            BY <3>1 DEF Elements
    <2>2. ASSUME NEW i \in 1..Len(l) PROVE l[i] \in Elements(m)
        <3>1. CASE i <= k
            <4>1. i \in 1..Len(m) /\ m[i] = l[i]
                BY SMT, <3>1, <1>1, <1>2
            <4> QED
                BY <4>1 DEF Elements
        <3>2. CASE i > k
            <4>1. i + 1 \in 1..Len(m) /\ m[i + 1] = l[i]
                BY SMT, <3>2, <1>1, <1>2
            <4> QED
                BY <4>1 DEF Elements
        <3>3. i <= k \/ i > k
            BY SMT, <1>1, <1>2
        <3> QED
            BY <3>1, <3>2, <3>3
    <2> QED
        BY <2>1, <2>2 DEF Elements
<1>6. ASSUME e \notin Elements(l), Distinct(l) PROVE Distinct(m)
    <2> DEFINE at(i) == IF i <= k THEN i ELSE i - 1
    <2>1. \A i \in 1..Len(l) : l[i] # e
        BY <1>6 DEF Elements
    <2>2. ASSUME NEW i \in 1..Len(l) + 1, i # k + 1
          PROVE  at(i) \in 1..Len(l) /\ m[i] = l[at(i)]
        BY SMT, <2>2, <1>1, <1>2
    <2>3. ASSUME NEW i \in 1..Len(l) + 1, NEW j \in 1..Len(l) + 1, m[i] = m[j]
          PROVE  i = j
        <3>1. m[k + 1] = e /\ k + 1 \in 1..Len(l) + 1
            BY SMT, <1>1, <1>2
        <3>2. i = k + 1 <=> j = k + 1
            BY SMT, <3>1, <2>1, <2>2, <2>3
        <3>3. CASE i # k + 1
            <4>1. at(i) \in 1..Len(l) /\ at(j) \in 1..Len(l) /\ l[at(i)] = l[at(j)]
                BY <3>2, <3>3, <2>2, <2>3
            <4>2. at(i) = at(j)
                BY <4>1, <1>6 DEF Distinct
            <4> QED
                BY SMT, <4>2, <3>2, <3>3, <1>1, <1>2
        <3> QED
            BY <3>2, <3>3
    <2> QED
        BY <2>3, <1>1 DEF Distinct
<1> QED
    BY <1>1, <1>3, <1>4, <1>5, <1>6 DEF m

(***************************************************************************)
(* list_sort.  The element at position i goes to position Rank(l, key, i), *)
(* and ranks are a permutation of the positions, because "ahead" is a      *)
(* strict total order on positions.                                        *)
(***************************************************************************)
Rank(l, key, i) == Cardinality(Ahead(l, key, i)) + 1

\* The rank of a position, that is, its place after list_sort, is a position.
LEMMA RankRange ==
    ASSUME NEW S, NEW l \in Seq(S), NEW key, \A x \in S : key[x] \in Int,
           NEW i \in 1..Len(l)
    PROVE  /\ IsFiniteSet(Ahead(l, key, i))
           /\ Rank(l, key, i) \in 1..Len(l)
<1>1. Len(l) \in Nat /\ \A j \in 1..Len(l) : key[l[j]] \in Int
    BY SMT
<1>2. IsFiniteSet(1..Len(l)) /\ Cardinality(1..Len(l)) = Len(l)
    BY SMTT(40), <1>1, FS_Interval
<1>3. Ahead(l, key, i) \in SUBSET (1..Len(l))
    BY DEF Ahead
<1>4. i \notin Ahead(l, key, i)
    BY SMT, <1>1 DEF Ahead
<1>5. /\ IsFiniteSet(Ahead(l, key, i))
      /\ Cardinality(Ahead(l, key, i)) <= Len(l)
      /\ Cardinality(Ahead(l, key, i)) # Len(l)
    BY <1>2, <1>3, <1>4, FS_Subset
<1>6. Cardinality(Ahead(l, key, i)) \in Nat
    BY <1>5, FS_CardinalityType
<1> QED
    BY SMT, <1>1, <1>5, <1>6 DEF Rank

\* An element that goes ahead of another in list_sort has the lower rank.
LEMMA RankOrder ==
    ASSUME NEW S, NEW l \in Seq(S), NEW key, \A x \in S : key[x] \in Int,
           NEW i \in 1..Len(l), NEW j \in 1..Len(l), i \in Ahead(l, key, j)
    PROVE  Rank(l, key, i) < Rank(l, key, j)
<1>1. Len(l) \in Nat /\ \A h \in 1..Len(l) : key[l[h]] \in Int
    BY SMT
<1>2. Ahead(l, key, i) \subseteq Ahead(l, key, j)
    <2> SUFFICES ASSUME NEW h \in Ahead(l, key, i) PROVE h \in Ahead(l, key, j)
        BY ZenonT(40)
    <2>1. h \in 1..Len(l)
        BY DEF Ahead
    <2>2. key[l[h]] \in Int /\ key[l[i]] \in Int /\ key[l[j]] \in Int
        BY <1>1, <2>1
    <2>3. \/ key[l[h]] > key[l[i]]
          \/ key[l[h]] = key[l[i]] /\ h < i
        BY DEF Ahead
    <2>4. \/ key[l[i]] > key[l[j]]
          \/ key[l[i]] = key[l[j]] /\ i < j
        BY DEF Ahead
    <2>5. \/ key[l[h]] > key[l[j]]
          \/ key[l[h]] = key[l[j]] /\ h < j
        BY SMT, <2>1, <2>2, <2>3, <2>4, <1>1
    <2> QED
        BY <2>1, <2>5 DEF Ahead
<1>3. i \notin Ahead(l, key, i)
    BY SMT, <1>1 DEF Ahead
<1>4. Ahead(l, key, i) # Ahead(l, key, j)
    BY <1>3
<1>5. /\ IsFiniteSet(Ahead(l, key, j))
      /\ Rank(l, key, i) \in 1..Len(l)
      /\ Rank(l, key, j) \in 1..Len(l)
    BY RankRange
<1>6. /\ Cardinality(Ahead(l, key, i)) <= Cardinality(Ahead(l, key, j))
      /\ Cardinality(Ahead(l, key, i)) # Cardinality(Ahead(l, key, j))
    BY <1>2, <1>4, <1>5, FS_Subset
<1>7. IsFiniteSet(Ahead(l, key, i))
    BY RankRange
<1>8. Cardinality(Ahead(l, key, i)) \in Nat /\ Cardinality(Ahead(l, key, j)) \in Nat
    BY <1>5, <1>7, FS_CardinalityType
<1> QED
    BY SMT, <1>6, <1>8 DEF Rank

\* Of two positions one goes ahead of the other: list_sort leaves no ties.
LEMMA RankTotal ==
    ASSUME NEW S, NEW l \in Seq(S), NEW key, \A x \in S : key[x] \in Int,
           NEW i \in 1..Len(l), NEW j \in 1..Len(l), i # j
    PROVE  i \in Ahead(l, key, j) \/ j \in Ahead(l, key, i)
<1>1. Len(l) \in Nat /\ key[l[i]] \in Int /\ key[l[j]] \in Int
    BY SMT
<1> QED
    BY SMT, <1>1 DEF Ahead

\* Every place of the sorted list is the rank of some position.
LEMMA RankOnto ==
    ASSUME NEW S, NEW l \in Seq(S), NEW key, \A x \in S : key[x] \in Int,
           NEW k \in 1..Len(l)
    PROVE  \E i \in 1..Len(l) : Rank(l, key, i) = k
<1> DEFINE N == 1..Len(l)
           f == [i \in N |-> Rank(l, key, i)]
<1>1. Len(l) \in Nat
    BY SMT
<1>2. IsFiniteSet(N)
    BY SMT, <1>1, FS_Interval
<1>3. f \in [N -> N]
    BY RankRange
<1>4. ASSUME NEW i \in N, NEW j \in N, f[i] = f[j] PROVE i = j
    <2>1. Rank(l, key, i) = Rank(l, key, j) /\ Rank(l, key, i) \in N
        BY <1>4, <1>3
    <2>2. ~ (i \in Ahead(l, key, j)) /\ ~ (j \in Ahead(l, key, i))
        <3>1. ~ (Rank(l, key, i) < Rank(l, key, j)) /\ ~ (Rank(l, key, j) < Rank(l, key, i))
            BY SMT, <2>1, <1>1
        <3> QED
            BY <3>1, RankOrder
    <2> QED
        BY <2>2, RankTotal
<1> HIDE DEF f
<1>5. f \in Injection(N, N)
    BY <1>3, <1>4 DEF Injection, IsInjective
<1>6. f \in Surjection(N, N)
    BY <1>2, <1>5, FS_Injection
<1>7. PICK i \in N : f[i] = k
    BY <1>6 DEF Surjection
<1> QED
    BY <1>7 DEF f

\* From(l, key, k): the position the element at position k of the sorted list had.
From(l, key, k) == CHOOSE i \in 1..Len(l) : Cardinality(Ahead(l, key, i)) = k - 1

\* list_sort moves the element of rank k to place k.
LEMMA SortShape ==
    ASSUME NEW S, NEW l \in Seq(S), NEW key, \A x \in S : key[x] \in Int
    PROVE  /\ list_sort(l, key) \in Seq(S)
           /\ Len(list_sort(l, key)) = Len(l)
           /\ \A k \in 1..Len(l) : /\ From(l, key, k) \in 1..Len(l)
                                   /\ Rank(l, key, From(l, key, k)) = k
                                   /\ list_sort(l, key)[k] = l[From(l, key, k)]
<1>1. Len(l) \in Nat /\ \A i \in 1..Len(l) : l[i] \in S
    BY SMT
<1>2. ASSUME NEW k \in 1..Len(l)
      PROVE  /\ From(l, key, k) \in 1..Len(l)
             /\ Rank(l, key, From(l, key, k)) = k
    <2>1. PICK i \in 1..Len(l) : Rank(l, key, i) = k
        BY SMT, RankOnto
    <2>2. \A j \in 1..Len(l) : Cardinality(Ahead(l, key, j)) \in Nat
        BY RankRange, FS_CardinalityType
    <2>3. Cardinality(Ahead(l, key, i)) = k - 1
        BY SMTT(40), <2>1, <2>2, <1>1 DEF Rank
    <2>4. /\ From(l, key, k) \in 1..Len(l)
          /\ Cardinality(Ahead(l, key, From(l, key, k))) = k - 1
        BY <2>3 DEF From
    <2> QED
        BY SMT, <2>4, <1>1 DEF Rank
<1>3. list_sort(l, key) = [k \in 1..Len(l) |-> l[From(l, key, k)]]
    BY DEF list_sort, From
<1>4. list_sort(l, key) \in [1..Len(l) -> S]
    BY <1>1, <1>2, <1>3
<1>5. list_sort(l, key) \in Seq(S)
    BY SMT, <1>1, <1>4
<1>6. Len(list_sort(l, key)) = Len(l)
    BY SMT, <1>1, <1>4, <1>5
<1> QED
    BY <1>2, <1>3, <1>5, <1>6

(***************************************************************************)
(* list_sort permutes the list: nothing is lost, added or linked twice.    *)
(***************************************************************************)
THEOREM SortElements ==
    ASSUME NEW S, NEW l \in Seq(S), NEW key, \A x \in S : key[x] \in Int
    PROVE  /\ list_sort(l, key) \in Seq(S)
           /\ Len(list_sort(l, key)) = Len(l)
           /\ list_sort(l, key) = <<>> <=> l = <<>>
           /\ Elements(list_sort(l, key)) = Elements(l)
           /\ Distinct(l) => Distinct(list_sort(l, key))
<1> DEFINE m == list_sort(l, key)
           p(k) == From(l, key, k)
<1>1. Len(l) \in Nat
    BY SMT
<1>2. /\ m \in Seq(S)
      /\ Len(m) = Len(l)
      /\ \A k \in 1..Len(l) : /\ p(k) \in 1..Len(l)
                              /\ Rank(l, key, p(k)) = k
                              /\ m[k] = l[p(k)]
    BY ZenonT(40), SortShape
<1> HIDE DEF m, p
<1>3. m = <<>> <=> l = <<>>
    BY SMT, <1>2
<1>4. ASSUME NEW i \in 1..Len(l) PROVE \E k \in 1..Len(l) : p(k) = i
    <2>1. Rank(l, key, i) \in 1..Len(l)
        BY RankRange
    <2> DEFINE k == Rank(l, key, i)
    <2>2. p(k) \in 1..Len(l) /\ Rank(l, key, p(k)) = k
        BY <1>2, <2>1
    <2>3. ~ (Rank(l, key, i) < Rank(l, key, p(k))) /\ ~ (Rank(l, key, p(k)) < Rank(l, key, i))
        BY SMT, <2>1, <2>2, <1>1
    <2>4. ~ (i \in Ahead(l, key, p(k))) /\ ~ (p(k) \in Ahead(l, key, i))
        BY <2>2, <2>3, RankOrder
    <2>5. p(k) = i
        BY <2>2, <2>4, RankTotal
    <2> QED
        BY <2>1, <2>5
<1>5. Elements(m) = Elements(l)
    <2>1. ASSUME NEW k \in 1..Len(l) PROVE m[k] \in Elements(l)
        BY <1>2 DEF Elements
    <2>2. ASSUME NEW i \in 1..Len(l) PROVE l[i] \in Elements(m)
        <3>1. PICK k \in 1..Len(l) : p(k) = i
            BY <1>4
        <3> QED
            BY <3>1, <1>2 DEF Elements
    <2> QED
        BY ZenonT(40), <2>1, <2>2, <1>2 DEF Elements
<1>6. ASSUME Distinct(l) PROVE Distinct(m)
    <2> SUFFICES ASSUME NEW j \in 1..Len(l), NEW k \in 1..Len(l), m[j] = m[k]
                 PROVE  j = k
        BY <1>2 DEF Distinct
    <2>1. p(j) = p(k)
        BY SMT, <1>2, <1>6 DEF Distinct
    <2> QED
        BY <2>1, <1>2
<1> QED
    BY <1>2, <1>3, <1>5, <1>6 DEF m

(***************************************************************************)
(* list_sort leaves the list ordered: its front has the greatest key.      *)
(***************************************************************************)
THEOREM SortOrdered ==
    ASSUME NEW S, NEW l \in Seq(S), NEW key, \A x \in S : key[x] \in Int
    PROVE  Ordered(list_sort(l, key), key)
<1> DEFINE m == list_sort(l, key)
           p(k) == From(l, key, k)
<1>1. Len(l) \in Nat /\ \A i \in 1..Len(l) : key[l[i]] \in Int
    BY SMT
<1>2. /\ Len(m) = Len(l)
      /\ \A k \in 1..Len(l) : /\ p(k) \in 1..Len(l)
                              /\ Rank(l, key, p(k)) = k
                              /\ m[k] = l[p(k)]
    BY SMT, SortShape
<1> HIDE DEF m, p
<1> SUFFICES ASSUME NEW j \in 1..Len(l), NEW k \in 1..Len(l), j < k
             PROVE  key[m[j]] >= key[m[k]]
    BY <1>2 DEF Ordered, m
<1>3. ~ (p(k) \in Ahead(l, key, p(j)))
    <2>1. ~ (Rank(l, key, p(k)) < Rank(l, key, p(j)))
        BY SMT, <1>1, <1>2
    <2> QED
        BY <2>1, <1>2, RankOrder
<1>4. ~ (key[l[p(k)]] > key[l[p(j)]])
    BY <1>2, <1>3 DEF Ahead
<1> QED
    BY SMTT(40), <1>1, <1>2, <1>4

(***************************************************************************)
(* The front of a list and the rest of it, as list_pop_front splits it.    *)
(***************************************************************************)
THEOREM FrontRest ==
    ASSUME NEW S, NEW l \in Seq(S), l # <<>>
    PROVE  /\ list_front(l) \in S
           /\ list_rest(l) \in Seq(S)
           /\ Elements(l) = Elements(list_rest(l)) \cup {list_front(l)}
           /\ Distinct(l) => Distinct(list_rest(l)) /\ list_front(l) \notin Elements(list_rest(l))
<1> DEFINE r == list_rest(l)
           n == Len(l)
<1>1. n \in Nat \ {0} /\ list_front(l) = l[1]
    BY SMT DEF list_front
<1>2. /\ list_front(l) \in S
      /\ r \in Seq(S)
      /\ Len(r) = n - 1
      /\ \A i \in 1..n - 1 : r[i] = l[i + 1]
    BY SMT DEF list_front, list_rest
<1> HIDE DEF r, n
<1>3. Elements(l) = Elements(r) \cup {l[1]}
    <2>1. ASSUME NEW i \in 1..n PROVE l[i] \in Elements(r) \cup {l[1]}
        <3>1. CASE i = 1
            BY <3>1
        <3>2. CASE i # 1
            <4>1. i - 1 \in 1..n - 1 /\ r[i - 1] = l[i]
                BY SMT, <3>2, <1>1, <1>2
            <4> QED
                BY <4>1, <1>2 DEF Elements
        <3> QED
            BY <3>1, <3>2
    <2>2. ASSUME NEW i \in 1..n - 1 PROVE r[i] \in Elements(l)
        <3>1. i + 1 \in 1..n /\ r[i] = l[i + 1]
            BY SMT, <1>1, <1>2
        <3> QED
            BY <3>1 DEF Elements, n
    <2>3. l[1] \in Elements(l)
        BY SMT, <1>1 DEF Elements, n
    <2> QED
        BY <2>1, <2>2, <2>3, <1>2 DEF Elements, n
<1>4. ASSUME Distinct(l) PROVE Distinct(r) /\ l[1] \notin Elements(r)
    <2>1. \A i, j \in 1..n : l[i] = l[j] => i = j
        BY <1>4 DEF Distinct, n
    <2>2. ASSUME NEW i \in 1..n - 1 PROVE r[i] # l[1]
        <3>1. i + 1 \in 1..n /\ 1 \in 1..n /\ i + 1 # 1 /\ r[i] = l[i + 1]
            BY SMT, <1>1, <1>2
        <3> QED
            BY <3>1, <2>1
    <2>3. ASSUME NEW i \in 1..n - 1, NEW j \in 1..n - 1, r[i] = r[j] PROVE i = j
        <3>1. i + 1 \in 1..n /\ j + 1 \in 1..n /\ l[i + 1] = l[j + 1]
            BY SMT, <2>3, <1>1, <1>2
        <3>2. i + 1 = j + 1
            BY <3>1, <2>1
        <3> QED
            BY SMT, <3>2, <1>1
    <2> QED
        BY <2>2, <2>3, <1>2 DEF Distinct, Elements
<1> QED
    BY <1>1, <1>2, <1>3, <1>4 DEF r

\* list_pop_front on an ordered list takes a greatest element and leaves the
\* rest ordered.
THEOREM FrontRestOrdered ==
    ASSUME NEW S, NEW l \in Seq(S), l # <<>>, NEW key, Ordered(l, key)
    PROVE  /\ Ordered(list_rest(l), key)
           /\ \A x \in Elements(list_rest(l)) : key[list_front(l)] >= key[x]
<1> DEFINE r == list_rest(l)
           n == Len(l)
<1>1. n \in Nat \ {0} /\ list_front(l) = l[1]
    BY SMT DEF list_front
<1>2. /\ Len(r) = n - 1
      /\ \A i \in 1..n - 1 : r[i] = l[i + 1]
    BY SMT DEF list_front, list_rest
<1> HIDE DEF r, n
<1>3. \A i, j \in 1..n : i < j => key[l[i]] >= key[l[j]]
    BY DEF Ordered, n
<1>4. ASSUME NEW i \in 1..n - 1 PROVE key[l[1]] >= key[r[i]]
    <2>1. 1 \in 1..n /\ i + 1 \in 1..n /\ 1 < i + 1
        BY SMT, <1>1
    <2> QED
        BY <2>1, <1>2, <1>3
<1>5. ASSUME NEW i \in 1..n - 1, NEW j \in 1..n - 1, i < j PROVE key[r[i]] >= key[r[j]]
    <2>1. i + 1 \in 1..n /\ j + 1 \in 1..n /\ i + 1 < j + 1
        BY SMT, <1>1, <1>5
    <2> QED
        BY <2>1, <1>2, <1>3
<1> QED
    BY <1>1, <1>2, <1>4, <1>5 DEF Ordered, Elements, r

(***************************************************************************)
(* list_insert_ordered keeps an ordered list ordered: it stops exactly     *)
(* behind the last element that the new one does not precede.              *)
(***************************************************************************)
LEMMA InitialSegment ==
    ASSUME NEW n \in Nat, NEW P, P \subseteq 1..n,
           \A i \in P : \A j \in 1..i : j \in P
    PROVE  P = 1..Cardinality(P)
<1>1. CASE P = 1..n
    <2>1. Cardinality(1..n) = n
        BY SMT, FS_Interval
    <2> QED
        BY <1>1, <2>1
<1>2. CASE P # 1..n
    <2> DEFINE T == (1..n) \ P
    <2>1. T \subseteq Nat /\ T # {}
        <3>1. \E i \in 1..n : i \notin P
            BY ZenonT(40), <1>2
        <3>2. 1..n \subseteq Nat
            BY SMT
        <3> QED
            BY <3>1, <3>2
    <2>2. PICK m \in T : \A y \in T : m <= y
        BY ZenonT(40), <2>1, LeastNat
    <2>3. ASSUME NEW i \in 1..m - 1 PROVE i \in P
        <3>1. i \in 1..n /\ ~ (m <= i)
            BY SMT, <2>2
        <3> QED
            BY <3>1, <2>2
    <2>4. ASSUME NEW i \in P PROVE i \in 1..m - 1
        <3>1. ~ (m \in 1..i)
            BY <2>2
        <3>2. i \in 1..n /\ m \in 1..n
            BY <2>2
        <3> QED
            BY SMT, <3>1, <3>2
    <2>5. P = 1..m - 1
        BY ZenonT(40), <2>3, <2>4
    <2>6. m \in Nat /\ 1 <= m
        BY SMT, <2>2
    <2>7. Cardinality(1..m - 1) = m - 1
        <3>1. Cardinality(1..m - 1) = IF 1 > m - 1 THEN 0 ELSE m - 1 - 1 + 1
            BY SMT, <2>6, FS_Interval
        <3> QED
            BY SMT, <3>1, <2>6
    <2> QED
        BY <2>5, <2>7
<1> QED
    BY <1>1, <1>2

\* list_insert_ordered keeps an ordered list ordered.
THEOREM InsertOrdered ==
    ASSUME NEW S, NEW l \in Seq(S), NEW e \in S, NEW key, \A x \in S : key[x] \in Int,
           Ordered(l, key)
    PROVE  Ordered(list_insert_ordered(l, e, key), key)
<1> DEFINE k == Cardinality(Passed(l, e, key))
           m == list_insert_ordered(l, e, key)
           n == Len(l)
<1>1. /\ k \in 0..n
      /\ Len(m) = n + 1
      /\ \A i \in 1..n + 1 :
            m[i] = IF i <= k THEN l[i] ELSE IF i = k + 1 THEN e ELSE l[i - 1]
    BY SMT, InsertShape
<1>2. n \in Nat /\ key[e] \in Int /\ \A i \in 1..n : key[l[i]] \in Int
    BY SMT
<1>3. \A i, j \in 1..n : i < j => key[l[i]] >= key[l[j]]
    BY DEF Ordered
<1>4. Passed(l, e, key) = 1..k
    <2>1. Passed(l, e, key) \subseteq 1..n
        BY DEF Passed
    <2>2. \A i \in Passed(l, e, key) : \A j \in 1..i : j \in Passed(l, e, key)
        BY SMT, <1>2 DEF Passed
    <2> QED
        BY <2>1, <2>2, <1>2, InitialSegment
<1> HIDE DEF k, m, n
<1>5. \A i \in 1..k : key[l[i]] >= key[e]
    <2> TAKE i \in 1..k
    <2>1. \A j \in 1..i : key[l[j]] >= key[e]
        BY <1>4 DEF Passed
    <2> QED
        BY SMT, <2>1, <1>1, <1>2
<1>6. ASSUME NEW i \in k + 1..n PROVE key[e] > key[l[i]]
    <2>1. k + 1 \in 1..n
        BY SMT, <1>1, <1>2
    <2>2. ~ (k + 1 \in Passed(l, e, key))
        BY SMT, <1>1, <1>2, <1>4
    <2>3. PICK j \in 1..k + 1 : ~ (key[l[j]] >= key[e])
        BY <2>1, <2>2 DEF Passed, n
    <2>4. j = k + 1
        BY SMT, <2>3, <1>1, <1>2, <1>5
    <2>5. key[e] > key[l[k + 1]]
        BY SMT, <2>1, <2>3, <2>4, <1>2
    <2>6. i = k + 1 \/ key[l[k + 1]] >= key[l[i]]
        BY SMT, <2>1, <1>1, <1>2, <1>3
    <2>7. i \in 1..n
        BY SMT, <1>1, <1>2
    <2> QED
        BY SMT, <2>1, <2>5, <2>6, <2>7, <1>2
<1>7. ASSUME NEW i \in 1..n + 1, NEW j \in 1..n + 1, i < j
      PROVE  key[m[i]] >= key[m[j]]
    <2>1. CASE j <= k
        <3>1. m[i] = l[i] /\ m[j] = l[j] /\ i \in 1..n /\ j \in 1..n
            BY SMT, <2>1, <1>1, <1>2, <1>7
        <3> QED
            BY <3>1, <1>3, <1>7
    <2>2. CASE i <= k /\ j = k + 1
        <3>1. m[i] = l[i] /\ m[j] = e /\ i \in 1..k
            BY SMT, <2>2, <1>1, <1>2
        <3> QED
            BY <3>1, <1>5
    <2>3. CASE i <= k /\ j > k + 1
        <3>1. m[i] = l[i] /\ m[j] = l[j - 1] /\ i \in 1..n /\ j - 1 \in 1..n /\ i < j - 1
            BY SMT, <2>3, <1>1, <1>2
        <3> QED
            BY <3>1, <1>3
    <2>4. CASE i = k + 1
        <3>1. m[i] = e /\ m[j] = l[j - 1] /\ j - 1 \in k + 1..n /\ j - 1 \in 1..n
            BY SMT, <2>4, <1>1, <1>2, <1>7
        <3>2. key[e] > key[l[j - 1]]
            BY <3>1, <1>6
        <3> QED
            BY SMT, <3>1, <3>2, <1>2
    <2>5. CASE i > k + 1
        <3>1. m[i] = l[i - 1] /\ m[j] = l[j - 1] /\ i - 1 \in 1..n /\ j - 1 \in 1..n /\ i - 1 < j - 1
            BY SMT, <2>5, <1>1, <1>2, <1>7
        <3> QED
            BY <3>1, <1>3
    <2>6. \/ j <= k
          \/ i <= k /\ j = k + 1
          \/ i <= k /\ j > k + 1
          \/ i = k + 1
          \/ i > k + 1
        BY SMT, <1>1, <1>2, <1>7
    <2> QED
        BY <2>1, <2>2, <2>3, <2>4, <2>5, <2>6
<1> QED
    BY <1>1, <1>7 DEF Ordered, m

-------------------------------------------------------------------------------
(***************************************************************************)
(* The scheduler.                                                          *)
(***************************************************************************)

\* The run queue rl, threads' states st and priorities pri an operation starts from.
Matches(rl, st, pri) ==
    /\ st \in [AllThread -> Status]
    /\ pri \in [AllThread -> Priority]
    /\ rl \in Seq(Thread)
    /\ Elements(rl) = {t \in Thread : st[t] = "READY"}
    /\ Distinct(rl)

\* What an operation that reschedules leaves behind.
Rescheduled(st, pri) ==
    /\ status' \in [AllThread -> Status]
    /\ ready_list' \in Seq(Thread)
    /\ current' \in AllThread
    /\ SchedulerOK'
    /\ \A t \in AllThread : t # current' => status'[t] = st[t]
    /\ current' # idle_thread => st[current'] = "READY"
    /\ Ordered(ready_list', pri)
    /\ \A t \in Elements(ready_list') : pri[t] <= pri[current']

\* Priorities are integers, so that the theorems on lists apply to them.
LEMMA PriorityIsInt == Priority \subseteq Int
BY SMT, PriorityAssumption DEF Priority

(***************************************************************************)
(* schedule () picks the thread to run from a queue no thread of which is  *)
(* RUNNING.                                                                *)
(***************************************************************************)
LEMMA ScheduleOK ==
    ASSUME NEW rl, NEW st, NEW pri, Matches(rl, st, pri),
           \A t \in AllThread : st[t] # "RUNNING",
           schedule(rl, st, pri)
    PROVE  Rescheduled(st, pri)
<1> DEFINE next == next_thread_to_run(rl, pri)
           sorted == list_sort(rl, pri)
<1>1. /\ st \in [AllThread -> Status] /\ pri \in [AllThread -> Priority]
      /\ rl \in Seq(Thread) /\ Distinct(rl)
      /\ Elements(rl) = {t \in Thread : st[t] = "READY"}
    BY DEF Matches
<1>2. \A x \in Thread : pri[x] \in Int
    BY ZenonT(40), <1>1, PriorityIsInt DEF AllThread
<1>3. CASE rl = <<>>
    <2>1. next = idle_thread /\ Elements(rl) = {}
        BY SMT, <1>3 DEF next_thread_to_run, Elements
    <2>2. /\ current' = idle_thread /\ ready_list' = <<>>
          /\ status' = [st EXCEPT ![idle_thread] = "RUNNING"]
        BY ZenonT(40), <1>3, <2>1 DEF schedule
    <2>3. Elements(<<>>) = {} /\ Distinct(<<>>) /\ Ordered(<<>>, pri)
        BY SMT DEF Elements, Distinct, Ordered
    <2>4. idle_thread \in AllThread /\ idle_thread \notin Thread /\ Thread \subseteq AllThread
        BY ThreadAssumption DEF AllThread
    <2>5. status' \in [AllThread -> Status]
        BY ZenonT(40), <1>1, <2>2 DEF Status
    <2>6. \A t \in AllThread : status'[t] = IF t = idle_thread THEN "RUNNING" ELSE st[t]
        BY <1>1, <2>2
    <2>7. {t \in Thread : status'[t] = "READY"} = {}
        BY <1>1, <2>1, <2>4, <2>6
    <2>8. SchedulerOK'
        BY <2>2, <2>3, <2>4, <2>6, <2>7 DEF SchedulerOK, OneRunning, QueueIsReady
    <2> QED
        BY SMT, <2>2, <2>3, <2>4, <2>5, <2>6, <2>8 DEF Rescheduled
<1>4. CASE rl # <<>>
    <2>1. /\ sorted \in Seq(Thread) /\ sorted # <<>> /\ Distinct(sorted)
          /\ Elements(sorted) = Elements(rl) /\ Ordered(sorted, pri)
        BY <1>1, <1>2, <1>4, SortElements, SortOrdered
    <2>2. /\ list_front(sorted) \in Thread
          /\ list_rest(sorted) \in Seq(Thread)
          /\ Elements(rl) = Elements(list_rest(sorted)) \cup {list_front(sorted)}
          /\ Distinct(list_rest(sorted))
          /\ list_front(sorted) \notin Elements(list_rest(sorted))
        BY <2>1, FrontRest
    <2>3. /\ Ordered(list_rest(sorted), pri)
          /\ \A x \in Elements(list_rest(sorted)) : pri[list_front(sorted)] >= pri[x]
        BY <2>1, FrontRestOrdered
    <2>4. /\ current' = list_front(sorted)
          /\ ready_list' = list_rest(sorted)
          /\ status' = [st EXCEPT ![list_front(sorted)] = "RUNNING"]
        BY <1>4 DEF schedule, next_thread_to_run
    <2> HIDE DEF sorted
    <2>5. current' \in AllThread /\ current' # idle_thread /\ Thread \subseteq AllThread
        BY <2>2, <2>4, ThreadAssumption DEF AllThread
    <2>6. status' \in [AllThread -> Status]
        BY ZenonT(40), <1>1, <2>4 DEF Status
    <2>7. \A t \in AllThread : status'[t] = IF t = current' THEN "RUNNING" ELSE st[t]
        BY <1>1, <2>4
    <2>8. st[current'] = "READY"
        BY <1>1, <2>2, <2>4
    <2>9. Elements(ready_list') = {t \in Thread : status'[t] = "READY"}
        <3>1. Elements(ready_list') = Elements(rl) \ {current'}
            BY <2>2, <2>4
        <3>2. {t \in Thread : status'[t] = "READY"} = {t \in Thread : st[t] = "READY"} \ {current'}
            BY <2>5, <2>7
        <3> QED
            BY <1>1, <3>1, <3>2
    <2>10. SchedulerOK'
        BY <2>2, <2>4, <2>5, <2>7, <2>9 DEF SchedulerOK, OneRunning, QueueIsReady
    <2>11. \A t \in Elements(ready_list') : pri[t] <= pri[current']
        <3> TAKE t \in Elements(ready_list')
        <3>1. t \in Thread /\ current' \in Thread /\ pri[current'] >= pri[t]
            BY <2>2, <2>3, <2>4, <2>9
        <3> QED
            BY <3>1, <1>2
    <2> QED
        BY <2>2, <2>3, <2>4, <2>5, <2>6, <2>7, <2>8, <2>10, <2>11 DEF Rescheduled
<1> QED
    BY <1>3, <1>4

\* Rescheduling blocks and unblocks nobody.
LEMMA RescheduledBlocked ==
    ASSUME NEW st, NEW pri, Rescheduled(st, pri)
    PROVE  \A u \in Thread : status'[u] = "BLOCKED" <=> st[u] = "BLOCKED"
<1>1. Thread \subseteq AllThread /\ idle_thread \notin Thread
    BY ThreadAssumption DEF AllThread
<1>2. \A u \in Thread : u # current' => status'[u] = st[u]
    BY <1>1 DEF Rescheduled
<1>3. current' \in Thread => st[current'] = "READY" /\ status'[current'] = "RUNNING"
    BY <1>1 DEF Rescheduled, SchedulerOK, OneRunning
<1> QED
    BY <1>2, <1>3

(***************************************************************************)
(* thread_unblock (t) keeps the run queue in step with the states.         *)
(***************************************************************************)
LEMMA UnblockOK ==
    ASSUME NEW rl, NEW st, NEW pri, Matches(rl, st, pri),
           NEW t \in Thread, st[t] # "READY"
    PROVE  Matches(UnblockedList(rl, t, pri), UnblockedStatus(st, t), pri)
<1>1. /\ st \in [AllThread -> Status] /\ pri \in [AllThread -> Priority]
      /\ rl \in Seq(Thread) /\ Distinct(rl)
      /\ Elements(rl) = {u \in Thread : st[u] = "READY"}
    BY DEF Matches
<1>2. t \notin Elements(rl) /\ t \in AllThread /\ Thread \subseteq AllThread
    BY <1>1 DEF AllThread
<1>3. /\ UnblockedList(rl, t, pri) \in Seq(Thread)
      /\ Elements(UnblockedList(rl, t, pri)) = Elements(rl) \cup {t}
      /\ Distinct(UnblockedList(rl, t, pri))
    BY SMT, <1>1, <1>2, InsertElements DEF UnblockedList
<1>4. /\ UnblockedStatus(st, t) \in [AllThread -> Status]
      /\ \A u \in AllThread : UnblockedStatus(st, t)[u] = IF u = t THEN "READY" ELSE st[u]
    BY <1>1, <1>2 DEF UnblockedStatus, Status
<1>5. {u \in Thread : UnblockedStatus(st, t)[u] = "READY"} =
          {u \in Thread : st[u] = "READY"} \cup {t}
    BY <1>2, <1>4
<1> QED
    BY <1>1, <1>3, <1>4, <1>5 DEF Matches

(***************************************************************************)
(* thread_block () and thread_yield () of the running thread.              *)
(***************************************************************************)
LEMMA BlockOK ==
    ASSUME NEW rl, NEW st, NEW pri, Matches(rl, st, pri),
           current \in AllThread, \A t \in AllThread : st[t] = "RUNNING" <=> t = current,
           thread_block(rl, st, pri)
    PROVE  Rescheduled([st EXCEPT ![current] = "BLOCKED"], pri)
<1> DEFINE s == [st EXCEPT ![current] = "BLOCKED"]
<1>1. st \in [AllThread -> Status]
    BY DEF Matches
<1>2. /\ s \in [AllThread -> Status]
      /\ \A t \in AllThread : s[t] = IF t = current THEN "BLOCKED" ELSE st[t]
    BY <1>1 DEF Status
<1> HIDE DEF s
<1>3. {t \in Thread : s[t] = "READY"} = {t \in Thread : st[t] = "READY"}
    BY <1>2 DEF AllThread
<1>4. Matches(rl, s, pri)
    BY <1>2, <1>3 DEF Matches
<1>5. \A t \in AllThread : s[t] # "RUNNING"
    BY <1>2
<1>6. schedule(rl, s, pri)
    BY DEF thread_block, s
<1>7. Rescheduled(s, pri)
    BY <1>4, <1>5, <1>6, ScheduleOK
<1> QED
    BY <1>7 DEF s

\* thread_yield: the thread that yields is queued, unless it is the idle thread,
\* and schedule () runs.
LEMMA YieldOK ==
    ASSUME NEW rl, NEW st, NEW pri, Matches(rl, st, pri),
           current \in AllThread, \A t \in AllThread : st[t] = "RUNNING" <=> t = current,
           thread_yield(rl, st, pri)
    PROVE  Rescheduled([st EXCEPT ![current] = "READY"], pri)
<1> DEFINE s == [st EXCEPT ![current] = "READY"]
           q == IF current = idle_thread THEN rl ELSE list_insert_ordered(rl, current, pri)
<1>1. /\ st \in [AllThread -> Status] /\ pri \in [AllThread -> Priority]
      /\ rl \in Seq(Thread) /\ Distinct(rl)
      /\ Elements(rl) = {t \in Thread : st[t] = "READY"}
    BY DEF Matches
<1>2. /\ s \in [AllThread -> Status]
      /\ \A t \in AllThread : s[t] = IF t = current THEN "READY" ELSE st[t]
    BY <1>1 DEF Status
<1>3. schedule(q, s, pri)
    BY DEF thread_yield
<1> HIDE DEF s
<1>4. /\ q \in Seq(Thread) /\ Distinct(q)
      /\ Elements(q) = {t \in Thread : s[t] = "READY"}
    <2>1. CASE current = idle_thread
        <3>1. {t \in Thread : s[t] = "READY"} = {t \in Thread : st[t] = "READY"}
            BY <1>2, <2>1, ThreadAssumption DEF AllThread
        <3> QED
            BY <1>1, <2>1, <3>1
    <2>2. CASE current # idle_thread
        <3>1. current \in Thread
            BY <2>2 DEF AllThread
        <3>2. current \notin Elements(rl)
            BY <1>1
        <3>3. /\ q \in Seq(Thread) /\ Distinct(q)
              /\ Elements(q) = Elements(rl) \cup {current}
            BY SMT, <1>1, <2>2, <3>1, <3>2, InsertElements
        <3>4. {t \in Thread : s[t] = "READY"} = {t \in Thread : st[t] = "READY"} \cup {current}
            BY <1>2, <3>1 DEF AllThread
        <3> QED
            BY <1>1, <3>3, <3>4
    <2> QED
        BY <2>1, <2>2
<1> HIDE DEF q
<1>5. Matches(q, s, pri)
    BY <1>1, <1>2, <1>4 DEF Matches
<1>6. \A t \in AllThread : s[t] # "RUNNING"
    BY <1>2
<1>7. Rescheduled(s, pri)
    BY <1>3, <1>5, <1>6, ScheduleOK
<1> QED
    BY <1>7 DEF s

(***************************************************************************)
(* thread_set_priority (new) of the running thread.  That it compares with *)
(* the front of the run queue only is enough because the queue is ordered. *)
(***************************************************************************)
SchedulerInv ==
    /\ ThreadTypeOK
    /\ SchedulerOK
    /\ Ordered(ready_list, priority)
    /\ HighestRuns

\* The invariant gives what schedule () needs of its arguments.
LEMMA SchedulerMatches ==
    ASSUME ThreadTypeOK, SchedulerOK
    PROVE  /\ Matches(ready_list, status, priority)
           /\ current \in AllThread
           /\ \A t \in AllThread : status[t] = "RUNNING" <=> t = current
BY DEF ThreadTypeOK, SchedulerOK, OneRunning, QueueIsReady, Matches

\* thread_set_priority keeps the scheduler consistent and blocks or wakes nobody.
LEMMA SetPriorityOK ==
    ASSUME SchedulerInv, NEW t \in Thread, current = t, NEW new \in Priority,
           thread_set_priority(t, new)
    PROVE  /\ SchedulerInv'
           /\ \A u \in Thread : status'[u] = "BLOCKED" <=> status[u] = "BLOCKED"
<1> DEFINE p == PriorityAfterSet(t, new)
           pri == [priority EXCEPT ![t] = p]
<1>1. /\ priority \in [AllThread -> Priority] /\ status \in [AllThread -> Status]
      /\ base_priority \in [AllThread -> Priority]
      /\ donated_priority \in [AllThread -> Priority]
      /\ ready_list \in Seq(Thread) /\ current \in AllThread
      /\ Thread \subseteq AllThread
    BY DEF SchedulerInv, ThreadTypeOK, AllThread
<1>2. p \in Priority
    BY <1>1 DEF PriorityAfterSet, Larger
<1>3. /\ priority' = pri
      /\ base_priority' = [base_priority EXCEPT ![t] = new]
      /\ donated_priority' = donated_priority
    BY DEF thread_set_priority
<1> HIDE DEF p
<1>4. /\ pri \in [AllThread -> Priority]
      /\ \A u \in AllThread : pri[u] = IF u = t THEN p ELSE priority[u]
    BY <1>1, <1>2
<1>5. /\ priority' \in [AllThread -> Priority]
      /\ base_priority' \in [AllThread -> Priority]
      /\ donated_priority' \in [AllThread -> Priority]
    BY <1>1, <1>3, <1>4
<1> HIDE DEF pri
<1>6. CASE YieldsAfterSet(t, new)
    <2>1. thread_yield(ready_list, status, pri)
        BY <1>6 DEF thread_set_priority, pri, p
    <2>2. Matches(ready_list, status, pri)
        BY <1>4, SchedulerMatches DEF Matches, SchedulerInv
    <2>3. \A u \in AllThread : status[u] = "RUNNING" <=> u = current
        BY SchedulerMatches DEF SchedulerInv
    <2>4. Rescheduled([status EXCEPT ![current] = "READY"], pri)
        BY ZenonT(40), <1>1, <2>1, <2>2, <2>3, YieldOK
    <2>5. SchedulerInv'
        BY <1>3, <1>5, <2>4 DEF Rescheduled, SchedulerInv, ThreadTypeOK, HighestRuns
    <2>6. \A u \in Thread : status'[u] = "BLOCKED" <=>
                             [status EXCEPT ![current] = "READY"][u] = "BLOCKED"
        BY ZenonT(40), <2>4, RescheduledBlocked
    <2>7. status[t] # "BLOCKED" /\ status \in [AllThread -> Status]
        BY <1>1, <2>3
    <2> QED
        BY <2>5, <2>6, <2>7, <1>1
<1>7. CASE ~YieldsAfterSet(t, new)
    <2>1. status' = status /\ ready_list' = ready_list /\ current' = current
        BY <1>7 DEF thread_set_priority
    <2>2. SchedulerOK'
        BY <2>1 DEF SchedulerInv, SchedulerOK, OneRunning, QueueIsReady
    <2>3. t \notin Elements(ready_list) /\ Elements(ready_list) \subseteq Thread
        BY DEF SchedulerInv, SchedulerOK, OneRunning, QueueIsReady, AllThread
    <2>4. \A u \in Elements(ready_list) : pri[u] = priority[u]
        BY <1>1, <1>4, <2>3
    <2>5. Ordered(ready_list, pri)
        BY <2>4 DEF SchedulerInv, Ordered, Elements
    <2>6. ASSUME NEW u \in Elements(ready_list) PROVE pri[u] <= pri[t]
        <3>1. pri[u] = priority[u] /\ pri[t] = p /\ u \in Thread
            BY <1>1, <1>4, <2>3, <2>4
        <3>2. p \in Int /\ priority[t] \in Int /\ priority[u] \in Int
            BY ZenonT(40), <1>1, <1>2, <3>1, PriorityIsInt
        <3>3. priority[u] <= priority[t]
            BY DEF SchedulerInv, HighestRuns
        <3>4. CASE p >= priority[t]
            BY SMT, <3>1, <3>2, <3>3, <3>4
        <3>5. CASE p < priority[t]
            <4>1. ready_list # <<>>
                BY SMT, <2>6 DEF Elements
            <4>2. ~ (priority[list_front(ready_list)] > p)
                BY <1>7, <3>5, <4>1 DEF YieldsAfterSet, p
            <4>3. /\ Elements(ready_list) = Elements(list_rest(ready_list)) \cup {list_front(ready_list)}
                  /\ list_front(ready_list) \in Thread
                BY <1>1, <4>1, FrontRest
            <4>4. \A x \in Elements(list_rest(ready_list)) : priority[list_front(ready_list)] >= priority[x]
                BY <1>1, <4>1, FrontRestOrdered DEF SchedulerInv
            <4>5. priority[list_front(ready_list)] \in Int
                BY ZenonT(40), <1>1, <4>3, PriorityIsInt
            <4>6. priority[u] <= priority[list_front(ready_list)]
                BY SMT, <3>2, <4>3, <4>4, <4>5
            <4> QED
                BY SMT, <3>1, <3>2, <4>2, <4>5, <4>6
        <3> QED
            BY SMT, <3>2, <3>4, <3>5
    <2> QED
        BY <1>1, <1>3, <1>5, <2>1, <2>2, <2>5, <2>6 DEF SchedulerInv, ThreadTypeOK, HighestRuns
<1> QED
    BY <1>6, <1>7
===============================================================================
