--------------------------- MODULE FileSysTheorems ---------------------------
(***************************************************************************)
(* No sector belongs to two files, a file that has a name survives a stop  *)
(* of the machine at any moment, and sectors get lost only when the        *)
(* machine stops, a directory entry cannot be written or one in use is     *)
(* written over, for a device of any size and any number of processes,     *)
(* names and descriptors, whether or not directory searches lack memory.   *)
(***************************************************************************)
EXTENDS FileSys, FiniteSetTheorems, TLAPS

\* Zenon proves the leaves that name no prover.
USE Zenon

Files == Named \cup OpenIn

\* The sectors of a file's data, by the copy of its inode the kernel goes by.
Data(s) ==
  IF s \in OpenIn
  THEN Run(open_inodes[s].start, bytes_to_sectors(open_inodes[s].length))
  ELSE Run(disk[s].start, bytes_to_sectors(disk[s].length))

(***************************************************************************)
(* The shape of the state.                                                 *)
(***************************************************************************)
\* A function on the sectors.
OnSectors(d) == d = [s \in Sector |-> d[s]]

Typed ==
  /\ OnSectors(disk)
  /\ dir \in [Slot -> Entry \cup {NULL}]
  /\ free_map \in SUBSET Sector /\ free_map_file \in SUBSET Sector
  /\ open_inodes \in [Sector -> Inode \cup {NULL}]
  /\ fd_table \in [Process -> [Fd -> {f \in File : f.deny_write = FALSE} \cup {NULL}]]
  /\ executable \in [Process -> {f \in File : f.deny_write = TRUE} \cup {NULL}]
  /\ op \in Call \cup {NULL}
  /\ releasing \in Seq(Nat \X Nat)

(***************************************************************************)
(* An inode is open once for each descriptor and each running program, and *)
(* denied writes once for each running program.                            *)
(***************************************************************************)
CountedAt(s) ==
  IF open_inodes[s] = NULL THEN RefsTo(s) = {} /\ Runners(s) = {}
  ELSE /\ open_inodes[s].open_cnt = Cardinality(RefsTo(s)) + Cardinality(Runners(s))
       /\ open_inodes[s].deny_write_cnt = Cardinality(Runners(s))

Counted == \A s \in Sector : CountedAt(s)

(***************************************************************************)
(* What the directory, the disk and the open inodes say of a file agrees.  *)
(***************************************************************************)
Extents == [start : Nat, length : Nat]

Agree ==
  /\ \A s \in Named : disk[s] \in Extents
  /\ \A s \in Named \cap OpenIn :
       open_inodes[s].start = disk[s].start /\ open_inodes[s].length = disk[s].length
  /\ \A i, j \in Used : dir[i].inode_sector = dir[j].inode_sector => i = j
  /\ \A s \in OpenIn : open_inodes[s].removed => s \notin Named

(***************************************************************************)
(* The call under way: a file that is being made has its inode on disk     *)
(* before its name, what is still to be released does not overlap, and a   *)
(* write goes to a file that its descriptor has open and nobody runs.      *)
(***************************************************************************)
RunAt(i) == Run(releasing[i][1], releasing[i][2])

IsLoop(w) ==
  /\ w = [ofs |-> w.ofs, left |-> w.left, buf |-> w.buf, bounce |-> w.bounce, data |-> w.data]
  /\ w.ofs \in Nat /\ w.left \in Int

IsWrite(w) ==
  /\ w = [p |-> w.p, fd |-> w.fd, inode |-> w.inode, loop |-> w.loop]
  /\ w.p \in Process /\ w.fd \in Fd /\ IsLoop(w.loop)

UnderWay ==
  /\ op # NULL => releasing = <<>>
  /\ op # NULL /\ op.step \in {"inode", "zero", "add"} =>
       op.sector \notin Run(op.start, bytes_to_sectors(op.size))
  /\ op # NULL /\ op.step \in {"zero", "add"} =>
       disk[op.sector] = [start |-> op.start, length |-> op.size]
  /\ op # NULL /\ op.step \in {"data", "inode"} => op.done = 0
  /\ op # NULL /\ op.step = "zero" => op.done < bytes_to_sectors(op.size)
  /\ \A i, j \in 1 .. Len(releasing) : i # j => RunAt(i) \cap RunAt(j) = {}
  /\ writing # NULL =>
       /\ op = NULL /\ releasing = <<>> /\ IsWrite(writing)
       /\ fd_table[writing.p][writing.fd] # NULL
       /\ fd_table[writing.p][writing.fd].inode = writing.inode
       /\ open_inodes[writing.inode].deny_write_cnt = 0

(***************************************************************************)
(* Who has a sector: F are the files, file s has s and D[s], C is being    *)
(* made, K is being released, and M is marked used.                        *)
(***************************************************************************)
Owned(F, D, C, K, M) ==
  /\ \A s \in F : s \in M /\ s \notin C /\ s \notin K /\ s \notin System
  /\ \A s \in F : D[s] \subseteq M /\ s \notin D[s]
  /\ \A s \in F : D[s] \cap C = {} /\ D[s] \cap K = {} /\ D[s] \cap System = {}
  /\ \A s, t \in F : s # t => t \notin D[s] /\ D[s] \cap D[t] = {}
  /\ C \subseteq M /\ K \subseteq M /\ System \subseteq M
  /\ C \cap System = {} /\ K \cap System = {}

DataOf == [s \in Sector |-> Data(s)]

Owns == Owned(Files, DataOf, Creating, Closing, free_map)

\* A stop of the machine keeps the system's sectors, the named files and the
\* file that is being made.
OnDisk ==
  /\ System \subseteq free_map_file
  /\ \A s \in Named : s \in free_map_file /\ Data(s) \subseteq free_map_file
  /\ Creating \subseteq free_map_file

IInv == Typed /\ Counted /\ Agree /\ UnderWay /\ Owns /\ OnDisk

-------------------------------------------------------------------------------
(***************************************************************************)
(* Numbers.                                                                *)
(***************************************************************************)
\* Every non-empty set of natural numbers has a lowest element.
LEMMA LowestIn ==
  ASSUME NEW T, T \subseteq Nat, T # {}
  PROVE  Lowest(T) \in T
<1> DEFINE R == {ss \in Nat \X Nat : ss[1] < ss[2]}
<1>1. IsWellFoundedOn(R, Nat)
  BY NatLessThanWellFounded DEF OpToRel
<1>2. PICK x \in T : \A y \in T : ~ (<<y, x>> \in R)
  BY ZenonT(40), <1>1, WFMin
<1>3. \A y \in T : ~ (y < x)
  BY ZenonT(40), <1>2
<1>4. \A y \in T : x <= y
  BY SMT, <1>3
<1> QED
  BY <1>4 DEF Lowest

\* The sectors of a file of so many bytes.
LEMMA SectorsOf ==
  ASSUME NEW size \in Nat
  PROVE  bytes_to_sectors(size) \in Nat
<1>1. BLOCK_SECTOR_SIZE \in Nat \ {0}
  BY DeviceAssumption
<1> QED
  BY SMT, <1>1 DEF bytes_to_sectors

\* A byte of a file lies in one of its sectors.
LEMMA ByteIn ==
  ASSUME NEW start \in Nat, NEW length \in Nat, NEW q \in Nat, q < length
  PROVE  start + q \div BLOCK_SECTOR_SIZE \in Run(start, bytes_to_sectors(length))
<1> DEFINE B == BLOCK_SECTOR_SIZE
           k == q \div BLOCK_SECTOR_SIZE
           y == length + BLOCK_SECTOR_SIZE - 1
           n == y \div BLOCK_SECTOR_SIZE
<1>1. B \in Nat \ {0} /\ y \in Nat /\ q + B <= y
  BY SMT, DeviceAssumption
<1>2. k \in Nat /\ B * k <= q
  BY SMT, <1>1
<1>3. n \in Nat /\ y < B * n + B
  <2> HIDE DEF y
  <2> QED
    BY SMT, <1>1
<1>4. n = bytes_to_sectors(length)
  BY DEF bytes_to_sectors
<1> HIDE DEF B, k, y, n
<1>5. B * k \in Nat /\ B * n \in Nat /\ B * (k + 1) = B * k + B
  BY SMT, <1>1, <1>2, <1>3
<1>6. B * k < B * n
  BY SMT, <1>1, <1>2, <1>3, <1>5
<1>7. k < n
  <2>1. SUFFICES ASSUME n <= k PROVE FALSE
    BY SMT, <1>2, <1>3
  <2>2. k - n \in Nat /\ B * (k - n) = B * k - B * n /\ B * (k - n) >= 0
    BY SMT, <2>1, <1>1, <1>2, <1>3, <1>5
  <2> QED
    BY SMT, <2>2, <1>5, <1>6
<1>8. start + k \in start .. start + n - 1
  BY SMT, <1>2, <1>3, <1>7
<1> QED
  BY <1>4, <1>8 DEF Run, k

\* The sets the constants give.
LEMMA Ranges ==
  /\ Sector \subseteq Nat /\ Slot \subseteq Nat /\ Fd \subseteq Nat /\ 0 \notin Fd
  /\ System \subseteq Sector /\ 0 \in Sector
  /\ IsFiniteSet(Sector) /\ IsFiniteSet(Fd) /\ IsFiniteSet(Process)
<1>1. Sectors - 1 \in Int /\ MAX_FD_COUNT - 1 \in Int /\ IsFiniteSet(Process)
  BY SMT, DeviceAssumption
<1>2. IsFiniteSet(Sector) /\ IsFiniteSet(Fd)
  <2>1. 0 \in Int /\ 2 \in Int
    BY SMT
  <2> QED
    BY <1>1, <2>1, FS_Interval DEF Sector, Fd
<1>3. /\ Sector \subseteq Nat /\ Slot \subseteq Nat /\ Fd \subseteq Nat /\ 0 \notin Fd
      /\ System \subseteq Sector /\ 0 \in Sector
  BY SMT, DeviceAssumption DEF Sector, Slot, Fd, System
<1> QED
  BY <1>1, <1>2, <1>3

\* An order of a finite set has all its elements.
LEMMA OrdersAre ==
  ASSUME NEW S, IsFiniteSet(S), NEW f \in Orders(S)
  PROVE  /\ Cardinality(S) \in Nat /\ f \in [1 .. Cardinality(S) -> S]
         /\ \A i, j \in 1 .. Cardinality(S) : i # j => f[i] # f[j]
         /\ \A s \in S : \E i \in 1 .. Cardinality(S) : f[i] = s
<1> DEFINE n == Cardinality(S)
<1>1. n \in Nat
  BY FS_CardinalityType
<1>2. f \in [1 .. n -> S] /\ \A i, j \in 1 .. n : i # j => f[i] # f[j]
  BY DEF Orders
<1>3. f \in Injection(1 .. n, S)
  BY <1>2 DEF Injection, IsInjective
<1>4. IsFiniteSet(1 .. n) /\ Cardinality(1 .. n) = n
  BY <1>1, FS_Interval, SMT
<1>5. f \in Surjection(1 .. n, S)
  BY <1>3, <1>4, FS_Injection
<1>6. \A s \in S : \E i \in 1 .. n : f[i] = s
  BY <1>5 DEF Surjection
<1> QED
  BY <1>1, <1>2, <1>6

\* A function on 1 .. m is a sequence.
LEMMA SequenceIs ==
  ASSUME NEW S, NEW m \in Nat, NEW R \in [1 .. m -> S]
  PROVE  R \in Seq(S) /\ Len(R) = m
BY SMT

\* A run of one sector.
LEMMA RunOne ==
  ASSUME NEW s \in Nat
  PROVE  Run(s, 1) = {s}
BY SMT DEF Run

(***************************************************************************)
(* What closing has to release: the sectors of the removed files that it   *)
(* frees, and nothing twice.                                               *)
(***************************************************************************)
LEMMA ReleasedIs ==
  ASSUME NEW old, NEW new, NEW R \in ReleasedBy(old, new),
         \A s \in Freed(old, new) : old[s].start \in Nat /\ old[s].length \in Nat
  PROVE  LET F    == Freed(old, new)
             D(s) == Run(old[s].start, bytes_to_sectors(old[s].length))
         IN /\ R \in Seq(Nat \X Nat)
            /\ \A i \in 1 .. Len(R) : \E s \in F : Run(R[i][1], R[i][2]) \in {{s}, D(s)}
            /\ \A s \in F : \E i \in 1 .. Len(R) : Run(R[i][1], R[i][2]) = {s}
            /\ \A s \in F : \E i \in 1 .. Len(R) : Run(R[i][1], R[i][2]) = D(s)
            /\ (\A s \in F : s \notin D(s))
                 /\ (\A s, t \in F : s # t => t \notin D(s) /\ D(s) \cap D(t) = {})
               => \A i, j \in 1 .. Len(R) : i # j =>
                    Run(R[i][1], R[i][2]) \cap Run(R[j][1], R[j][2]) = {}
<1>0. PICK g \in Orders(Freed(old, new)) :
        R = [k \in 1 .. 2 * Cardinality(Freed(old, new)) |->
               LET s == g[(k + 1) \div 2]
               IN  IF k % 2 = 1 THEN <<s, 1>>
                   ELSE <<old[s].start, bytes_to_sectors(old[s].length)>>]
  BY DEF ReleasedBy
<1> DEFINE F    == Freed(old, new)
           D(s) == Run(old[s].start, bytes_to_sectors(old[s].length))
           n    == Cardinality(F)
           h(i) == (i + 1) \div 2
           X(i) == Run(R[i][1], R[i][2])
<1>1. F \subseteq Sector /\ IsFiniteSet(F) /\ F \subseteq Nat
  <2>1. F \subseteq Sector /\ F \in SUBSET Sector
    BY DEF Freed
  <2> QED
    BY <2>1, Ranges, FS_Subset
<1>2. /\ n \in Nat /\ g \in [1 .. n -> F]
      /\ \A i, j \in 1 .. n : i # j => g[i] # g[j]
      /\ \A s \in F : \E i \in 1 .. n : g[i] = s
  BY <1>1, OrdersAre
<1>3. R = [k \in 1 .. 2 * n |->
             IF k % 2 = 1 THEN <<g[h(k)], 1>>
             ELSE <<old[g[h(k)]].start, bytes_to_sectors(old[g[h(k)]].length)>>]
  BY <1>0
<1>4. \A k \in 1 .. 2 * n : h(k) \in 1 .. n
  BY SMT, <1>2
<1>5. \A s \in F : s \in Nat /\ old[s].start \in Nat /\ bytes_to_sectors(old[s].length) \in Nat
  BY <1>1, SectorsOf
<1> HIDE DEF F, n, D
<1>6. \A k \in 1 .. 2 * n : g[h(k)] \in F
  BY <1>2, <1>4
<1>7. \A k \in 1 .. 2 * n : R[k] \in Nat \X Nat
  <2> TAKE k \in 1 .. 2 * n
  <2>1. g[h(k)] \in F
    BY <1>6
  <2>2. R[k] = IF k % 2 = 1 THEN <<g[h(k)], 1>>
               ELSE <<old[g[h(k)]].start, bytes_to_sectors(old[g[h(k)]].length)>>
    BY <1>3
  <2> HIDE DEF h
  <2> QED
    BY SMT, <2>1, <2>2, <1>5
<1>8. R \in Seq(Nat \X Nat) /\ Len(R) = 2 * n
  <2>1. DOMAIN R = 1 .. 2 * n /\ 2 * n \in Nat
    BY SMT, <1>2, <1>3
  <2>2. R \in [1 .. 2 * n -> Nat \X Nat]
    BY <1>3, <1>7
  <2> QED
    BY <2>1, <2>2, SequenceIs
<1>9. \A k \in 1 .. 2 * n : X(k) = IF k % 2 = 1 THEN {g[h(k)]} ELSE D(g[h(k)])
  <2> TAKE k \in 1 .. 2 * n
  <2>1. g[h(k)] \in F /\ g[h(k)] \in Nat
    BY <1>5, <1>6
  <2>2. CASE k % 2 = 1
    <3>1. R[k] = <<g[h(k)], 1>>
      BY <1>3, <2>2
    <3>2. X(k) = Run(g[h(k)], 1)
      <4> HIDE DEF h
      <4> QED
        BY SMT, <3>1
    <3> QED
      BY <2>1, <2>2, <3>2, RunOne
  <2>3. CASE k % 2 # 1
    <3>1. R[k] = <<old[g[h(k)]].start, bytes_to_sectors(old[g[h(k)]].length)>>
      BY <1>3, <2>3
    <3>2. /\ R[k][1] = old[g[h(k)]].start
          /\ R[k][2] = bytes_to_sectors(old[g[h(k)]].length)
      <4> HIDE DEF h
      <4> QED
        BY SMT, <3>1
    <3> QED
      BY <2>3, <3>2 DEF D
  <2> QED
    BY <2>2, <2>3
<1> HIDE DEF X
<1>10. \A i \in 1 .. Len(R) : \E s \in F : X(i) \in {{s}, D(s)}
  BY <1>6, <1>8, <1>9
<1>11. \A s \in F : \E i, j \in 1 .. Len(R) : X(i) = {s} /\ X(j) = D(s)
  <2> TAKE s \in F
  <2>1. PICK m \in 1 .. n : g[m] = s
    BY <1>2
  <2>2. /\ 2 * m - 1 \in 1 .. 2 * n /\ (2 * m - 1) % 2 = 1 /\ h(2 * m - 1) = m
        /\ 2 * m \in 1 .. 2 * n /\ (2 * m) % 2 # 1 /\ h(2 * m) = m
    BY SMT, <1>2
  <2>3. X(2 * m - 1) = {s} /\ X(2 * m) = D(s)
    <3> HIDE DEF h
    <3> QED
      BY <1>9, <2>1, <2>2
  <2> QED
    BY <1>8, <2>2, <2>3
<1>12. ASSUME \A s \in F : s \notin D(s),
              \A s, t \in F : s # t => t \notin D(s) /\ D(s) \cap D(t) = {},
              NEW i \in 1 .. Len(R), NEW j \in 1 .. Len(R), i # j
       PROVE  X(i) \cap X(j) = {}
  <2>1. i \in 1 .. 2 * n /\ j \in 1 .. 2 * n
    BY <1>8, <1>12
  <2>2. h(i) \in 1 .. n /\ h(j) \in 1 .. n
    BY <1>4, <2>1
  <2>3. h(i) = h(j) => ((i % 2 = 1) /\ ~(j % 2 = 1)) \/ (~(i % 2 = 1) /\ (j % 2 = 1))
    BY SMT, <1>2, <2>1, <1>12
  <2> DEFINE s == g[h(i)]
             t == g[h(j)]
  <2>4. s \in F /\ t \in F /\ (h(i) # h(j) => s # t)
    BY <1>2, <2>2
  <2>5. /\ X(i) = IF i % 2 = 1 THEN {s} ELSE D(s)
        /\ X(j) = IF j % 2 = 1 THEN {t} ELSE D(t)
    BY <1>9, <2>1
  <2>6. CASE h(i) = h(j)
    <3>1. s = t
      BY <2>6
    <3>2. s \notin D(s)
      BY <2>4, <1>12
    <3> HIDE DEF s, t, h
    <3>3. {s} \cap D(s) = {} /\ D(s) \cap {s} = {}
      BY <3>2
    <3>4. CASE (i % 2 = 1) /\ ~(j % 2 = 1)
      BY <2>5, <3>1, <3>3, <3>4
    <3>5. CASE ~(i % 2 = 1) /\ (j % 2 = 1)
      BY <2>5, <3>1, <3>3, <3>5
    <3> QED
      BY <2>3, <2>6, <3>4, <3>5
  <2>7. CASE h(i) # h(j)
    <3>1. s # t
      BY <2>4, <2>7
    <3>2. t \notin D(s) /\ s \notin D(t) /\ D(s) \cap D(t) = {}
      BY <2>4, <3>1, <1>12
    <3> HIDE DEF s, t, h
    <3> QED
      BY SMT, <2>5, <3>1, <3>2
  <2> QED
    BY <2>6, <2>7
<1> QED
  BY <1>8, <1>10, <1>11, <1>12 DEF F, D, X

-------------------------------------------------------------------------------
(***************************************************************************)
(* The layout: what the steps of the file system do to it.                 *)
(***************************************************************************)
\* Sectors marked used that nobody has.
LostOf(F, D, C, K, M) ==
  {x \in M : /\ x \notin System /\ x \notin C /\ x \notin K /\ x \notin F
             /\ \A s \in F : x \notin D[s]}

\* Opening, closing and removing: what is about to be released was a file, and
\* nothing is lost when all that goes is released.
LEMMA LayoutClose ==
  ASSUME NEW F, NEW D, NEW M, NEW G, NEW E, NEW K, Owned(F, D, {}, {}, M),
         G \subseteq F, \A s \in G : E[s] = D[s],
         \A x \in K : \E s \in F \ G : x = s \/ x \in D[s]
  PROVE  /\ Owned(G, E, {}, K, M)
         /\ (\A s \in F \ G : s \in K /\ D[s] \subseteq K) =>
              LostOf(G, E, {}, K, M) \subseteq LostOf(F, D, {}, {}, M)
<1>1. \A s \in G : s \in F /\ E[s] = D[s]
  OBVIOUS
<1>2. \A x \in K : x \in M /\ x \notin System /\ x \notin G /\ \A t \in G : x \notin E[t]
  <2> TAKE x \in K
  <2>1. PICK s \in F : s \notin G /\ (x = s \/ x \in D[s])
    OBVIOUS
  <2>2. \A t \in G : t \in F /\ t # s
    BY <2>1
  <2>3. /\ s \in M /\ s \notin System /\ D[s] \subseteq M /\ D[s] \cap System = {}
        /\ \A t \in F : t # s => s \notin D[t] /\ t \notin D[s] /\ D[s] \cap D[t] = {}
    BY <2>1 DEF Owned
  <2>4. x \in M /\ x \notin System
    BY <2>1, <2>3
  <2>5. x \notin G
    BY <2>1, <2>2, <2>3
  <2>6. \A t \in G : x \notin D[t]
    BY <2>1, <2>2, <2>3
  <2> QED
    BY <1>1, <2>4, <2>5, <2>6
<1>3. Owned(G, E, {}, K, M)
  BY <1>1, <1>2 DEF Owned
<1> QED
  BY <1>1, <1>3 DEF LostOf

\* Allocating: free sectors become part of the file that is being made.
LEMMA LayoutAllocate ==
  ASSUME NEW F, NEW D, NEW M, NEW E, NEW K, NEW C, NEW N, Owned(F, D, C, K, M),
         \A s \in F : E[s] = D[s], N \cap M = {}
  PROVE  /\ Owned(F, E, C \cup N, K, M \cup N)
         /\ LostOf(F, E, C \cup N, K, M \cup N) \subseteq LostOf(F, D, C, K, M)
<1>1. \A x \in N : x \notin M
  OBVIOUS
<1>2. Owned(F, E, C \cup N, K, M \cup N)
  BY <1>1 DEF Owned
<1> QED
  BY <1>2 DEF LostOf

\* Naming: the file that was being made is there.
LEMMA LayoutName ==
  ASSUME NEW F, NEW D, NEW M, NEW E, NEW K, NEW C, NEW c, Owned(F, D, C, K, M),
         \A s \in F : E[s] = D[s], C = {c} \cup E[c], c \notin E[c], C \cap K = {}
  PROVE  /\ Owned(F \cup {c}, E, {}, K, M)
         /\ LostOf(F \cup {c}, E, {}, K, M) \subseteq LostOf(F, D, C, K, M)
<1>1. c \in C /\ E[c] \subseteq C
  OBVIOUS
<1>2. \A x \in C : x \in M /\ x \notin System /\ x \notin K /\ x \notin F /\ \A t \in F : x \notin D[t]
  BY DEF Owned
<1>3. Owned(F \cup {c}, E, {}, K, M)
  BY <1>1, <1>2 DEF Owned
<1> QED
  BY <1>3 DEF LostOf

\* Giving up: part of the file that was being made is forgotten.
LEMMA LayoutForget ==
  ASSUME NEW F, NEW D, NEW M, NEW E, NEW K, NEW C, NEW B, Owned(F, D, C, K, M),
         \A s \in F : E[s] = D[s], B \subseteq C
  PROVE  Owned(F, E, B, K, M)
BY DEF Owned

\* Releasing: part of what was being made or was to be released is free.
LEMMA LayoutRelease ==
  ASSUME NEW F, NEW D, NEW M, NEW E, NEW K, NEW C, NEW B, NEW L, NEW R,
         Owned(F, D, C, K, M), \A s \in F : E[s] = D[s],
         C \cup K = R \cup (B \cup L), B \subseteq C, L \subseteq K, R \cap (B \cup L) = {}
  PROVE  /\ Owned(F, E, B, L, M \ R)
         /\ LostOf(F, E, B, L, M \ R) \subseteq LostOf(F, D, C, K, M)
<1>1. \A x \in R : (x \in C \/ x \in K) /\ x \notin B /\ x \notin L
  OBVIOUS
<1>2. \A x \in R : x \notin System /\ x \notin F /\ \A t \in F : x \notin D[t]
  BY <1>1 DEF Owned
<1>3. Owned(F, E, B, L, M \ R)
  BY <1>1, <1>2 DEF Owned
<1> QED
  BY <1>3 DEF LostOf

\* Starting again: only the named files are left, and the map as on disk.
LEMMA LayoutRestart ==
  ASSUME NEW F, NEW D, NEW M, NEW E, NEW K, NEW C, NEW G, NEW U, Owned(F, D, C, K, M),
         G \subseteq F, \A s \in G : E[s] = D[s],
         System \subseteq U, \A s \in G : s \in U /\ D[s] \subseteq U
  PROVE  Owned(G, E, {}, {}, U)
BY DEF Owned

-------------------------------------------------------------------------------
(***************************************************************************)
(* The state and its layout.                                               *)
(***************************************************************************)
\* Files are sectors, and open files have records.
LEMMA FilesAre ==
  ASSUME Typed
  PROVE  /\ Named \subseteq Sector /\ OpenIn \subseteq Sector /\ Files \subseteq Sector
         /\ \A i \in Used : i \in Slot /\ dir[i] \in Entry /\ dir[i].inode_sector \in Named
         /\ \A s \in OpenIn : open_inodes[s] \in Inode
         /\ \A s \in Sector : DataOf[s] = Data(s)
<1>1. \A i \in Used : i \in Slot /\ dir[i] \in Entry
  BY DEF Typed, Used
<1>2. \A i \in Used : dir[i].inode_sector \in Sector
  BY SMT, <1>1 DEF Entry
<1>3. Named \subseteq Sector
  BY <1>2 DEF Named
<1>4. OpenIn \subseteq Sector /\ \A s \in OpenIn : open_inodes[s] \in Inode
  BY DEF OpenIn, Typed
<1>5. \A i \in Used : dir[i].inode_sector \in Named
  BY DEF Named
<1> QED
  BY <1>1, <1>3, <1>4, <1>5 DEF Files, DataOf

\* The same after a step.
LEMMA FilesAreAfter ==
  ASSUME Typed'
  PROVE  /\ Named' \subseteq Sector /\ OpenIn' \subseteq Sector /\ Files' \subseteq Sector
         /\ \A s \in OpenIn' : open_inodes'[s] \in Inode
         /\ \A s \in Sector : DataOf'[s] = Data(s)'
<1>1. \A i \in Used' : i \in Slot /\ dir'[i] \in Entry
  BY DEF Typed, Used
<1>2. \A i \in Used' : dir'[i].inode_sector \in Sector
  BY SMT, <1>1 DEF Entry
<1>3. Named' \subseteq Sector
  BY <1>2 DEF Named
<1>4. OpenIn' \subseteq Sector /\ \A s \in OpenIn' : open_inodes'[s] \in Inode
  BY DEF OpenIn, Typed
<1> QED
  BY <1>3, <1>4 DEF Files, DataOf

\* Both copies of the inode of a named file give its data.
LEMMA DataNamed ==
  ASSUME Agree, NEW s \in Named
  PROVE  Data(s) = Run(disk[s].start, bytes_to_sectors(disk[s].length))
<1>1. CASE s \in OpenIn
  <2>1. open_inodes[s].start = disk[s].start /\ open_inodes[s].length = disk[s].length
    BY <1>1 DEF Agree
  <2> QED
    BY <1>1, <2>1 DEF Data
<1>2. CASE s \notin OpenIn
  BY <1>2 DEF Data
<1> QED
  BY <1>1, <1>2

\* When the inode of s stays as it is, on disk as long as s has a name and in
\* memory as long as s is open, so does the data of s.
LEMMA DataSame ==
  ASSUME Agree, NEW s, s \in Files',
         s \in Named' => s \in Named /\ disk'[s] = disk[s],
         s \in OpenIn' =>
           \/ /\ s \in OpenIn
              /\ open_inodes'[s].start = open_inodes[s].start
              /\ open_inodes'[s].length = open_inodes[s].length
           \/ /\ s \in Named
              /\ open_inodes'[s].start = disk[s].start
              /\ open_inodes'[s].length = disk[s].length
  PROVE  s \in Files /\ Data(s)' = Data(s)
<1>1. CASE s \in OpenIn'
  <2>1. Data(s)' = Run(open_inodes'[s].start, bytes_to_sectors(open_inodes'[s].length))
    BY <1>1 DEF Data
  <2>2. CASE /\ s \in OpenIn
             /\ open_inodes'[s].start = open_inodes[s].start
             /\ open_inodes'[s].length = open_inodes[s].length
    BY <2>1, <2>2 DEF Data, Files
  <2>3. CASE /\ s \in Named
             /\ open_inodes'[s].start = disk[s].start
             /\ open_inodes'[s].length = disk[s].length
    BY <2>1, <2>3, DataNamed DEF Files
  <2> QED
    BY <1>1, <2>2, <2>3
<1>2. CASE s \notin OpenIn'
  <2>1. s \in Named' /\ s \in Named /\ disk'[s] = disk[s]
    BY <1>2 DEF Files
  <2>2. Data(s)' = Run(disk'[s].start, bytes_to_sectors(disk'[s].length))
    BY <1>2 DEF Data
  <2> QED
    BY <2>1, <2>2, DataNamed DEF Files
<1> QED
  BY <1>1, <1>2

\* What is lost, in terms of the layout.
LEMMA LostIs ==
  ASSUME Typed
  PROVE  Lost = LostOf(Files, DataOf, Creating, Closing, free_map)
<1>1. \A s \in Files : FileSectors(s) = {s} \cup DataOf[s]
  BY FilesAre DEF FileSectors, Extent, Data
<1>2. \A x : x \in UNION {FileSectors(s) : s \in Named \cup OpenIn} <=>
             x \in Files \/ \E s \in Files : x \in DataOf[s]
  BY <1>1 DEF Files
<1> QED
  BY <1>2 DEF Lost, LostOf

\* The same after a step.
LEMMA LostIsAfter ==
  ASSUME Typed'
  PROVE  Lost' = LostOf(Files', DataOf', Creating', Closing', free_map')
<1>1. \A s \in Files' : FileSectors(s)' = {s} \cup DataOf'[s]
  BY FilesAreAfter DEF FileSectors, Extent, Data
<1>2. \A x : x \in UNION {FileSectors(s)' : s \in Named' \cup OpenIn'} <=>
             x \in Files' \/ \E s \in Files' : x \in DataOf'[s]
  BY <1>1 DEF Files
<1> QED
  BY <1>2 DEF Lost, LostOf

\* The directory, the disk and the open inodes still agree when the named
\* files are the same and an inode is open as before or newly read from disk.
LEMMA AgreeSame ==
  ASSUME Agree, UNCHANGED dir, \A s \in Named : disk'[s] = disk[s],
         \A s \in OpenIn' :
           \/ /\ s \in OpenIn
              /\ open_inodes'[s].start = open_inodes[s].start
              /\ open_inodes'[s].length = open_inodes[s].length
              /\ open_inodes'[s].removed = open_inodes[s].removed
           \/ /\ s \in Named
              /\ open_inodes'[s].start = disk[s].start
              /\ open_inodes'[s].length = disk[s].length
              /\ open_inodes'[s].removed = FALSE
  PROVE  Agree' /\ Named' = Named /\ \A s \in Files' : s \in Files /\ Data(s)' = Data(s)
<1>1. Named' = Named /\ Used' = Used
  BY DEF Named, Used
<1>2. \A s \in Named' : disk'[s] \in Extents
  BY <1>1 DEF Agree
<1>3. \A s \in Named' \cap OpenIn' :
        open_inodes'[s].start = disk'[s].start /\ open_inodes'[s].length = disk'[s].length
  BY <1>1 DEF Agree
<1>4. \A i, j \in Used' : dir'[i].inode_sector = dir'[j].inode_sector => i = j
  BY <1>1 DEF Agree
<1>5. \A s \in OpenIn' : open_inodes'[s].removed => s \notin Named'
  BY <1>1 DEF Agree
<1>6. \A s \in Files' : s \in Files /\ Data(s)' = Data(s)
  <2> TAKE s \in Files'
  <2> QED
    BY <1>1, DataSame
<1> QED
  BY <1>1, <1>2, <1>3, <1>4, <1>5, <1>6 DEF Agree

-------------------------------------------------------------------------------
(***************************************************************************)
(* Calls that run to their end under filesys_lock.                         *)
(***************************************************************************)
\* After a close, the sectors of the removed files that are gone are to be
\* released.
LEMMA ClosingIs ==
  ASSUME Typed, Owns, NEW old, NEW Gone, Gone \subseteq Files \ Files',
         releasing' \in ReleasedBy(old, open_inodes'),
         Freed(old, open_inodes') = Gone,
         \A s \in Gone :
           /\ old[s].start \in Nat /\ old[s].length \in Nat
           /\ Data(s) = Run(old[s].start, bytes_to_sectors(old[s].length))
  PROVE  /\ releasing' \in Seq(Nat \X Nat)
         /\ \A i, j \in 1 .. Len(releasing') : i # j => RunAt(i)' \cap RunAt(j)' = {}
         /\ \A x \in Closing' : \E s \in Gone : x = s \/ x \in Data(s)
         /\ \A s \in Gone : s \in Closing' /\ Data(s) \subseteq Closing'
<1> DEFINE F    == Freed(old, open_inodes')
           R    == releasing'
           D(s) == Run(old[s].start, bytes_to_sectors(old[s].length))
           X(i) == Run(R[i][1], R[i][2])
<1>1. /\ R \in Seq(Nat \X Nat)
      /\ \A i \in 1 .. Len(R) : \E s \in F : X(i) \in {{s}, D(s)}
      /\ \A s \in F : \E i \in 1 .. Len(R) : X(i) = {s}
      /\ \A s \in F : \E i \in 1 .. Len(R) : X(i) = D(s)
      /\ (\A s \in F : s \notin D(s))
           /\ (\A s, t \in F : s # t => t \notin D(s) /\ D(s) \cap D(t) = {})
         => \A i, j \in 1 .. Len(R) : i # j => X(i) \cap X(j) = {}
  <2>1. \A s \in Freed(old, open_inodes') : old[s].start \in Nat /\ old[s].length \in Nat
    OBVIOUS
  <2> QED
    BY <2>1, ReleasedIs
<1>2. F = Gone /\ R = releasing' /\ \A s \in F : s \in Files /\ Data(s) = D(s) /\ Data(s) = DataOf[s]
  BY FilesAre
<1>3. DOMAIN R = 1 .. Len(R)
  <2> HIDE DEF R
  <2> QED
    BY SMT, <1>1
<1>4. Closing' = UNION {X(i) : i \in 1 .. Len(R)}
  BY <1>3 DEF Closing
<1>5. \A i \in 1 .. Len(R) : X(i) = RunAt(i)'
  BY DEF RunAt
<1> HIDE DEF F, R, D, X
<1>6. (\A s \in F : s \notin D(s)) /\ (\A s, t \in F : s # t => t \notin D(s) /\ D(s) \cap D(t) = {})
  <2>1. /\ \A s \in Files : s \notin DataOf[s]
        /\ \A s, t \in Files : s # t => t \notin DataOf[s] /\ DataOf[s] \cap DataOf[t] = {}
    BY DEF Owns, Owned
  <2>2. \A s \in F : s \in Files /\ D(s) = DataOf[s]
    BY <1>2
  <2>3. ASSUME NEW s \in F, NEW t \in F, s # t
        PROVE  t \notin D(s) /\ D(s) \cap D(t) = {}
    <3>1. s \in Files /\ t \in Files /\ D(s) = DataOf[s] /\ D(t) = DataOf[t]
      BY <2>2
    <3> QED
      BY <2>1, <2>3, <3>1
  <2>4. \A s \in F : s \notin D(s)
    BY <2>1, <2>2
  <2> QED
    BY <2>3, <2>4
<1>7. \A i, j \in 1 .. Len(R) : i # j => X(i) \cap X(j) = {}
  BY <1>1, <1>6
<1>8. \A x \in Closing' : \E s \in F : x = s \/ x \in D(s)
  <2> TAKE x \in Closing'
  <2>1. PICK i \in 1 .. Len(R) : x \in X(i)
    BY <1>4
  <2>2. PICK s \in F : X(i) = {s} \/ X(i) = D(s)
    BY <1>1
  <2> QED
    BY <2>1, <2>2
<1>9. \A s \in F : s \in Closing' /\ D(s) \subseteq Closing'
  BY <1>1, <1>4
<1>10. \A s : s \in F <=> s \in Gone
  BY <1>2
<1>11. \A x \in Closing' : \E s \in Gone : x = s \/ x \in Data(s)
  BY <1>2, <1>8, <1>10
<1>12. \A s \in Gone : s \in Closing' /\ Data(s) \subseteq Closing'
  BY <1>2, <1>9, <1>10
<1>13. \A i, j \in 1 .. Len(releasing') : i # j => RunAt(i)' \cap RunAt(j)' = {}
  BY <1>2, <1>5, <1>7
<1> QED
  BY <1>1, <1>2, <1>11, <1>12, <1>13

\* A call that takes files away and leaves sectors of theirs to be released.
LEMMA CallKeeps ==
  ASSUME IInv, op = NULL, releasing = <<>>, op' = NULL, writing' = NULL,
         UNCHANGED <<free_map, free_map_file>>, NEW Gone, Gone \subseteq Files \ Files',
         Typed', Counted', Agree', Named' \subseteq Named,
         \A s \in Files' : s \in Files /\ Data(s)' = Data(s),
         \A i, j \in 1 .. Len(releasing') : i # j => RunAt(i)' \cap RunAt(j)' = {},
         \A x \in Closing' : \E s \in Gone : x = s \/ x \in Data(s),
         \A s \in Gone : s \in Closing' /\ Data(s) \subseteq Closing'
  PROVE  IInv' /\ (Gone = Files \ Files' => Lost' \subseteq Lost)
<1>1. op = NULL /\ op' = NULL /\ releasing = <<>>
  OBVIOUS
<1>2. Creating = {} /\ Creating' = {} /\ Closing = {}
  <2>1. DOMAIN <<>> = {}
    BY SMT
  <2> QED
    BY <1>1, <2>1 DEF Creating, Closing
<1>3. UnderWay'
  BY <1>1 DEF UnderWay
<1>4. \A s \in Files : s \in Sector /\ DataOf[s] = Data(s)
  BY FilesAre DEF IInv
<1>5. \A s \in Files' : s \in Sector /\ DataOf'[s] = Data(s)'
  BY FilesAreAfter
<1>6. /\ Owned(Files', DataOf', {}, Closing', free_map)
      /\ Gone = Files \ Files' =>
           LostOf(Files', DataOf', {}, Closing', free_map)
             \subseteq LostOf(Files, DataOf, {}, {}, free_map)
  <2>1. Owned(Files, DataOf, {}, {}, free_map)
    BY <1>2 DEF IInv, Owns
  <2>2. Files' \subseteq Files /\ \A s \in Files' : DataOf'[s] = DataOf[s]
    BY <1>4, <1>5
  <2>3. \A x \in Closing' : \E s \in Files \ Files' : x = s \/ x \in DataOf[s]
    BY <1>4
  <2>4. Gone = Files \ Files' =>
          \A s \in Files \ Files' : s \in Closing' /\ DataOf[s] \subseteq Closing'
    BY <1>4
  <2> QED
    BY <2>1, <2>2, <2>3, <2>4, LayoutClose
<1>7. Owns'
  BY <1>2, <1>6 DEF Owns
<1>8. OnDisk'
  <2>1. \A s \in Named' : s \in free_map_file' /\ Data(s)' \subseteq free_map_file'
    BY DEF IInv, OnDisk, Files
  <2> QED
    BY <1>2, <2>1 DEF IInv, OnDisk
<1>9. Gone = Files \ Files' => Lost' \subseteq Lost
  BY <1>2, <1>6, LostIs, LostIsAfter DEF IInv
<1> QED
  BY <1>3, <1>7, <1>8, <1>9 DEF IInv

\* A call after which the files are the same.
LEMMA CallSame ==
  ASSUME IInv, op = NULL, releasing = <<>>, op' = NULL, writing' = NULL,
         UNCHANGED <<free_map, free_map_file, releasing>>,
         Typed', Counted', Agree', Named' = Named, Files \subseteq Files',
         \A s \in Files' : s \in Files /\ Data(s)' = Data(s)
  PROVE  IInv' /\ Lost' \subseteq Lost
<1>1. releasing' = <<>> /\ Len(<<>>) = 0 /\ DOMAIN <<>> = {}
  BY SMT
<1>2. Closing' = {}
  BY <1>1 DEF Closing
<1>3. 1 .. Len(releasing') = {}
  BY SMT, <1>1
<1>4. PICK Gone : Gone = {} /\ Gone = Files \ Files'
  OBVIOUS
<1> QED
  BY <1>2, <1>3, <1>4, CallKeeps

-------------------------------------------------------------------------------
(***************************************************************************)
(* Descriptors, running programs and their number.                         *)
(***************************************************************************)
\* There are finitely many of them.
LEMMA RefsFinite ==
  /\ \A T \in SUBSET (Process \X Fd) : IsFiniteSet(T) /\ Cardinality(T) \in Nat
  /\ \A T \in SUBSET Process : IsFiniteSet(T) /\ Cardinality(T) \in Nat
<1>1. IsFiniteSet(Process \X Fd) /\ IsFiniteSet(Process)
  BY Ranges, FS_Product
<1>2. \A T \in SUBSET (Process \X Fd) : IsFiniteSet(T)
  BY <1>1, FS_Subset
<1>3. \A T \in SUBSET Process : IsFiniteSet(T)
  BY <1>1, FS_Subset
<1> QED
  BY <1>2, <1>3, FS_CardinalityType

\* A descriptor is set.
LEMMA TableSet ==
  ASSUME Typed, NEW p \in Process, NEW fd \in Fd,
         NEW f \in {g \in File : g.deny_write = FALSE} \cup {NULL},
         fd_table' = [fd_table EXCEPT ![p][fd] = f]
  PROVE  /\ fd_table' \in [Process -> [Fd -> {g \in File : g.deny_write = FALSE} \cup {NULL}]]
         /\ \A s : RefsTo(s)' = IF f # NULL /\ f.inode = s THEN RefsTo(s) \cup {<<p, fd>>}
                                ELSE RefsTo(s) \ {<<p, fd>>}
<1> DEFINE S == {g \in File : g.deny_write = FALSE} \cup {NULL}
<1>1. fd_table \in [Process -> [Fd -> S]] /\ f \in S
  BY DEF Typed
<1> HIDE DEF S
<1>2. /\ fd_table' \in [Process -> [Fd -> S]]
      /\ \A q \in Process, g \in Fd :
           fd_table'[q][g] = IF q = p /\ g = fd THEN f ELSE fd_table[q][g]
  BY SMT, <1>1
<1>3. ASSUME NEW h \in Process \X Fd
      PROVE  /\ h[1] \in Process /\ h[2] \in Fd
             /\ h = <<p, fd>> <=> h[1] = p /\ h[2] = fd
  BY SMT, <1>3
<1>4. ASSUME NEW s
      PROVE  RefsTo(s)' = IF f # NULL /\ f.inode = s THEN RefsTo(s) \cup {<<p, fd>>}
                          ELSE RefsTo(s) \ {<<p, fd>>}
  <2>1. \A h \in Process \X Fd :
          fd_table'[h[1]][h[2]] = IF h = <<p, fd>> THEN f ELSE fd_table[h[1]][h[2]]
    BY <1>2, <1>3
  <2>2. <<p, fd>> \in Process \X Fd
    OBVIOUS
  <2>3. \A h : h \in RefsTo(s)' <=> h \in Process \X Fd /\ fd_table'[h[1]][h[2]] # NULL
                                    /\ fd_table'[h[1]][h[2]].inode = s
    BY DEF RefsTo
  <2>4. \A h : h \in RefsTo(s) <=> h \in Process \X Fd /\ fd_table[h[1]][h[2]] # NULL
                                   /\ fd_table[h[1]][h[2]].inode = s
    BY DEF RefsTo
  <2>5. \A h : h # <<p, fd>> => (h \in RefsTo(s)' <=> h \in RefsTo(s))
    BY <2>1, <2>3, <2>4
  <2>6. <<p, fd>> \in RefsTo(s)' <=> f # NULL /\ f.inode = s
    BY <2>1, <2>2, <2>3
  <2> QED
    BY <2>5, <2>6
<1> QED
  BY <1>2, <1>4 DEF S

\* A name leads to the sector of a file.
LEMMA EntryIs ==
  ASSUME Typed, NEW name, lookup(name) # {}
  PROVE  /\ Lowest(lookup(name)) \in Used /\ Lowest(lookup(name)) \in Slot
         /\ EntrySector(name) = dir[Lowest(lookup(name))].inode_sector
         /\ EntrySector(name) \in Named /\ EntrySector(name) \in Sector
<1>1. lookup(name) \subseteq Used /\ Used \subseteq Slot /\ lookup(name) \subseteq Nat
  BY Ranges DEF lookup, Used
<1>2. Lowest(lookup(name)) \in lookup(name)
  BY <1>1, LowestIn
<1> QED
  BY <1>1, <1>2, FilesAre DEF EntrySector

\* Opening a named file.
LEMMA InodeOpened ==
  ASSUME Typed, Agree, NEW s \in Named
  PROVE  LET new == inode_open(open_inodes, s)
         IN /\ new \in [Sector -> Inode \cup {NULL}]
            /\ new[s] \in Inode /\ \A t \in Sector : t # s => new[t] = open_inodes[t]
            /\ new[s].start = disk[s].start /\ new[s].length = disk[s].length
            /\ new[s].removed = FALSE
            /\ IF open_inodes[s] = NULL THEN new[s].open_cnt = 1 /\ new[s].deny_write_cnt = 0
               ELSE /\ new[s].open_cnt = open_inodes[s].open_cnt + 1
                    /\ new[s].deny_write_cnt = open_inodes[s].deny_write_cnt
<1> DEFINE new == inode_open(open_inodes, s)
           i   == open_inodes[s]
<1>1. s \in Sector /\ open_inodes \in [Sector -> Inode \cup {NULL}] /\ NULL \notin Inode
  BY FilesAre, NULLAssumption DEF Typed
<1>2. disk[s] \in Extents
  BY DEF Agree
<1>3. CASE i = NULL
  <2> DEFINE n == [open_cnt |-> 1, removed |-> FALSE, deny_write_cnt |-> 0,
                   start |-> disk[s].start, length |-> disk[s].length]
  <2>1. n \in Inode /\ n.start = disk[s].start /\ n.length = disk[s].length
        /\ n.removed = FALSE /\ n.open_cnt = 1 /\ n.deny_write_cnt = 0
    BY SMT, <1>2 DEF Inode, Extents
  <2>2. new = [open_inodes EXCEPT ![s] = n]
    BY <1>1, <1>3 DEF inode_open
  <2> HIDE DEF n, new
  <2>3. /\ new \in [Sector -> Inode \cup {NULL}] /\ new[s] = n
        /\ \A t \in Sector : t # s => new[t] = open_inodes[t]
    BY <1>1, <2>1, <2>2
  <2> QED
    BY <1>3, <2>1, <2>3 DEF new
<1>4. CASE i # NULL
  <2> DEFINE n == [i EXCEPT !.open_cnt = i.open_cnt + 1]
  <2>1. i \in Inode
    BY <1>1, <1>4
  <2>2. i.start = disk[s].start /\ i.length = disk[s].length /\ i.removed = FALSE
    <3>1. s \in OpenIn
      BY <1>1, <1>4 DEF OpenIn
    <3>2. i.removed \in BOOLEAN
      BY SMT, <2>1 DEF Inode
    <3> QED
      BY <3>1, <3>2 DEF Agree
  <2> HIDE DEF i
  <2>3. /\ n \in Inode /\ n.start = i.start /\ n.length = i.length /\ n.removed = i.removed
        /\ n.open_cnt = i.open_cnt + 1 /\ n.deny_write_cnt = i.deny_write_cnt
    BY SMT, <2>1 DEF Inode
  <2>4. new = [open_inodes EXCEPT ![s] = n]
    BY <1>1, <1>4 DEF inode_open, i
  <2> HIDE DEF n, new
  <2>5. /\ new \in [Sector -> Inode \cup {NULL}] /\ new[s] = n
        /\ \A t \in Sector : t # s => new[t] = open_inodes[t]
    BY <1>1, <2>3, <2>4
  <2> QED
    BY <1>4, <2>2, <2>3, <2>5 DEF new, i
<1> QED
  BY <1>3, <1>4

\* The number of references is right when it is for the one file it changes for.
LEMMA CountOne ==
  ASSUME Counted, NEW s \in Sector, CountedAt(s)',
         \A t \in Sector : t # s => /\ open_inodes'[t] = open_inodes[t]
                                   /\ RefsTo(t)' = RefsTo(t) /\ Runners(t)' = Runners(t)
  PROVE  Counted'
<1>1. \A t \in Sector : t # s => CountedAt(t)'
  <2> TAKE t \in Sector
  <2> QED
    BY DEF Counted, CountedAt
<1> QED
  BY <1>1 DEF Counted

\* The numbers of references to a file.
LEMMA CountsAre ==
  ASSUME Typed, Counted, NEW s \in Sector
  PROVE  /\ IsFiniteSet(RefsTo(s)) /\ IsFiniteSet(Runners(s))
         /\ Cardinality(RefsTo(s)) \in Nat /\ Cardinality(Runners(s)) \in Nat
         /\ open_inodes[s] = NULL => Cardinality(RefsTo(s)) = 0 /\ Cardinality(Runners(s)) = 0
         /\ open_inodes[s] # NULL =>
              /\ open_inodes[s].open_cnt = Cardinality(RefsTo(s)) + Cardinality(Runners(s))
              /\ open_inodes[s].deny_write_cnt = Cardinality(Runners(s))
<1>1. /\ IsFiniteSet(RefsTo(s)) /\ IsFiniteSet(Runners(s))
      /\ Cardinality(RefsTo(s)) \in Nat /\ Cardinality(Runners(s)) \in Nat
  BY RefsFinite DEF RefsTo, Runners
<1>2. CountedAt(s)
  BY DEF Counted
<1>3. open_inodes[s] = NULL => Cardinality(RefsTo(s)) = 0 /\ Cardinality(Runners(s)) = 0
  BY <1>2, FS_EmptySet DEF CountedAt
<1> QED
  BY <1>1, <1>2, <1>3 DEF CountedAt

\* What open() keeps.
LEMMA Keeps_syscall_open ==
  ASSUME IInv, NEW p \in Process, NEW name \in Name, syscall_open(p, name)
  PROVE  IInv' /\ Lost' \subseteq Lost
<1>1. PICK s, fd, new :
        /\ s = EntrySector(name) /\ fd = Lowest({g \in Fd : fd_table[p][g] = NULL})
        /\ new = inode_open(open_inodes, s)
        /\ filesys_lock_free /\ lookup(name) # {} /\ {g \in Fd : fd_table[p][g] = NULL} # {}
        /\ open_inodes' = new
        /\ fd_table' = [fd_table EXCEPT ![p][fd] = file_open(s)]
        /\ UNCHANGED <<disk, dir, free_map, free_map_file, executable, op, releasing, writing>>
  BY DEF syscall_open
<1>2. Typed /\ Counted /\ Agree
  BY DEF IInv
<1>3. s \in Named /\ s \in Sector
  BY <1>1, <1>2, EntryIs
<1>4. fd \in Fd /\ fd_table[p][fd] = NULL
  <2>1. {g \in Fd : fd_table[p][g] = NULL} \subseteq Nat
    BY Ranges
  <2>2. fd \in {g \in Fd : fd_table[p][g] = NULL}
    BY <1>1, <2>1, LowestIn
  <2> QED
    BY <2>2
<1>5. /\ new \in [Sector -> Inode \cup {NULL}]
      /\ new[s] \in Inode /\ \A t \in Sector : t # s => new[t] = open_inodes[t]
      /\ new[s].start = disk[s].start /\ new[s].length = disk[s].length
      /\ new[s].removed = FALSE
      /\ IF open_inodes[s] = NULL THEN new[s].open_cnt = 1 /\ new[s].deny_write_cnt = 0
         ELSE /\ new[s].open_cnt = open_inodes[s].open_cnt + 1
              /\ new[s].deny_write_cnt = open_inodes[s].deny_write_cnt
  BY <1>1, <1>2, <1>3, InodeOpened
<1>6. file_open(s) \in File /\ file_open(s).deny_write = FALSE /\ file_open(s).inode = s
      /\ file_open(s) # NULL
  <2>1. file_open(s) \in File /\ file_open(s).deny_write = FALSE /\ file_open(s).inode = s
    BY SMT, <1>3 DEF file_open, File
  <2> QED
    BY <2>1, NULLAssumption
<1>7. /\ fd_table' \in [Process -> [Fd -> {g \in File : g.deny_write = FALSE} \cup {NULL}]]
      /\ \A t : RefsTo(t)' = IF file_open(s) # NULL /\ file_open(s).inode = t
                             THEN RefsTo(t) \cup {<<p, fd>>} ELSE RefsTo(t) \ {<<p, fd>>}
  <2>1. file_open(s) \in {g \in File : g.deny_write = FALSE} \cup {NULL}
    BY <1>6
  <2>2. fd_table' = [fd_table EXCEPT ![p][fd] = file_open(s)]
    BY <1>1
  <2> QED
    BY <1>2, <1>4, <2>1, <2>2, TableSet
<1>8. Typed'
  BY <1>1, <1>2, <1>5, <1>7 DEF Typed
<1>9. Counted'
  <2>1. \A t : <<p, fd>> \notin RefsTo(t)
    <3>1. <<p, fd>>[1] = p /\ <<p, fd>>[2] = fd
      BY SMT
    <3> QED
      BY <1>4, <3>1 DEF RefsTo
  <2>2. RefsTo(s)' = RefsTo(s) \cup {<<p, fd>>}
    BY <1>6, <1>7
  <2>3. \A t : t # s => RefsTo(t)' = RefsTo(t)
    <3> TAKE t
    <3> HAVE t # s
    <3>1. RefsTo(t)' = RefsTo(t) \ {<<p, fd>>}
      BY <1>6, <1>7
    <3> QED
      BY <2>1, <3>1
  <2>4. \A t : Runners(t)' = Runners(t)
    BY <1>1 DEF Runners
  <2>5. Cardinality(RefsTo(s)') = Cardinality(RefsTo(s)) + 1
    BY <1>2, <1>3, <2>1, <2>2, CountsAre, FS_AddElement
  <2>6. Cardinality(Runners(s)') = Cardinality(Runners(s))
    BY <2>4
  <2>7. /\ new[s].open_cnt = Cardinality(RefsTo(s)') + Cardinality(Runners(s)')
        /\ new[s].deny_write_cnt = Cardinality(Runners(s)')
    <3> DEFINE m == Cardinality(RefsTo(s))
               r == Cardinality(Runners(s))
    <3>1. /\ m \in Nat /\ r \in Nat
          /\ open_inodes[s] = NULL => m = 0 /\ r = 0
          /\ open_inodes[s] # NULL =>
                open_inodes[s].open_cnt = m + r /\ open_inodes[s].deny_write_cnt = r
      BY <1>2, <1>3, CountsAre
    <3> HIDE DEF m, r
    <3>2. new[s].open_cnt = (m + 1) + r /\ new[s].deny_write_cnt = r
      BY SMT, <1>5, <3>1
    <3> QED
      BY <2>5, <2>6, <3>2 DEF m, r
  <2>8. CountedAt(s)'
    BY <1>1, <1>5, <2>7, NULLAssumption DEF CountedAt
  <2> QED
    BY <1>1, <1>2, <1>3, <1>5, <2>3, <2>4, <2>8, CountOne
<1>10. OpenIn' = OpenIn \cup {s}
  BY <1>1, <1>3, <1>5, NULLAssumption DEF OpenIn
<1>11. Agree' /\ Named' = Named /\ \A t \in Files' : t \in Files /\ Data(t)' = Data(t)
  BY <1>1, <1>2, <1>3, <1>5, <1>10, FilesAre, AgreeSame
<1>12. Files \subseteq Files'
  BY <1>10, <1>11 DEF Files
<1> QED
  BY <1>1, <1>8, <1>9, <1>11, <1>12, CallSame DEF filesys_lock_free

\* A process starts or stops running a file.
LEMMA RunnerSet ==
  ASSUME Typed, NEW p \in Process, NEW f \in {g \in File : g.deny_write = TRUE} \cup {NULL},
         executable' = [executable EXCEPT ![p] = f]
  PROVE  /\ executable' \in [Process -> {g \in File : g.deny_write = TRUE} \cup {NULL}]
         /\ \A s : Runners(s)' = IF f # NULL /\ f.inode = s THEN Runners(s) \cup {p}
                                 ELSE Runners(s) \ {p}
<1> DEFINE S == {g \in File : g.deny_write = TRUE} \cup {NULL}
<1>1. executable \in [Process -> S] /\ f \in S
  BY DEF Typed
<1> HIDE DEF S
<1>2. /\ executable' \in [Process -> S]
      /\ \A q \in Process : executable'[q] = IF q = p THEN f ELSE executable[q]
  BY <1>1
<1>3. ASSUME NEW s
      PROVE  Runners(s)' = IF f # NULL /\ f.inode = s THEN Runners(s) \cup {p}
                           ELSE Runners(s) \ {p}
  <2>1. \A q : q # p => (q \in Runners(s)' <=> q \in Runners(s))
    BY <1>2 DEF Runners
  <2>2. p \in Runners(s)' <=> f # NULL /\ f.inode = s
    BY <1>2 DEF Runners
  <2> QED
    BY <2>1, <2>2
<1> QED
  BY <1>2, <1>3 DEF S

\* What load() keeps.
LEMMA Keeps_load ==
  ASSUME IInv, NEW p \in Process, NEW name \in Name, load(p, name)
  PROVE  IInv' /\ Lost' \subseteq Lost
<1>1. PICK s, new, f :
        /\ s = EntrySector(name) /\ f = [file_open(s) EXCEPT !.deny_write = TRUE]
        /\ new = inode_open(open_inodes, s)
        /\ filesys_lock_free /\ lookup(name) # {} /\ executable[p] = NULL
        /\ open_inodes' = file_deny_write(new, file_open(s))
        /\ executable' = [executable EXCEPT ![p] = f]
        /\ UNCHANGED <<disk, dir, free_map, free_map_file, fd_table, op, releasing, writing>>
  BY DEF load
<1>2. Typed /\ Counted /\ Agree
  BY DEF IInv
<1>3. s \in Named /\ s \in Sector
  BY <1>1, <1>2, EntryIs
<1>4. /\ new \in [Sector -> Inode \cup {NULL}]
      /\ new[s] \in Inode /\ \A t \in Sector : t # s => new[t] = open_inodes[t]
      /\ new[s].start = disk[s].start /\ new[s].length = disk[s].length
      /\ new[s].removed = FALSE
      /\ IF open_inodes[s] = NULL THEN new[s].open_cnt = 1 /\ new[s].deny_write_cnt = 0
         ELSE /\ new[s].open_cnt = open_inodes[s].open_cnt + 1
              /\ new[s].deny_write_cnt = open_inodes[s].deny_write_cnt
  BY <1>1, <1>2, <1>3, InodeOpened
<1>5. /\ open_inodes' \in [Sector -> Inode \cup {NULL}]
      /\ open_inodes'[s] \in Inode /\ \A t \in Sector : t # s => open_inodes'[t] = open_inodes[t]
      /\ open_inodes'[s].start = disk[s].start /\ open_inodes'[s].length = disk[s].length
      /\ open_inodes'[s].removed = FALSE
      /\ open_inodes'[s].open_cnt = new[s].open_cnt
      /\ open_inodes'[s].deny_write_cnt = new[s].deny_write_cnt + 1
  <2>1. file_open(s).inode = s
    BY SMT DEF file_open
  <2> DEFINE i == new[s]
             n == [i EXCEPT !.deny_write_cnt = i.deny_write_cnt + 1]
  <2>2. open_inodes' = [new EXCEPT ![s] = n]
    BY <1>1, <2>1 DEF file_deny_write
  <2>3. i \in Inode
    BY <1>4
  <2> HIDE DEF i
  <2>4. /\ n \in Inode /\ n.start = i.start /\ n.length = i.length /\ n.removed = i.removed
        /\ n.open_cnt = i.open_cnt /\ n.deny_write_cnt = i.deny_write_cnt + 1
    BY SMT, <2>3 DEF Inode
  <2> HIDE DEF n
  <2>5. /\ open_inodes' \in [Sector -> Inode \cup {NULL}] /\ open_inodes'[s] = n
        /\ \A t \in Sector : t # s => open_inodes'[t] = new[t]
    BY <1>3, <1>4, <2>2, <2>4
  <2> QED
    BY <1>4, <2>4, <2>5 DEF i
<1>6. f \in File /\ f.deny_write = TRUE /\ f.inode = s /\ f # NULL
  <2>1. f = [inode |-> s, pos |-> 0, deny_write |-> TRUE]
    BY <1>1 DEF file_open
  <2>2. f \in File /\ f.deny_write = TRUE /\ f.inode = s
    BY SMT, <1>3, <2>1 DEF File
  <2> QED
    BY <2>2, NULLAssumption
<1>7. /\ executable' \in [Process -> {g \in File : g.deny_write = TRUE} \cup {NULL}]
      /\ \A t : Runners(t)' = IF f # NULL /\ f.inode = t THEN Runners(t) \cup {p}
                              ELSE Runners(t) \ {p}
  <2>1. f \in {g \in File : g.deny_write = TRUE} \cup {NULL}
    BY <1>6
  <2>2. executable' = [executable EXCEPT ![p] = f]
    BY <1>1
  <2> QED
    BY <1>2, <2>1, <2>2, RunnerSet
<1>8. Typed'
  BY <1>1, <1>2, <1>5, <1>7 DEF Typed
<1>9. Counted'
  <2>1. \A t : p \notin Runners(t)
    BY <1>1 DEF Runners
  <2>2. Runners(s)' = Runners(s) \cup {p}
    BY <1>6, <1>7
  <2>3. \A t : t # s => Runners(t)' = Runners(t)
    <3> TAKE t
    <3> HAVE t # s
    <3>1. Runners(t)' = Runners(t) \ {p}
      BY <1>6, <1>7
    <3> QED
      BY <2>1, <3>1
  <2>4. \A t : RefsTo(t)' = RefsTo(t)
    BY <1>1 DEF RefsTo
  <2>5. Cardinality(Runners(s)') = Cardinality(Runners(s)) + 1
    BY <1>2, <1>3, <2>1, <2>2, CountsAre, FS_AddElement
  <2>6. Cardinality(RefsTo(s)') = Cardinality(RefsTo(s))
    BY <2>4
  <2>7. /\ open_inodes'[s].open_cnt = Cardinality(RefsTo(s)') + Cardinality(Runners(s)')
        /\ open_inodes'[s].deny_write_cnt = Cardinality(Runners(s)')
    <3> DEFINE m == Cardinality(RefsTo(s))
               r == Cardinality(Runners(s))
    <3>1. /\ m \in Nat /\ r \in Nat
          /\ open_inodes[s] = NULL => m = 0 /\ r = 0
          /\ open_inodes[s] # NULL =>
                open_inodes[s].open_cnt = m + r /\ open_inodes[s].deny_write_cnt = r
      BY <1>2, <1>3, CountsAre
    <3> HIDE DEF m, r
    <3>2. open_inodes'[s].open_cnt = m + (r + 1) /\ open_inodes'[s].deny_write_cnt = r + 1
      BY SMT, <1>4, <1>5, <3>1
    <3> QED
      BY <2>5, <2>6, <3>2 DEF m, r
  <2>8. CountedAt(s)'
    BY <1>5, <2>7, NULLAssumption DEF CountedAt
  <2> QED
    BY <1>2, <1>3, <1>5, <2>3, <2>4, <2>8, CountOne
<1>10. OpenIn' = OpenIn \cup {s}
  BY <1>3, <1>5, NULLAssumption DEF OpenIn
<1>11. Agree' /\ Named' = Named /\ \A t \in Files' : t \in Files /\ Data(t)' = Data(t)
  BY <1>1, <1>2, <1>3, <1>5, <1>10, FilesAre, AgreeSame
<1>12. Files \subseteq Files'
  BY <1>10, <1>11 DEF Files
<1> QED
  BY <1>1, <1>8, <1>9, <1>11, <1>12, CallSame DEF filesys_lock_free

\* An inode that is closed a times by descriptors and b times by programs.
Less(i, a, b) ==
  IF i.open_cnt = a + b THEN NULL
  ELSE [open_cnt |-> i.open_cnt - (a + b), removed |-> i.removed,
        deny_write_cnt |-> i.deny_write_cnt - b, start |-> i.start, length |-> i.length]

\* The files of the descriptors A and of the programs that B run are closed.
LEMMA CountLess ==
  ASSUME Typed, Counted, NEW s \in Sector, NEW A, NEW B, A \subseteq RefsTo(s), B \subseteq Runners(s),
         A # {} \/ B # {}, RefsTo(s)' = RefsTo(s) \ A, Runners(s)' = Runners(s) \ B,
         open_inodes'[s] = Less(open_inodes[s], Cardinality(A), Cardinality(B))
  PROVE  /\ CountedAt(s)' /\ open_inodes'[s] \in Inode \cup {NULL} /\ s \in OpenIn
         /\ open_inodes'[s] # NULL => /\ open_inodes'[s].start = open_inodes[s].start
                                      /\ open_inodes'[s].length = open_inodes[s].length
                                      /\ open_inodes'[s].removed = open_inodes[s].removed
<1> DEFINE m == Cardinality(RefsTo(s))
           r == Cardinality(Runners(s))
           a == Cardinality(A)
           b == Cardinality(B)
           i == open_inodes[s]
<1>1. i # NULL /\ i \in Inode /\ s \in OpenIn
  <2>1. RefsTo(s) # {} \/ Runners(s) # {}
    OBVIOUS
  <2>2. i # NULL
    BY <2>1 DEF Counted, CountedAt
  <2> QED
    BY <2>2 DEF OpenIn, Typed
<1>2. /\ IsFiniteSet(RefsTo(s)) /\ IsFiniteSet(Runners(s)) /\ m \in Nat /\ r \in Nat
      /\ i.open_cnt = m + r /\ i.deny_write_cnt = r
  BY <1>1, CountsAre
<1>3. IsFiniteSet(A) /\ a \in Nat /\ a <= m /\ RefsTo(s) \cap A = A
  BY <1>2, FS_Subset, FS_CardinalityType
<1>4. IsFiniteSet(B) /\ b \in Nat /\ b <= r /\ Runners(s) \cap B = B
  BY <1>2, FS_Subset, FS_CardinalityType
<1>5. IsFiniteSet(RefsTo(s)') /\ Cardinality(RefsTo(s)') = m - a
  <2>1. /\ IsFiniteSet(RefsTo(s) \ A)
        /\ Cardinality(RefsTo(s) \ A) = Cardinality(RefsTo(s)) - Cardinality(RefsTo(s) \cap A)
    BY <1>2, FS_Difference
  <2> QED
    BY <1>3, <2>1
<1>6. IsFiniteSet(Runners(s)') /\ Cardinality(Runners(s)') = r - b
  <2>1. /\ IsFiniteSet(Runners(s) \ B)
        /\ Cardinality(Runners(s) \ B) = Cardinality(Runners(s)) - Cardinality(Runners(s) \cap B)
    BY <1>2, FS_Difference
  <2> QED
    BY <1>4, <2>1
<1> HIDE DEF m, r, a, b
<1>7. CASE i.open_cnt = a + b
  <2>1. open_inodes'[s] = NULL
    BY <1>7 DEF a, b, Less
  <2>2. m - a = 0 /\ r - b = 0
    BY SMT, <1>2, <1>3, <1>4, <1>7
  <2>3. RefsTo(s)' = {} /\ Runners(s)' = {}
    BY <1>5, <1>6, <2>2, FS_EmptySet
  <2> QED
    BY <1>1, <2>1, <2>3 DEF CountedAt
<1>8. CASE i.open_cnt # a + b
  <2> DEFINE n == [open_cnt |-> i.open_cnt - (a + b), removed |-> i.removed,
                   deny_write_cnt |-> i.deny_write_cnt - b,
                   start |-> i.start, length |-> i.length]
  <2>1. open_inodes'[s] = n
    BY <1>8 DEF a, b, Less
  <2> HIDE DEF i
  <2>2. /\ n \in Inode /\ n.start = i.start /\ n.length = i.length /\ n.removed = i.removed
        /\ n.open_cnt = (m - a) + (r - b) /\ n.deny_write_cnt = r - b
    BY SMT, <1>1, <1>2, <1>3, <1>4, <1>8 DEF Inode
  <2> HIDE DEF n
  <2> QED
    BY <1>1, <1>5, <1>6, <2>1, <2>2, NULLAssumption DEF CountedAt, i
<1> QED
  BY <1>7, <1>8

\* The last user of a file that lost its name without being removed closes it.
Forgets == \E s \in OpenIn \ OpenIn' : s \notin Named /\ ~open_inodes[s].removed

\* Closing files: inodes lose references or go.
LEMMA CloseKeeps ==
  ASSUME IInv, filesys_lock_free,
         UNCHANGED <<disk, dir, free_map, free_map_file, op, writing>>,
         releasing' \in ReleasedBy(open_inodes, open_inodes'), Counted',
         open_inodes' \in [Sector -> Inode \cup {NULL}],
         fd_table' \in [Process -> [Fd -> {g \in File : g.deny_write = FALSE} \cup {NULL}]],
         executable' \in [Process -> {g \in File : g.deny_write = TRUE} \cup {NULL}],
         \A s \in Sector : open_inodes'[s] # NULL =>
           /\ s \in OpenIn
           /\ open_inodes'[s].start = open_inodes[s].start
           /\ open_inodes'[s].length = open_inodes[s].length
           /\ open_inodes'[s].removed = open_inodes[s].removed
  PROVE  IInv' /\ (Lost' \subseteq Lost \/ Forgets)
<1>1. Typed /\ Agree /\ Owns
  BY DEF IInv
<1>2. \A s \in OpenIn' : /\ s \in OpenIn
                         /\ open_inodes'[s].start = open_inodes[s].start
                         /\ open_inodes'[s].length = open_inodes[s].length
                         /\ open_inodes'[s].removed = open_inodes[s].removed
  BY DEF OpenIn
<1>3. Agree' /\ Named' = Named /\ \A s \in Files' : s \in Files /\ Data(s)' = Data(s)
  BY <1>1, <1>2, AgreeSame
<1>4. PICK Gone : Gone = {s \in Files \ Files' : open_inodes[s].removed}
  OBVIOUS
<1>5. Freed(open_inodes, open_inodes') = Gone /\ Gone \subseteq Files \ Files'
  <2>1. \A s : s \in Freed(open_inodes, open_inodes') <=>
               s \in OpenIn /\ s \notin OpenIn' /\ open_inodes[s].removed
    BY DEF Freed, OpenIn
  <2>2. \A s \in OpenIn : open_inodes[s].removed => s \notin Named
    BY <1>1 DEF Agree
  <2> QED
    BY <1>3, <1>4, <2>1, <2>2 DEF Files
<1>6. \A s \in Files \ Files' :
        /\ open_inodes[s].start \in Nat /\ open_inodes[s].length \in Nat
        /\ Data(s) = Run(open_inodes[s].start, bytes_to_sectors(open_inodes[s].length))
  <2> TAKE s \in Files \ Files'
  <2>1. s \in OpenIn
    BY <1>3 DEF Files
  <2>2. open_inodes[s] \in Inode
    BY <1>1, <2>1, FilesAre
  <2>3. open_inodes[s].start \in Nat /\ open_inodes[s].length \in Nat
    BY SMT, <2>2 DEF Inode
  <2> QED
    BY <2>1, <2>3 DEF Data
<1>7. /\ releasing' \in Seq(Nat \X Nat)
      /\ \A i, j \in 1 .. Len(releasing') : i # j => RunAt(i)' \cap RunAt(j)' = {}
      /\ \A x \in Closing' : \E s \in Gone : x = s \/ x \in Data(s)
      /\ \A s \in Gone : s \in Closing' /\ Data(s) \subseteq Closing'
  <2>1. PICK old : old = open_inodes
    OBVIOUS
  <2>2. /\ releasing' \in ReleasedBy(old, open_inodes') /\ Freed(old, open_inodes') = Gone
        /\ \A s \in Gone :
             /\ old[s].start \in Nat /\ old[s].length \in Nat
             /\ Data(s) = Run(old[s].start, bytes_to_sectors(old[s].length))
    BY <1>5, <1>6, <2>1
  <2> QED
    BY <1>1, <1>5, <2>2, ClosingIs
<1>8. Typed'
  BY <1>1, <1>7 DEF Typed
<1>9. IInv' /\ (Gone = Files \ Files' => Lost' \subseteq Lost)
  BY <1>3, <1>7, <1>8, <1>5, CallKeeps DEF filesys_lock_free
<1>10. ASSUME NEW s \in Files \ Files', s \notin Gone PROVE Forgets
  BY <1>3, <1>4, <1>10 DEF Files, Forgets
<1>11. Gone = Files \ Files' \/ Forgets
  BY <1>5, <1>10
<1> QED
  BY <1>9, <1>11

\* What close() keeps.
LEMMA Keeps_syscall_close ==
  ASSUME IInv, NEW p \in Process, NEW fd \in Fd, syscall_close(p, fd)
  PROVE  IInv' /\ (Lost' \subseteq Lost \/ Forgets)
<1>1. PICK f, s :
        /\ filesys_lock_free /\ f = fd_table[p][fd] /\ f # NULL /\ s = f.inode
        /\ open_inodes' = file_close(open_inodes, f)
        /\ releasing' \in ReleasedBy(open_inodes, open_inodes')
        /\ fd_table' = [fd_table EXCEPT ![p][fd] = NULL]
        /\ UNCHANGED <<disk, dir, free_map, free_map_file, executable, op, writing>>
  BY DEF syscall_close, Opened
<1>2. Typed /\ Counted
  BY DEF IInv
<1>3. f \in File /\ f.deny_write = FALSE /\ s \in Sector
  <2>1. f \in File /\ f.deny_write = FALSE
    <3>1. fd_table[p] \in [Fd -> {g \in File : g.deny_write = FALSE} \cup {NULL}]
      BY <1>2 DEF Typed
    <3> QED
      BY <1>1, <3>1
  <2> QED
    BY SMT, <1>1, <2>1 DEF File
<1>4. /\ fd_table' \in [Process -> [Fd -> {g \in File : g.deny_write = FALSE} \cup {NULL}]]
      /\ \A t : RefsTo(t)' = RefsTo(t) \ {<<p, fd>>}
  <2>1. fd_table' = [fd_table EXCEPT ![p][fd] = NULL]
    BY <1>1
  <2> QED
    BY <1>2, <2>1, TableSet
<1>5. <<p, fd>> \in RefsTo(s) /\ \A t : t # s => <<p, fd>> \notin RefsTo(t)
  <2>1. <<p, fd>>[1] = p /\ <<p, fd>>[2] = fd /\ <<p, fd>> \in Process \X Fd
    BY SMT
  <2> QED
    BY <1>1, <2>1 DEF RefsTo
<1>6. \A t : t # s => RefsTo(t)' = RefsTo(t)
  BY <1>4, <1>5
<1>7. \A t : Runners(t)' = Runners(t)
  BY <1>1 DEF Runners
<1>8. PICK i : i = open_inodes[s]
  OBVIOUS
<1>9. i \in Inode
  <2>1. RefsTo(s) # {}
    BY <1>5
  <2>2. i # NULL
    BY <1>2, <1>3, <1>8, <2>1 DEF Counted, CountedAt
  <2> QED
    BY <1>2, <1>3, <1>8, <2>2 DEF Typed
<1>10. /\ open_inodes'[s] = IF i.open_cnt = 1 THEN NULL
                            ELSE [i EXCEPT !.open_cnt = i.open_cnt - 1]
       /\ \A t \in Sector : t # s => open_inodes'[t] = open_inodes[t]
       /\ DOMAIN open_inodes' = Sector
  <2>1. open_inodes' = inode_close(open_inodes, s)
    BY <1>1, <1>3 DEF file_close
  <2>2. DOMAIN open_inodes = Sector
    BY <1>2 DEF Typed
  <2> QED
    BY <1>3, <1>8, <2>1, <2>2 DEF inode_close
<1>11. Cardinality({<<p, fd>>}) = 1 /\ Cardinality({}) = 0
  BY FS_Singleton, FS_EmptySet
<1>12. open_inodes'[s] = Less(open_inodes[s], Cardinality({<<p, fd>>}), Cardinality({}))
  <2>1. [i EXCEPT !.open_cnt = i.open_cnt - 1] =
          [open_cnt |-> i.open_cnt - (1 + 0), removed |-> i.removed,
           deny_write_cnt |-> i.deny_write_cnt - 0, start |-> i.start, length |-> i.length]
    BY SMT, <1>9 DEF Inode
  <2>2. 1 + 0 = 1
    BY SMT
  <2> QED
    BY <1>8, <1>10, <1>11, <2>1, <2>2 DEF Less
<1>13. /\ CountedAt(s)' /\ open_inodes'[s] \in Inode \cup {NULL} /\ s \in OpenIn
       /\ open_inodes'[s] # NULL => /\ open_inodes'[s].start = open_inodes[s].start
                                    /\ open_inodes'[s].length = open_inodes[s].length
                                    /\ open_inodes'[s].removed = open_inodes[s].removed
  <2>1. PICK A, B : A = {<<p, fd>>} /\ B = {}
    OBVIOUS
  <2>2. A \subseteq RefsTo(s) /\ B \subseteq Runners(s) /\ A # {}
    BY <1>5, <2>1
  <2>3. RefsTo(s)' = RefsTo(s) \ A /\ Runners(s)' = Runners(s) \ B
    BY <1>4, <1>7, <2>1
  <2>4. open_inodes'[s] = Less(open_inodes[s], Cardinality(A), Cardinality(B))
    BY <1>12, <2>1
  <2> QED
    BY <1>2, <1>3, <2>2, <2>3, <2>4, CountLess
<1>14. Counted'
  BY <1>2, <1>3, <1>6, <1>7, <1>10, <1>13, CountOne
<1>15. open_inodes' \in [Sector -> Inode \cup {NULL}]
  <2>1. open_inodes' = inode_close(open_inodes, s)
    BY <1>1, <1>3 DEF file_close
  <2>2. open_inodes' = [open_inodes EXCEPT ![s] = open_inodes'[s]]
    BY <1>8, <1>10, <2>1 DEF inode_close
  <2> QED
    BY <1>2, <1>13, <2>2 DEF Typed
<1>16. \A t \in Sector : open_inodes'[t] # NULL =>
         /\ t \in OpenIn
         /\ open_inodes'[t].start = open_inodes[t].start
         /\ open_inodes'[t].length = open_inodes[t].length
         /\ open_inodes'[t].removed = open_inodes[t].removed
  BY <1>10, <1>13 DEF OpenIn
<1>17. executable' \in [Process -> {g \in File : g.deny_write = TRUE} \cup {NULL}]
  BY <1>1, <1>2 DEF Typed
<1> QED
  BY <1>1, <1>4, <1>14, <1>15, <1>16, <1>17, CloseKeeps

\* The files a process holds on s are its descriptors A and its program B.
LEMMA HeldOn ==
  ASSUME Typed, NEW p \in Process, NEW s
  PROVE  \E A, B, mine, denied :
           /\ A = {h \in RefsTo(s) : h[1] = p} /\ B = Runners(s) \cap {p}
           /\ mine = {h \in Handles(p) : FilesOf(p)[h].inode = s}
           /\ denied = {h \in mine : FilesOf(p)[h].deny_write}
           /\ Cardinality(mine) = Cardinality(A) + Cardinality(B)
           /\ Cardinality(denied) = Cardinality(B)
           /\ mine = {} <=> A = {} /\ B = {}
<1>1. PICK A, B, F, G :
        /\ A = {h \in RefsTo(s) : h[1] = p} /\ B = Runners(s) \cap {p}
        /\ F = {h \in Fd : fd_table[p][h] # NULL /\ fd_table[p][h].inode = s}
        /\ G = {h \in {0} : executable[p] # NULL /\ executable[p].inode = s}
  OBVIOUS
<1>2. \A h \in Fd : fd_table[p][h] # NULL => fd_table[p][h].deny_write = FALSE
  <2>1. fd_table[p] \in [Fd -> {g \in File : g.deny_write = FALSE} \cup {NULL}]
    BY DEF Typed
  <2> QED
    BY <2>1
<1>3. executable[p] # NULL => executable[p].deny_write = TRUE
  <2>1. executable[p] \in {g \in File : g.deny_write = TRUE} \cup {NULL}
    BY DEF Typed
  <2> QED
    BY <2>1
<1>4. /\ \A h \in Fd : h \in Handles(p) <=> fd_table[p][h] # NULL
      /\ 0 \in Handles(p) <=> executable[p] # NULL
      /\ \A h \in Handles(p) : h \in Fd \/ h = 0
      /\ 0 \notin Fd
  BY Ranges DEF Handles
<1>5. \A h \in Handles(p) : FilesOf(p)[h] = IF h = 0 THEN executable[p] ELSE fd_table[p][h]
  BY DEF FilesOf
<1>6. {h \in Handles(p) : FilesOf(p)[h].inode = s} = F \cup G
  <2>1. \A h : h \in {g \in Handles(p) : FilesOf(p)[g].inode = s} <=> h \in F \/ h \in G
    <3> TAKE h
    <3>1. CASE h = 0
      BY <1>1, <1>4, <1>5, <3>1
    <3>2. CASE h # 0
      BY <1>1, <1>4, <1>5, <3>2
    <3> QED
      BY <3>1, <3>2
  <2> QED
    BY <2>1
<1>7. {h \in F \cup G : FilesOf(p)[h].deny_write} = G
  <2>1. \A h \in F : h \in Handles(p) /\ h # 0 /\ FilesOf(p)[h].deny_write = FALSE
    BY <1>1, <1>2, <1>4, <1>5
  <2>2. \A h \in G : h \in Handles(p) /\ h = 0 /\ FilesOf(p)[h].deny_write = TRUE
    BY <1>1, <1>3, <1>4, <1>5
  <2> QED
    BY <2>1, <2>2
<1>8. IsFiniteSet(F) /\ IsFiniteSet(G) /\ Cardinality(F) \in Nat /\ F \cap G = {}
  <2>1. F \in SUBSET Fd /\ G \in SUBSET {0}
    BY <1>1
  <2>2. IsFiniteSet(F) /\ IsFiniteSet(G)
    BY <2>1, Ranges, FS_Subset, FS_Singleton
  <2> QED
    BY <1>4, <2>1, <2>2, FS_CardinalityType
<1>9. Cardinality(F) = Cardinality(A) /\ (F = {} <=> A = {})
  <2> DEFINE f == [h \in F |-> <<p, h>>]
  <2>1. \A h \in Fd : <<p, h>> \in Process \X Fd /\ <<p, h>>[1] = p /\ <<p, h>>[2] = h
    BY SMT
  <2>2. \A h \in F : <<p, h>> \in A
    BY <1>1, <2>1 DEF RefsTo
  <2>3. \A x \in A : x[2] \in F /\ x = <<p, x[2]>>
    <3> TAKE x \in A
    <3>1. x \in Process \X Fd /\ x[1] = p /\ fd_table[x[1]][x[2]] # NULL /\ fd_table[x[1]][x[2]].inode = s
      BY <1>1 DEF RefsTo
    <3>2. x[2] \in Fd /\ x = <<p, x[2]>>
      BY SMT, <3>1
    <3> QED
      BY <1>1, <3>1, <3>2
  <2>4. f \in [F -> A] /\ \A g, h \in F : f[g] = f[h] => g = h
    <3>1. \A g, h \in F : <<p, g>> = <<p, h>> => g = h
      BY SMT
    <3> QED
      BY <2>2, <3>1
  <2>5. \A x \in A : \E h \in F : f[h] = x
    BY <2>3
  <2>6. f \in Bijection(F, A)
    BY <2>4, <2>5 DEF Bijection, Injection, IsInjective, Surjection
  <2>7. ExistsBijection(F, A)
    BY <2>6 DEF ExistsBijection
  <2> QED
    BY <1>8, <2>2, <2>3, <2>7, FS_Bijection
<1>10. Cardinality(G) = Cardinality(B) /\ (G = {} <=> B = {}) /\ Cardinality(G) \in Nat
  <2>1. CASE executable[p] # NULL /\ executable[p].inode = s
    <3>1. G = {0} /\ B = {p}
      BY <1>1, <2>1 DEF Runners
    <3>2. Cardinality({0}) = 1 /\ Cardinality({p}) = 1
      BY FS_Singleton
    <3>3. 1 \in Nat
      BY SMT
    <3> QED
      BY <3>1, <3>2, <3>3
  <2>2. CASE ~(executable[p] # NULL /\ executable[p].inode = s)
    <3>1. G = {} /\ B = {}
      BY <1>1, <2>2 DEF Runners
    <3>2. Cardinality({}) \in Nat
      BY FS_EmptySet, FS_CardinalityType
    <3> QED
      BY <3>1, <3>2
  <2> QED
    BY <2>1, <2>2
<1>11. Cardinality(F \cup G) = Cardinality(A) + Cardinality(B)
  <2>1. Cardinality(F \cup G) = Cardinality(F) + Cardinality(G) - Cardinality(F \cap G)
    BY <1>8, FS_Union
  <2>2. Cardinality(F \cap G) = 0
    BY <1>8, FS_EmptySet
  <2> QED
    BY SMT, <1>8, <1>9, <1>10, <2>1, <2>2
<1>12. F \cup G = {} <=> A = {} /\ B = {}
  BY <1>9, <1>10
<1> WITNESS A, B, F \cup G, G
<1> QED
  BY <1>1, <1>6, <1>7, <1>10, <1>11, <1>12

\* Two fields of an inode change.
LEMMA TwoFields ==
  ASSUME NEW i \in Inode, NEW c \in Int, NEW d \in Int
  PROVE  [i EXCEPT !.open_cnt = c, !.deny_write_cnt = d]
           = [open_cnt |-> c, removed |-> i.removed, deny_write_cnt |-> d,
              start |-> i.start, length |-> i.length]
<1>1. PICK j : j = [i EXCEPT !.open_cnt = c]
  OBVIOUS
<1>2. [i EXCEPT !.open_cnt = c, !.deny_write_cnt = d] = [j EXCEPT !.deny_write_cnt = d]
  BY <1>1
<1>3. j = [open_cnt |-> c, removed |-> i.removed, deny_write_cnt |-> i.deny_write_cnt,
           start |-> i.start, length |-> i.length]
  BY SMT, <1>1 DEF Inode
<1>4. [j EXCEPT !.deny_write_cnt = d] = [open_cnt |-> c, removed |-> i.removed,
        deny_write_cnt |-> d, start |-> i.start, length |-> i.length]
  BY SMT, <1>3 DEF Inode
<1> QED
  BY <1>2, <1>4

\* What the end of a process keeps.
LEMMA Keeps_process_exit ==
  ASSUME IInv, NEW p \in Process, process_exit(p)
  PROVE  IInv' /\ (Lost' \subseteq Lost \/ Forgets)
<1>1. /\ filesys_lock_free
      /\ open_inodes' = CloseAll(open_inodes, FilesOf(p))
      /\ releasing' \in ReleasedBy(open_inodes, open_inodes')
      /\ fd_table' = [fd_table EXCEPT ![p] = [fd \in Fd |-> NULL]]
      /\ executable' = [executable EXCEPT ![p] = NULL]
      /\ UNCHANGED <<disk, dir, free_map, free_map_file, op, writing>>
  BY DEF process_exit
<1>2. Typed /\ Counted
  BY DEF IInv
<1>3. /\ fd_table' \in [Process -> [Fd -> {g \in File : g.deny_write = FALSE} \cup {NULL}]]
      /\ \A q \in Process, h \in Fd :
           fd_table'[q][h] = IF q = p THEN NULL ELSE fd_table[q][h]
  <2> DEFINE S == {g \in File : g.deny_write = FALSE} \cup {NULL}
  <2>1. fd_table \in [Process -> [Fd -> S]] /\ NULL \in S
    BY <1>2 DEF Typed
  <2> HIDE DEF S
  <2>2. [fd \in Fd |-> NULL] \in [Fd -> S]
    BY <2>1
  <2>3. /\ fd_table' \in [Process -> [Fd -> S]]
        /\ \A q \in Process : fd_table'[q] = IF q = p THEN [fd \in Fd |-> NULL] ELSE fd_table[q]
    BY <1>1, <2>1, <2>2
  <2>4. \A h \in Fd : [fd \in Fd |-> NULL][h] = NULL
    OBVIOUS
  <2>5. \A q \in Process, h \in Fd :
           fd_table'[q][h] = IF q = p THEN NULL ELSE fd_table[q][h]
    BY <2>3, <2>4
  <2> QED
    BY <2>3, <2>5 DEF S
<1>4. /\ executable' \in [Process -> {g \in File : g.deny_write = TRUE} \cup {NULL}]
      /\ \A t : Runners(t)' = Runners(t) \ {p}
  <2>1. executable' = [executable EXCEPT ![p] = NULL]
    BY <1>1
  <2> QED
    BY <1>2, <2>1, RunnerSet
<1>5. \A t : RefsTo(t)' = RefsTo(t) \ {h \in RefsTo(t) : h[1] = p}
  <2> TAKE t
  <2>1. \A h \in Process \X Fd : h[1] \in Process /\ h[2] \in Fd
    BY SMT
  <2>2. \A h \in Process \X Fd :
          fd_table'[h[1]][h[2]] = IF h[1] = p THEN NULL ELSE fd_table[h[1]][h[2]]
    BY <1>3, <2>1
  <2>3. \A h \in Process \X Fd : h \in RefsTo(t)' <=> h \in RefsTo(t) /\ h[1] # p
    BY <2>2 DEF RefsTo
  <2>4. RefsTo(t)' \subseteq Process \X Fd /\ RefsTo(t) \subseteq Process \X Fd
    BY DEF RefsTo
  <2> QED
    BY <2>3, <2>4
<1>6. ASSUME NEW s \in Sector
      PROVE  /\ CountedAt(s)' /\ open_inodes'[s] \in Inode \cup {NULL}
             /\ open_inodes'[s] # NULL =>
                  /\ s \in OpenIn
                  /\ open_inodes'[s].start = open_inodes[s].start
                  /\ open_inodes'[s].length = open_inodes[s].length
                  /\ open_inodes'[s].removed = open_inodes[s].removed
  <2>1. PICK A, B, mine, denied :
           /\ A = {h \in RefsTo(s) : h[1] = p} /\ B = Runners(s) \cap {p}
           /\ mine = {h \in Handles(p) : FilesOf(p)[h].inode = s}
           /\ denied = {h \in mine : FilesOf(p)[h].deny_write}
           /\ Cardinality(mine) = Cardinality(A) + Cardinality(B)
           /\ Cardinality(denied) = Cardinality(B)
           /\ mine = {} <=> A = {} /\ B = {}
    BY <1>2, HeldOn
  <2>2. RefsTo(s)' = RefsTo(s) \ A /\ Runners(s)' = Runners(s) \ B
    BY <1>4, <1>5, <2>1
  <2>3. DOMAIN FilesOf(p) = Handles(p)
    BY DEF FilesOf
  <2> DEFINE i == open_inodes[s]
  <2>4. open_inodes'[s] =
          IF mine = {} THEN i
          ELSE IF i.open_cnt = Cardinality(mine) THEN NULL
               ELSE [i EXCEPT !.open_cnt = @ - Cardinality(mine),
                              !.deny_write_cnt = @ - Cardinality(denied)]
    BY <1>1, <2>1, <2>3 DEF CloseAll
  <2>5. CASE mine = {}
    <3>1. RefsTo(s)' = RefsTo(s) /\ Runners(s)' = Runners(s) /\ open_inodes'[s] = open_inodes[s]
      BY <2>1, <2>2, <2>4, <2>5
    <3> QED
      BY <1>2, <3>1 DEF Counted, CountedAt, Typed, OpenIn
  <2>6. CASE mine # {}
    <3>1. A \subseteq RefsTo(s) /\ B \subseteq Runners(s) /\ (A # {} \/ B # {})
      BY <2>1, <2>6
    <3>2. i \in Inode
      <4>1. RefsTo(s) # {} \/ Runners(s) # {}
        BY <3>1
      <4> QED
        BY <1>2, <4>1 DEF Counted, CountedAt, Typed
    <3>3. Cardinality(A) \in Nat /\ Cardinality(B) \in Nat
      <4>1. A \in SUBSET (Process \X Fd) /\ B \in SUBSET Process
        BY <3>1 DEF RefsTo, Runners
      <4> QED
        BY <4>1, RefsFinite
    <3>4. open_inodes'[s] = Less(i, Cardinality(A), Cardinality(B))
      <4> DEFINE a == Cardinality(A)
                 b == Cardinality(B)
      <4>1. open_inodes'[s] =
              IF i.open_cnt = a + b THEN NULL
              ELSE [i EXCEPT !.open_cnt = i.open_cnt - (a + b), !.deny_write_cnt = i.deny_write_cnt - b]
        BY <2>1, <2>4, <2>6
      <4> HIDE DEF i, a, b
      <4>2. [i EXCEPT !.open_cnt = i.open_cnt - (a + b), !.deny_write_cnt = i.deny_write_cnt - b]
            = [open_cnt |-> i.open_cnt - (a + b), removed |-> i.removed,
               deny_write_cnt |-> i.deny_write_cnt - b, start |-> i.start, length |-> i.length]
        <5>1. i.open_cnt - (a + b) \in Int /\ i.deny_write_cnt - b \in Int
          BY SMT, <3>2, <3>3 DEF Inode, a, b
        <5> QED
          BY <3>2, <5>1, TwoFields
      <4> QED
        BY <4>1, <4>2 DEF Less, a, b
    <3> QED
      BY <1>2, <2>2, <3>1, <3>4, CountLess
  <2> QED
    BY <2>5, <2>6
<1>7. Counted'
  BY <1>6 DEF Counted
<1>8. open_inodes' \in [Sector -> Inode \cup {NULL}]
  <2>1. open_inodes' = [s \in Sector |-> open_inodes'[s]]
    BY <1>1 DEF CloseAll
  <2> QED
    BY <1>6, <2>1
<1> QED
  BY <1>1, <1>3, <1>4, <1>6, <1>7, <1>8, CloseKeeps

-------------------------------------------------------------------------------
(***************************************************************************)
(* Reading, seeking and writing.                                           *)
(***************************************************************************)
\* A position is set, at the end of a write or at once.
LEMMA MoveKeeps ==
  ASSUME IInv, op = NULL, releasing = <<>>, writing' = NULL,
         NEW p \in Process, NEW fd \in Fd, NEW pos \in Nat,
         fd_table[p][fd] # NULL, fd_table' = [fd_table EXCEPT ![p][fd].pos = pos],
         UNCHANGED <<disk, dir, free_map, free_map_file, open_inodes, executable, op, releasing>>
  PROVE  IInv' /\ Lost' \subseteq Lost
<1>1. PICK f, g : f = fd_table[p][fd] /\ g = [f EXCEPT !.pos = pos]
  OBVIOUS
<1>2. Typed /\ Counted /\ Agree
  BY DEF IInv
<1>3. f \in File /\ f.deny_write = FALSE
  <2>1. fd_table[p] \in [Fd -> {h \in File : h.deny_write = FALSE} \cup {NULL}]
    BY <1>2 DEF Typed
  <2> QED
    BY <1>1, <2>1
<1>4. g \in File /\ g.deny_write = FALSE /\ g.inode = f.inode
  BY SMT, <1>1, <1>3 DEF File
<1>5. fd_table' = [fd_table EXCEPT ![p][fd] = g]
  BY <1>1
<1>6. /\ fd_table' \in [Process -> [Fd -> {h \in File : h.deny_write = FALSE} \cup {NULL}]]
      /\ \A s : RefsTo(s)' = IF g # NULL /\ g.inode = s THEN RefsTo(s) \cup {<<p, fd>>}
                             ELSE RefsTo(s) \ {<<p, fd>>}
  <2>1. g \in {h \in File : h.deny_write = FALSE} \cup {NULL}
    BY <1>4
  <2> QED
    BY <1>2, <1>5, <2>1, TableSet
<1>7. \A s : RefsTo(s)' = RefsTo(s)
  <2> TAKE s
  <2>1. <<p, fd>>[1] = p /\ <<p, fd>>[2] = fd /\ <<p, fd>> \in Process \X Fd
    BY SMT
  <2>2. <<p, fd>> \in RefsTo(s) <=> g.inode = s
    BY <1>1, <1>4, <2>1 DEF RefsTo
  <2>3. g # NULL
    BY <1>4, NULLAssumption
  <2> QED
    BY <1>6, <2>2, <2>3
<1>8. \A s : Runners(s)' = Runners(s)
  BY DEF Runners
<1>9. Counted'
  BY <1>2, <1>7, <1>8 DEF Counted, CountedAt
<1>10. Typed'
  BY <1>2, <1>6 DEF Typed
<1>11. OpenIn' = OpenIn
  BY DEF OpenIn
<1>12. Agree' /\ Named' = Named /\ \A s \in Files' : s \in Files /\ Data(s)' = Data(s)
  BY <1>2, <1>11, AgreeSame
<1>13. Files \subseteq Files'
  BY <1>11, <1>12 DEF Files
<1> QED
  BY <1>9, <1>10, <1>12, <1>13, CallSame

\* A transfer covers finitely many bytes.
LEMMA ChunkFinite ==
  ASSUME NEW inode, NEW size \in Int, NEW ofs \in Nat, NEW bytes,
         bytes \subseteq Chunk(inode, size, ofs)
  PROVE  Cardinality(bytes) \in Nat
<1>1. ofs + size - 1 \in Int /\ ofs \in Int
  BY SMT
<1>2. IsFiniteSet(ofs .. ofs + size - 1)
  BY <1>1, FS_Interval
<1>3. bytes \in SUBSET (ofs .. ofs + size - 1)
  BY DEF Chunk
<1> QED
  BY <1>2, <1>3, FS_Subset, FS_CardinalityType

\* A descriptor that is open leads to an open inode.
LEMMA OpenedIs ==
  ASSUME Typed, Counted, NEW p \in Process, NEW fd \in Fd, fd_table[p][fd] # NULL
  PROVE  /\ fd_table[p][fd] \in File /\ fd_table[p][fd].pos \in Nat
         /\ fd_table[p][fd].inode \in Sector /\ fd_table[p][fd].inode \in OpenIn
         /\ open_inodes[fd_table[p][fd].inode] \in Inode
<1>1. fd_table[p][fd] \in File
  <2>1. fd_table[p] \in [Fd -> {h \in File : h.deny_write = FALSE} \cup {NULL}]
    BY DEF Typed
  <2> QED
    BY <2>1
<1>2. fd_table[p][fd].inode \in Sector /\ fd_table[p][fd].pos \in Nat
  BY SMT, <1>1 DEF File
<1>3. <<p, fd>> \in RefsTo(fd_table[p][fd].inode)
  <2>1. <<p, fd>>[1] = p /\ <<p, fd>>[2] = fd /\ <<p, fd>> \in Process \X Fd
    BY SMT
  <2> QED
    BY <2>1 DEF RefsTo
<1>4. fd_table[p][fd].inode \in OpenIn
  BY <1>2, <1>3 DEF Counted, CountedAt, OpenIn
<1> QED
  BY <1>1, <1>2, <1>4, FilesAre

\* What read() keeps.
LEMMA Keeps_syscall_read ==
  ASSUME IInv, NEW p \in Process, NEW fd \in Fd, NEW size \in Transfer, syscall_read(p, fd, size)
  PROVE  IInv' /\ Lost' \subseteq Lost
<1>1. PICK f, inode, bytes, pos :
        /\ f = fd_table[p][fd] /\ inode = open_inodes[f.inode]
        /\ bytes \in BytesRead(inode, size, f.pos)
        /\ pos = f.pos + Cardinality(bytes) /\ f # NULL /\ filesys_lock_free
        /\ fd_table' = [fd_table EXCEPT ![p][fd].pos = pos]
        /\ UNCHANGED <<disk, dir, free_map, free_map_file, open_inodes, executable,
                       op, releasing, writing>>
  BY DEF syscall_read, Opened
<1>2. Typed /\ Counted
  BY DEF IInv
<1>3. f.pos \in Nat /\ size \in Nat /\ size \in Int
  <2>1. f.pos \in Nat /\ size \in Nat
    BY <1>1, <1>2, OpenedIs, DeviceAssumption
  <2> QED
    BY SMT, <2>1
<1>4. bytes \subseteq Chunk(inode, size, f.pos)
  BY <1>1 DEF BytesRead
<1>5. Cardinality(bytes) \in Nat
  BY <1>3, <1>4, ChunkFinite
<1>6. pos \in Nat
  BY SMT, <1>1, <1>3, <1>5
<1> QED
  BY <1>1, <1>6, MoveKeeps DEF filesys_lock_free

\* What seek() keeps.
LEMMA Keeps_syscall_seek ==
  ASSUME IInv, NEW p \in Process, NEW fd \in Fd, NEW pos \in Offset, syscall_seek(p, fd, pos)
  PROVE  IInv' /\ Lost' \subseteq Lost
<1>1. pos \in Nat
  BY DeviceAssumption
<1> QED
  BY <1>1, MoveKeeps DEF syscall_seek, Opened, filesys_lock_free

\* A step that leaves the files as they are and keeps the layout.
LEMMA FilesStay ==
  ASSUME IInv, UNCHANGED <<dir, open_inodes, fd_table, executable>>,
         \A s \in Named : disk'[s] = disk[s], Typed', UnderWay',
         Owned(Files, DataOf, Creating', Closing', free_map'),
         System \subseteq free_map_file', Creating' \subseteq free_map_file',
         \A s \in Named : s \in free_map_file' /\ DataOf[s] \subseteq free_map_file'
  PROVE  IInv' /\ Lost' = LostOf(Files, DataOf, Creating', Closing', free_map')
<1>1. Typed /\ Counted /\ Agree
  BY DEF IInv
<1>2. OpenIn' = OpenIn
  BY DEF OpenIn
<1>3. Agree' /\ Named' = Named /\ \A s \in Files' : s \in Files /\ Data(s)' = Data(s)
  BY <1>1, <1>2, AgreeSame
<1>4. Files' = Files
  BY <1>2, <1>3 DEF Files
<1>5. Counted'
  <2>1. \A s : RefsTo(s)' = RefsTo(s) /\ Runners(s)' = Runners(s)
    BY DEF RefsTo, Runners
  <2> QED
    BY <1>1, <2>1 DEF Counted, CountedAt
<1>6. \A s \in Files : DataOf'[s] = DataOf[s] /\ DataOf[s] = Data(s) /\ DataOf'[s] = Data(s)'
  BY <1>1, <1>3, <1>4, FilesAre, FilesAreAfter
<1>7. Owns'
  <2>1. Owned(Files, DataOf', Creating', Closing', free_map')
    BY <1>6, LayoutForget
  <2> QED
    BY <1>4, <2>1 DEF Owns
<1>8. OnDisk'
  <2>1. \A s \in Named : s \in Files
    BY DEF Files
  <2> QED
    BY <1>3, <1>6, <2>1 DEF OnDisk
<1>9. Lost' = LostOf(Files, DataOf, Creating', Closing', free_map')
  <2>1. Lost' = LostOf(Files, DataOf', Creating', Closing', free_map')
    BY <1>4, LostIsAfter
  <2> QED
    BY <1>6, <2>1 DEF LostOf
<1> QED
  BY <1>3, <1>5, <1>7, <1>8, <1>9 DEF IInv

\* A step that moves nothing in or out of the files.
LEMMA StillKeeps ==
  ASSUME IInv, UNCHANGED <<dir, free_map, free_map_file, open_inodes, fd_table, executable,
                           op, releasing>>,
         OnSectors(disk'), \A s \in Named : disk'[s] = disk[s], UnderWay'
  PROVE  IInv' /\ Lost' \subseteq Lost
<1>1. Creating' = Creating /\ Closing' = Closing
  BY DEF Creating, Closing
<1>2. Typed /\ Owns /\ OnDisk
  BY DEF IInv
<1>3. Typed'
  BY <1>2 DEF Typed
<1>4. Owned(Files, DataOf, Creating', Closing', free_map')
  BY <1>1, <1>2 DEF Owns
<1>5. /\ System \subseteq free_map_file' /\ Creating' \subseteq free_map_file'
      /\ \A s \in Named : s \in free_map_file' /\ DataOf[s] \subseteq free_map_file'
  BY <1>1, <1>2, FilesAre DEF OnDisk
<1>6. IInv' /\ Lost' = LostOf(Files, DataOf, Creating', Closing', free_map')
  BY <1>3, <1>4, <1>5, FilesStay
<1> QED
  BY <1>1, <1>2, <1>6, LostIs

\* What is known of a write under way.
LEMMA WritingIs ==
  ASSUME IInv, writing # NULL
  PROVE  /\ op = NULL /\ releasing = <<>> /\ IsWrite(writing)
         /\ fd_table[writing.p][writing.fd] # NULL
         /\ fd_table[writing.p][writing.fd].inode = writing.inode
         /\ open_inodes[writing.inode].deny_write_cnt = 0
         /\ writing.inode \in OpenIn /\ writing.inode \in Files /\ writing.inode \in Sector
         /\ open_inodes[writing.inode] \in Inode /\ Runners(writing.inode) = {}
<1>1. Typed /\ Counted
  BY DEF IInv
<1>2. /\ op = NULL /\ releasing = <<>> /\ IsWrite(writing)
      /\ fd_table[writing.p][writing.fd] # NULL
      /\ fd_table[writing.p][writing.fd].inode = writing.inode
      /\ open_inodes[writing.inode].deny_write_cnt = 0
  BY DEF IInv, UnderWay
<1>3. PICK p, fd, t : p = writing.p /\ fd = writing.fd /\ t = writing.inode
  OBVIOUS
<1>4. p \in Process /\ fd \in Fd
  BY <1>2, <1>3 DEF IsWrite
<1>5. t \in Sector /\ t \in OpenIn /\ open_inodes[t] \in Inode
  BY <1>1, <1>2, <1>3, <1>4, OpenedIs
<1>6. Runners(t) = {}
  <2>1. Cardinality(Runners(t)) = 0
    BY <1>1, <1>2, <1>3, <1>5 DEF Counted, CountedAt, OpenIn
  <2>2. Runners(t) \in SUBSET Process
    BY DEF Runners
  <2>3. IsFiniteSet(Runners(t))
    BY <2>2, RefsFinite
  <2> QED
    BY <2>1, <2>3, FS_EmptySet
<1> QED
  BY <1>2, <1>3, <1>5, <1>6 DEF Files

\* A write under way goes on with its loop.
LEMMA WriteGoesOn ==
  ASSUME NEW w, IsWrite(w), NEW l, IsLoop(l), NEW n, n = [w EXCEPT !.loop = l]
  PROVE  IsWrite(n) /\ n.p = w.p /\ n.fd = w.fd /\ n.inode = w.inode
<1>1. PICK a, b, c, d : w = [p |-> a, fd |-> b, inode |-> c, loop |-> d]
  BY DEF IsWrite
<1>2. w.p = a /\ w.fd = b /\ w.inode = c
  BY SMT, <1>1
<1>3. n = [p |-> a, fd |-> b, inode |-> c, loop |-> l]
  BY SMT, <1>1
<1>4. n.p = a /\ n.fd = b /\ n.inode = c /\ n.loop = l
  BY SMT, <1>3
<1> QED
  BY <1>2, <1>3, <1>4 DEF IsWrite

\* The variables of the loop.
LEMMA LoopIs ==
  ASSUME NEW a, NEW b, NEW c, NEW d, NEW e, NEW w,
         w = [ofs |-> a, left |-> b, buf |-> c, bounce |-> d, data |-> e]
  PROVE  /\ w.ofs = a /\ w.left = b
         /\ a \in Nat /\ b \in Int => IsLoop(w)
<1>1. w.ofs = a /\ w.left = b /\ w.buf = c /\ w.bounce = d /\ w.data = e
  OBVIOUS
<1> QED
  BY <1>1 DEF IsLoop

\* One of them is set.
LEMMA LoopSet ==
  ASSUME NEW a, NEW b, NEW c, NEW d, NEW e, NEW w, NEW x,
         w = [ofs |-> a, left |-> b, buf |-> c, bounce |-> d, data |-> e]
  PROVE  /\ [w EXCEPT !.ofs = x] = [ofs |-> x, left |-> b, buf |-> c, bounce |-> d, data |-> e]
         /\ [w EXCEPT !.left = x] = [ofs |-> a, left |-> x, buf |-> c, bounce |-> d, data |-> e]
         /\ [w EXCEPT !.bounce = x] = [ofs |-> a, left |-> b, buf |-> c, bounce |-> x, data |-> e]
         /\ [w EXCEPT !.data = x] = [ofs |-> a, left |-> b, buf |-> c, bounce |-> d, data |-> x]
<1>1. [w EXCEPT !.ofs = x] = [ofs |-> x, left |-> b, buf |-> c, bounce |-> d, data |-> e]
  BY SMT
<1>2. [w EXCEPT !.left = x] = [ofs |-> a, left |-> x, buf |-> c, bounce |-> d, data |-> e]
  BY SMT
<1>3. [w EXCEPT !.bounce = x] = [ofs |-> a, left |-> b, buf |-> c, bounce |-> x, data |-> e]
  BY SMT
<1>4. [w EXCEPT !.data = x] = [ofs |-> a, left |-> b, buf |-> c, bounce |-> d, data |-> x]
  BY SMT
<1> QED
  BY <1>1, <1>2, <1>3, <1>4

\* It has read a sector.
LEMMA LoopHasRead ==
  ASSUME NEW w, IsLoop(w), NEW x
  PROVE  IsLoop([w EXCEPT !.bounce = TRUE, !.data = x])
<1>1. PICK a, b, c, d, e :
        w = [ofs |-> a, left |-> b, buf |-> c, bounce |-> d, data |-> e]
  BY DEF IsLoop
<1>2. a \in Nat /\ b \in Int
  BY <1>1, LoopIs DEF IsLoop
<1>3. PICK t, m, n : /\ t = TRUE /\ m = [w EXCEPT !.bounce = t]
                     /\ n = [w EXCEPT !.bounce = TRUE, !.data = x]
  OBVIOUS
<1>4. n = [m EXCEPT !.data = x]
  BY <1>3
<1>5. m = [ofs |-> a, left |-> b, buf |-> c, bounce |-> t, data |-> e]
  BY <1>1, <1>3, LoopSet
<1>6. n = [ofs |-> a, left |-> b, buf |-> c, bounce |-> t, data |-> x]
  BY <1>4, <1>5, LoopSet
<1>7. IsLoop(n)
  BY <1>2, <1>6, LoopIs
<1> QED
  BY <1>3, <1>7

\* It has written k bytes.
LEMMA LoopHasWritten ==
  ASSUME NEW w, IsLoop(w), NEW k \in Nat
  PROVE  IsLoop([w EXCEPT !.ofs = @ + k, !.left = @ - k, !.data = NULL])
<1>1. PICK a, b, c, d, e :
        w = [ofs |-> a, left |-> b, buf |-> c, bounce |-> d, data |-> e]
  BY DEF IsLoop
<1>2. w.ofs = a /\ w.left = b /\ a \in Nat /\ b \in Int
  BY <1>1, LoopIs DEF IsLoop
<1>3. PICK u, v, y : u = a + k /\ v = b - k /\ y = NULL
  OBVIOUS
<1>4. u \in Nat /\ v \in Int
  BY SMT, <1>2, <1>3
<1>5. PICK m, l, n : /\ m = [w EXCEPT !.ofs = u] /\ l = [m EXCEPT !.left = v]
                     /\ n = [w EXCEPT !.ofs = u, !.left = v, !.data = y]
  OBVIOUS
<1>6. n = [l EXCEPT !.data = y]
  BY <1>5
<1>7. m = [ofs |-> u, left |-> b, buf |-> c, bounce |-> d, data |-> e]
  BY <1>1, <1>5, LoopSet
<1>8. l = [ofs |-> u, left |-> v, buf |-> c, bounce |-> d, data |-> e]
  <2>1. l = [m EXCEPT !.left = v]
    BY <1>5
  <2> QED
    BY <1>7, <2>1, LoopSet
<1>9. n = [ofs |-> u, left |-> v, buf |-> c, bounce |-> d, data |-> y]
  BY <1>6, <1>8, LoopSet
<1>10. IsLoop(n)
  BY <1>4, <1>9, LoopIs
<1> QED
  BY <1>2, <1>3, <1>5, <1>10

\* The write under way after a step of its loop.
LEMMA StillWriting ==
  ASSUME IInv, writing # NULL, NEW l, IsLoop(l), writing' = [writing EXCEPT !.loop = l],
         UNCHANGED <<open_inodes, fd_table, op, releasing>>
  PROVE  UnderWay'
<1>1. /\ op = NULL /\ releasing = <<>> /\ IsWrite(writing)
      /\ fd_table[writing.p][writing.fd] # NULL
      /\ fd_table[writing.p][writing.fd].inode = writing.inode
      /\ open_inodes[writing.inode].deny_write_cnt = 0
  BY WritingIs
<1>2. PICK w, n : w = writing /\ n = writing'
  OBVIOUS
<1>3. IsWrite(n) /\ n.p = w.p /\ n.fd = w.fd /\ n.inode = w.inode
  BY <1>1, <1>2, WriteGoesOn
<1>4. releasing' = <<>> /\ \A i, j \in 1 .. Len(releasing') : i # j => RunAt(i)' \cap RunAt(j)' = {}
  <2>1. releasing' = <<>> /\ 1 .. Len(<<>>) = {}
    BY SMT, <1>1
  <2> QED
    BY <2>1
<1> QED
  BY <1>1, <1>2, <1>3, <1>4 DEF UnderWay

\* What write() keeps when it begins.
LEMMA Keeps_syscall_write ==
  ASSUME IInv, NEW p \in Process, NEW fd \in Fd, NEW v \in Value, NEW size \in Transfer,
         syscall_write(p, fd, v, size)
  PROVE  IInv' /\ Lost' \subseteq Lost
<1>1. PICK f, t, buf, pos, w, l :
        /\ f = fd_table[p][fd] /\ t = f.inode /\ pos = f.pos /\ f # NULL
        /\ open_inodes[t].deny_write_cnt = 0 /\ w = writing' /\ l = Loop(buf, size, pos)
        /\ w = [p |-> p, fd |-> fd, inode |-> t, loop |-> l]
        /\ op = NULL /\ releasing = <<>>
        /\ UNCHANGED <<disk, dir, free_map, free_map_file, open_inodes, fd_table,
                       executable, op, releasing>>
  BY DEF syscall_write, Opened, filesys_lock_free
<1>2. Typed /\ Counted
  BY DEF IInv
<1>3. pos \in Nat /\ size \in Int
  <2>1. pos \in Nat /\ size \in Nat
    BY <1>1, <1>2, OpenedIs, DeviceAssumption
  <2> QED
    BY SMT, <2>1
<1>4. IsLoop(l)
  <2>1. l = [ofs |-> pos, left |-> size, buf |-> buf, bounce |-> FALSE, data |-> NULL]
    BY <1>1 DEF Loop
  <2>2. l.ofs = pos /\ l.left = size /\ l.buf = buf /\ l.bounce = FALSE /\ l.data = NULL
    BY SMT, <2>1
  <2> QED
    BY <1>3, <2>1, <2>2 DEF IsLoop
<1>5. w.p = p /\ w.fd = fd /\ w.inode = t /\ w.loop = l
  BY SMT, <1>1
<1>6. IsWrite(w)
  BY <1>1, <1>4, <1>5 DEF IsWrite
<1>7. releasing' = <<>> /\ \A i, j \in 1 .. Len(releasing') : i # j => RunAt(i)' \cap RunAt(j)' = {}
  <2>1. releasing' = <<>> /\ 1 .. Len(<<>>) = {}
    BY SMT, <1>1
  <2> QED
    BY <2>1
<1>8. UnderWay'
  BY <1>1, <1>5, <1>6, <1>7 DEF UnderWay
<1>9. OnSectors(disk') /\ \A s \in Named : disk'[s] = disk[s]
  BY <1>1, <1>2 DEF Typed
<1> QED
  BY <1>1, <1>8, <1>9, StillKeeps

\* What reading a sector that is written in part keeps.
LEMMA Keeps_write_reads ==
  ASSUME IInv, write_reads
  PROVE  IInv' /\ Lost' \subseteq Lost
<1>1. /\ writing # NULL
      /\ UNCHANGED <<disk, dir, free_map, free_map_file, open_inodes, fd_table, executable,
                     op, releasing>>
  BY DEF write_reads, WriteStep
<1>2. PICK w, l, x :
        /\ w = writing.loop /\ l = [w EXCEPT !.bounce = TRUE, !.data = x]
        /\ writing' = [writing EXCEPT !.loop = l]
  BY DEF write_reads, HasRead
<1>3. IsLoop(w)
  BY <1>1, <1>2, WritingIs DEF IsWrite
<1>4. IsLoop(l)
  BY <1>2, <1>3, LoopHasRead
<1>5. UnderWay'
  BY <1>1, <1>2, <1>4, StillWriting
<1>6. OnSectors(disk') /\ \A s \in Named : disk'[s] = disk[s]
  BY <1>1 DEF IInv, Typed
<1> QED
  BY <1>1, <1>5, <1>6, StillKeeps

\* The sector a round of the loop writes is one of the file's data.
LEMMA RoundWritten ==
  ASSUME NEW inode \in Inode, NEW w, IsLoop(w), Round(inode, w) # {}
  PROVE  At(inode, w) \in Run(inode.start, bytes_to_sectors(inode.length))
<1>1. PICK q \in Chunk(inode, w.left, w.ofs) : byte_to_sector(inode, q) = At(inode, w)
  BY DEF Round
<1>2. q \in w.ofs .. w.ofs + w.left - 1 /\ byte_to_sector(inode, q) # -1
  BY DEF Chunk
<1>3. q < inode.length /\ At(inode, w) = inode.start + q \div BLOCK_SECTOR_SIZE
  BY <1>1, <1>2 DEF byte_to_sector
<1>4. w.ofs \in Nat /\ w.left \in Int
  BY DEF IsLoop
<1>5. q \in Nat /\ inode.start \in Nat /\ inode.length \in Nat
  BY SMT, <1>2, <1>4 DEF Inode
<1> QED
  BY <1>3, <1>5, ByteIn

\* A step of the loop that writes changes a sector of the file's data only.
LEMMA WritesData ==
  ASSUME IInv, write_writes
  PROVE  /\ OnSectors(disk')
         /\ \A x \in Sector : x \notin Data(writing.inode) => disk'[x] = disk[x]
<1>1. PICK t, w, inode :
        /\ t = writing.inode /\ w = writing.loop /\ inode = open_inodes[t]
        /\ writing # NULL /\ Round(inode, w) # {} /\ disk' = Written(inode, w)
  BY DEF write_writes, WriteStep, Writes
<1>2. t \in OpenIn /\ inode \in Inode /\ IsLoop(w)
  BY <1>1, WritingIs DEF IsWrite
<1>3. At(inode, w) \in Data(t)
  BY <1>1, <1>2, RoundWritten DEF Data
<1>4. OnSectors(disk)
  BY DEF IInv, Typed
<1>5. OnSectors(disk') /\ \A x \in Sector : x # At(inode, w) => disk'[x] = disk[x]
  BY <1>1, <1>4 DEF Written, OnSectors
<1> QED
  BY <1>1, <1>3, <1>5

\* What writing a sector keeps.
LEMMA Keeps_write_writes ==
  ASSUME IInv, write_writes
  PROVE  IInv' /\ Lost' \subseteq Lost
<1>1. /\ writing # NULL
      /\ UNCHANGED <<dir, free_map, free_map_file, open_inodes, fd_table, executable,
                     op, releasing>>
  BY DEF write_writes, WriteStep
<1>2. PICK t, inode, w, k, l :
        /\ t = writing.inode /\ inode = open_inodes[t] /\ w = writing.loop
        /\ k = Cardinality(Round(inode, w))
        /\ l = [w EXCEPT !.ofs = @ + k, !.left = @ - k, !.data = NULL]
        /\ writing' = [writing EXCEPT !.loop = l]
  BY DEF write_writes, HasWritten
<1>3. t \in Files /\ t \in Sector /\ IsLoop(w)
  BY <1>1, <1>2, WritingIs DEF IsWrite
<1>4. k \in Nat
  <2>1. Round(inode, w) \subseteq Chunk(inode, w.left, w.ofs)
    BY DEF Round
  <2>2. w.left \in Int /\ w.ofs \in Nat
    BY <1>3 DEF IsLoop
  <2> QED
    BY <1>2, <2>1, <2>2, ChunkFinite
<1>5. IsLoop(l)
  BY <1>2, <1>3, <1>4, LoopHasWritten
<1>6. UnderWay'
  BY <1>1, <1>2, <1>5, StillWriting
<1>7. OnSectors(disk') /\ \A x \in Sector : x \notin Data(t) => disk'[x] = disk[x]
  BY <1>2, WritesData
<1>8. \A s \in Named : disk'[s] = disk[s]
  <2> TAKE s \in Named
  <2>1. Typed /\ s \in Files
    BY DEF IInv, Files
  <2>2. s \in Sector /\ DataOf[t] = Data(t)
    BY <1>3, <2>1, FilesAre
  <2>3. s \notin Data(t)
    BY <1>3, <2>1, <2>2 DEF IInv, Owns, Owned
  <2> QED
    BY <1>7, <2>2, <2>3
<1> QED
  BY <1>1, <1>6, <1>7, <1>8, StillKeeps

\* What the end of a write keeps.
LEMMA Keeps_write_ends ==
  ASSUME IInv, write_ends
  PROVE  IInv' /\ Lost' \subseteq Lost
<1>1. PICK p, fd, pos :
        /\ p = writing.p /\ fd = writing.fd /\ pos = writing.loop.ofs
        /\ writing # NULL /\ writing' = NULL
        /\ fd_table' = [fd_table EXCEPT ![p][fd].pos = pos]
        /\ UNCHANGED <<disk, dir, free_map, free_map_file, open_inodes, executable,
                       op, releasing>>
  BY DEF write_ends, WriteStep
<1>2. /\ op = NULL /\ releasing = <<>> /\ p \in Process /\ fd \in Fd /\ pos \in Nat
      /\ fd_table[p][fd] # NULL
  BY <1>1, WritingIs DEF IsWrite, IsLoop
<1> QED
  BY <1>1, <1>2, MoveKeeps

-------------------------------------------------------------------------------
(***************************************************************************)
(* Removing a file.                                                        *)
(***************************************************************************)
\* What remove() keeps.
LEMMA Keeps_syscall_remove ==
  ASSUME IInv, NEW name \in Name, syscall_remove(name)
  PROVE  IInv' /\ Lost' \subseteq Lost
<1>1. PICK s, k, new, mark :
        /\ s = EntrySector(name) /\ k = Lowest(lookup(name))
        /\ new = inode_open(open_inodes, s) /\ mark = [new EXCEPT ![s].removed = TRUE]
        /\ filesys_lock_free /\ lookup(name) # {}
        /\ open_inodes' = inode_close(mark, s)
        /\ releasing' \in ReleasedBy(mark, open_inodes')
        /\ dir' = [dir EXCEPT ![k] = NULL]
        /\ UNCHANGED <<disk, free_map, free_map_file, fd_table, executable, op, writing>>
  BY DEF syscall_remove
<1>2. Typed /\ Counted /\ Agree /\ Owns
  BY DEF IInv
<1>3. s \in Named /\ s \in Sector /\ k \in Used /\ k \in Slot /\ s = dir[k].inode_sector
  BY <1>1, <1>2, EntryIs
<1>4. /\ new \in [Sector -> Inode \cup {NULL}]
      /\ new[s] \in Inode /\ \A t \in Sector : t # s => new[t] = open_inodes[t]
      /\ new[s].start = disk[s].start /\ new[s].length = disk[s].length
      /\ new[s].removed = FALSE
      /\ IF open_inodes[s] = NULL THEN new[s].open_cnt = 1 /\ new[s].deny_write_cnt = 0
         ELSE /\ new[s].open_cnt = open_inodes[s].open_cnt + 1
              /\ new[s].deny_write_cnt = open_inodes[s].deny_write_cnt
  BY <1>1, <1>2, <1>3, InodeOpened
<1>5. /\ mark \in [Sector -> Inode \cup {NULL}] /\ mark[s] \in Inode
      /\ \A t \in Sector : t # s => mark[t] = open_inodes[t]
      /\ mark[s].start = disk[s].start /\ mark[s].length = disk[s].length
      /\ mark[s].removed = TRUE /\ mark[s].open_cnt = new[s].open_cnt
      /\ mark[s].deny_write_cnt = new[s].deny_write_cnt
  <2> DEFINE i == new[s]
             n == [i EXCEPT !.removed = TRUE]
  <2>1. mark = [new EXCEPT ![s] = n]
    BY <1>1
  <2>2. i \in Inode
    BY <1>4
  <2> HIDE DEF i
  <2>3. /\ n \in Inode /\ n.start = i.start /\ n.length = i.length /\ n.removed = TRUE
        /\ n.open_cnt = i.open_cnt /\ n.deny_write_cnt = i.deny_write_cnt
    BY <2>2 DEF Inode
  <2> HIDE DEF n
  <2>4. /\ mark \in [Sector -> Inode \cup {NULL}] /\ mark[s] = n
        /\ \A t \in Sector : t # s => mark[t] = new[t]
    BY <1>3, <1>4, <2>1, <2>3
  <2> QED
    BY <1>4, <2>3, <2>4 DEF i
<1>6. /\ open_inodes' \in [Sector -> Inode \cup {NULL}]
      /\ \A t \in Sector : t # s => open_inodes'[t] = open_inodes[t]
      /\ open_inodes[s] = NULL => open_inodes'[s] = NULL
      /\ open_inodes[s] # NULL =>
           /\ open_inodes'[s] \in Inode
           /\ open_inodes'[s].start = disk[s].start /\ open_inodes'[s].length = disk[s].length
           /\ open_inodes'[s].removed = TRUE
           /\ open_inodes'[s].open_cnt = open_inodes[s].open_cnt
           /\ open_inodes'[s].deny_write_cnt = open_inodes[s].deny_write_cnt
  <2> DEFINE i == mark[s]
             n == [i EXCEPT !.open_cnt = i.open_cnt - 1]
  <2>1. open_inodes' = [mark EXCEPT ![s] = IF i.open_cnt = 1 THEN NULL ELSE n]
    BY <1>1 DEF inode_close
  <2>2. i \in Inode
    BY <1>5
  <2>3. open_inodes[s] = NULL => i.open_cnt = 1
    BY <1>4, <1>5
  <2>4. open_inodes[s] # NULL => /\ i.open_cnt # 1 /\ i.open_cnt - 1 = open_inodes[s].open_cnt
                                 /\ i.open_cnt - 1 \in Nat \ {0}
                                 /\ i.deny_write_cnt = open_inodes[s].deny_write_cnt
    <3>1. open_inodes[s] # NULL => open_inodes[s] \in Inode
      BY <1>2, <1>3 DEF Typed
    <3> QED
      BY SMT, <1>4, <1>5, <3>1 DEF Inode
  <2>5. i.removed = TRUE /\ i.start = disk[s].start /\ i.length = disk[s].length
    BY <1>5
  <2> HIDE DEF i
  <2>6. i.open_cnt - 1 \in Nat \ {0} =>
          /\ n \in Inode /\ n.start = i.start /\ n.length = i.length /\ n.removed = i.removed
          /\ n.open_cnt = i.open_cnt - 1 /\ n.deny_write_cnt = i.deny_write_cnt
    BY SMT, <2>2 DEF Inode
  <2> HIDE DEF n
  <2>7. CASE open_inodes[s] = NULL
    <3>1. open_inodes' = [mark EXCEPT ![s] = NULL]
      BY <2>1, <2>3, <2>7
    <3> QED
      BY <1>3, <1>5, <2>7, <3>1
  <2>8. CASE open_inodes[s] # NULL
    <3>1. open_inodes' = [mark EXCEPT ![s] = n]
      BY <2>1, <2>4, <2>8
    <3>2. n \in Inode
      BY <2>4, <2>6, <2>8
    <3>3. /\ open_inodes' \in [Sector -> Inode \cup {NULL}] /\ open_inodes'[s] = n
          /\ \A t \in Sector : t # s => open_inodes'[t] = open_inodes[t]
      BY <1>3, <1>5, <3>1, <3>2
    <3> QED
      BY <2>4, <2>5, <2>6, <2>8, <3>3
  <2> QED
    BY <2>7, <2>8
<1>7. OpenIn' = OpenIn
  BY <1>3, <1>6, NULLAssumption DEF OpenIn
<1>8. /\ dir' \in [Slot -> Entry \cup {NULL}] /\ Used' = Used \ {k}
      /\ \A i \in Used' : dir'[i] = dir[i]
  <2>1. dir' \in [Slot -> Entry \cup {NULL}] /\ dir'[k] = NULL /\ \A i \in Slot : i # k => dir'[i] = dir[i]
    BY <1>1, <1>2, <1>3 DEF Typed
  <2> QED
    BY <1>3, <2>1 DEF Used
<1>9. Named' = Named \ {s}
  <2>1. \A i \in Used : i # k => dir[i].inode_sector # s
    BY <1>2, <1>3 DEF Agree
  <2>2. \A t : t \in Named' <=> \E i \in Used : i # k /\ t = dir[i].inode_sector
    BY <1>8 DEF Named
  <2>3. \A t : t \in Named <=> \E i \in Used : t = dir[i].inode_sector
    BY DEF Named
  <2> QED
    BY <1>3, <2>1, <2>2, <2>3
<1>10. Agree'
  <2>1. \A t \in Named' : t # s /\ t \in Named /\ t \in Sector
    BY <1>2, <1>9, FilesAre
  <2>2. \A t \in Named' : disk'[t] \in Extents
    BY <1>1, <1>2, <2>1 DEF Agree
  <2>3. \A t \in Named' \cap OpenIn' :
        open_inodes'[t].start = disk'[t].start /\ open_inodes'[t].length = disk'[t].length
    <3> TAKE t \in Named' \cap OpenIn'
    <3>1. t \in Named \cap OpenIn /\ t # s /\ t \in Sector
      BY <1>7, <2>1
    <3>2. open_inodes'[t] = open_inodes[t] /\ disk'[t] = disk[t]
      BY <1>1, <1>6, <3>1
    <3> QED
      BY <1>2, <3>1, <3>2 DEF Agree
  <2>4. \A i, j \in Used' : dir'[i].inode_sector = dir'[j].inode_sector => i = j
    <3>1. \A i \in Used' : i \in Used /\ dir'[i].inode_sector = dir[i].inode_sector
      BY <1>8
    <3> QED
      BY <1>2, <3>1 DEF Agree
  <2>5. \A t \in OpenIn' : open_inodes'[t].removed => t \notin Named'
    <3> TAKE t \in OpenIn'
    <3>1. CASE t = s
      BY <1>6, <1>7, <1>9, <3>1 DEF OpenIn
    <3>2. CASE t # s
      <4>1. t \in Sector
        BY DEF OpenIn
      <4> QED
        BY <1>2, <1>6, <1>7, <1>9, <3>2, <4>1 DEF Agree
    <3> QED
      BY <3>1, <3>2
  <2> QED
    BY <2>2, <2>3, <2>4, <2>5 DEF Agree
<1>11. Counted'
  <2>1. \A t : RefsTo(t)' = RefsTo(t) /\ Runners(t)' = Runners(t)
    BY <1>1 DEF RefsTo, Runners
  <2>2. CountedAt(s)'
    BY <1>2, <1>3, <1>6, <2>1, NULLAssumption DEF Counted, CountedAt
  <2> QED
    BY <1>2, <1>3, <1>6, <2>1, <2>2, CountOne
<1>12. \A t \in Files' : t \in Files /\ Data(t)' = Data(t)
  <2> TAKE t \in Files'
  <2>1. t \in Named' => t \in Named /\ disk'[t] = disk[t]
    BY <1>1, <1>9
  <2>2. t \in OpenIn' =>
           \/ /\ t \in OpenIn
              /\ open_inodes'[t].start = open_inodes[t].start
              /\ open_inodes'[t].length = open_inodes[t].length
           \/ /\ t \in Named
              /\ open_inodes'[t].start = disk[t].start
              /\ open_inodes'[t].length = disk[t].length
    BY <1>3, <1>6, <1>7 DEF OpenIn
  <2> QED
    BY <1>2, <2>1, <2>2, DataSame
<1>13. Freed(mark, open_inodes') = Files \ Files'
  <2>1. \A t \in Sector : t # s => t \notin Freed(mark, open_inodes')
    BY <1>5, <1>6 DEF Freed
  <2>2. s \in Freed(mark, open_inodes') <=> s \notin OpenIn'
    BY <1>3, <1>5, NULLAssumption DEF Freed, OpenIn
  <2>3. Freed(mark, open_inodes') \subseteq Sector
    BY DEF Freed
  <2> QED
    BY <1>3, <1>7, <1>9, <2>1, <2>2, <2>3 DEF Files
<1>14. \A t \in Files \ Files' :
        /\ mark[t].start \in Nat /\ mark[t].length \in Nat
        /\ Data(t) = Run(mark[t].start, bytes_to_sectors(mark[t].length))
  <2> TAKE t \in Files \ Files'
  <2>1. t = s
    BY <1>7, <1>9 DEF Files
  <2>2. mark[s].start \in Nat /\ mark[s].length \in Nat
    BY SMT, <1>5 DEF Inode
  <2>3. Data(s) = Run(disk[s].start, bytes_to_sectors(disk[s].length))
    BY <1>2, <1>3, DataNamed
  <2> QED
    BY <1>5, <2>1, <2>2, <2>3
<1>15. PICK Gone :
       /\ Gone = Files \ Files' /\ releasing' \in Seq(Nat \X Nat)
       /\ \A i, j \in 1 .. Len(releasing') : i # j => RunAt(i)' \cap RunAt(j)' = {}
       /\ \A x \in Closing' : \E t \in Gone : x = t \/ x \in Data(t)
       /\ \A t \in Gone : t \in Closing' /\ Data(t) \subseteq Closing'
  <2>1. PICK Gone : Gone = Files \ Files'
    OBVIOUS
  <2>2. /\ releasing' \in ReleasedBy(mark, open_inodes') /\ Freed(mark, open_inodes') = Gone
        /\ Gone \subseteq Files \ Files'
        /\ \A t \in Gone :
             /\ mark[t].start \in Nat /\ mark[t].length \in Nat
             /\ Data(t) = Run(mark[t].start, bytes_to_sectors(mark[t].length))
    BY <1>1, <1>13, <1>14, <2>1
  <2>3. /\ releasing' \in Seq(Nat \X Nat)
        /\ \A i, j \in 1 .. Len(releasing') : i # j => RunAt(i)' \cap RunAt(j)' = {}
        /\ \A x \in Closing' : \E t \in Gone : x = t \/ x \in Data(t)
        /\ \A t \in Gone : t \in Closing' /\ Data(t) \subseteq Closing'
    BY <1>2, <2>2, ClosingIs
  <2> QED
    BY <2>1, <2>3
<1>16. Typed'
  BY <1>1, <1>2, <1>6, <1>8, <1>15 DEF Typed
<1>17. Named' \subseteq Named
  BY <1>9
<1> QED
  BY <1>1, <1>10, <1>11, <1>12, <1>15, <1>16, <1>17, CallKeeps DEF filesys_lock_free

-------------------------------------------------------------------------------
(***************************************************************************)
(* Making a file, and releasing sectors.                                   *)
(***************************************************************************)
\* The fields of the call under way.
LEMMA CallIs ==
  ASSUME Typed, op # NULL
  PROVE  /\ op \in Call /\ op.name \in Name /\ op.size \in Nat /\ op.sector \in Sector
         /\ op.start \in Nat /\ op.done \in Nat /\ bytes_to_sectors(op.size) \in Nat
<1>1. op \in Call
  BY DEF Typed
<1>2. /\ op.name \in Name /\ op.size \in Nat /\ op.sector \in Sector /\ op.start \in Nat
      /\ op.done \in Nat
  BY SMT, <1>1 DEF Call
<1> QED
  BY <1>1, <1>2, SectorsOf

\* The call under way goes on to its next step.
LEMMA CallGoesOn ==
  ASSUME NEW c \in Call, NEW n, NEW step \in {"inode", "zero", "add", "undo"},
         n = [c EXCEPT !.step = step]
  PROVE  /\ n \in Call /\ n # NULL /\ n.step = step /\ n.sector = c.sector
         /\ n.size = c.size /\ n.start = c.start /\ n.done = c.done
<1>1. /\ n \in Call /\ n.step = step /\ n.sector = c.sector
      /\ n.size = c.size /\ n.start = c.start /\ n.done = c.done
  BY SMT DEF Call
<1> QED
  BY <1>1, NULLAssumption

\* It notes where the data starts that it has got.
LEMMA CallGetsData ==
  ASSUME NEW c \in Call, NEW n, NEW s \in Nat, n = [c EXCEPT !.start = s]
  PROVE  /\ n \in Call /\ n.sector = c.sector /\ n.size = c.size /\ n.start = s
         /\ n.done = c.done
BY SMT DEF Call

\* It counts the sectors it has cleared.
LEMMA CallCounts ==
  ASSUME NEW c \in Call, NEW n, NEW k \in Nat, n = [c EXCEPT !.done = k]
  PROVE  /\ n \in Call /\ n.sector = c.sector /\ n.size = c.size /\ n.start = c.start
         /\ n.done = k
BY SMT DEF Call

\* Allocated sectors were free, and the map is written.
LEMMA Allocated ==
  ASSUME Typed, NEW cnt \in Nat, NEW s \in Sector, free_map_allocate(cnt, s)
  PROVE  /\ Run(s, cnt) \cap free_map = {} /\ Run(s, cnt) \subseteq Sector
         /\ free_map' = free_map \cup Run(s, cnt) /\ free_map_file' = free_map'
         /\ free_map' \in SUBSET Sector /\ free_map_file' \in SUBSET Sector
<1>1. s \in Nat /\ Sectors \in Nat
  BY Ranges, DeviceAssumption
<1>2. Run(s, cnt) \cap free_map = {} /\ Run(s, cnt) \subseteq Sector
  <2>1. CASE cnt = 0
    <3>1. Run(s, cnt) = {}
      BY SMT, <1>1, <2>1 DEF Run
    <3> QED
      BY <3>1
  <2>2. CASE cnt # 0
    <3>1. Fits(cnt) # {} /\ s = Lowest(Fits(cnt))
      BY <2>2 DEF free_map_allocate, bitmap_scan
    <3>2. Fits(cnt) \subseteq Nat
      BY Ranges DEF Fits
    <3>3. s \in Fits(cnt)
      BY <3>1, <3>2, LowestIn
    <3>4. s + cnt <= Sectors /\ Run(s, cnt) \cap free_map = {}
      BY <3>3 DEF Fits
    <3>5. Run(s, cnt) \subseteq Sector
      BY SMT, <1>1, <3>4 DEF Run, Sector
    <3> QED
      BY <3>4, <3>5
  <2> QED
    BY <2>1, <2>2
<1>3. free_map' = free_map \cup Run(s, cnt) /\ free_map_file' = free_map'
  BY DEF free_map_allocate
<1> QED
  BY <1>2, <1>3 DEF Typed

\* With no run to release nothing is being released.
LEMMA NothingClosing ==
  ASSUME releasing = <<>>
  PROVE  Closing = {}
<1>1. DOMAIN <<>> = {}
  BY SMT
<1> QED
  BY <1>1 DEF Closing

\* The same after a step.
LEMMA NothingClosingAfter ==
  ASSUME releasing' = <<>>
  PROVE  Closing' = {} /\ \A i, j \in 1 .. Len(releasing') : i # j => RunAt(i)' \cap RunAt(j)' = {}
<1>1. DOMAIN <<>> = {} /\ 1 .. Len(<<>>) = {}
  BY SMT
<1> QED
  BY <1>1 DEF Closing

\* What create() keeps when it gets its first sector.
LEMMA Keeps_syscall_create ==
  ASSUME IInv, NEW name \in Name, NEW size \in Length, syscall_create(name, size)
  PROVE  IInv' /\ Lost' \subseteq Lost
<1>1. PICK s \in Sector :
        /\ free_map_allocate(1, s) /\ filesys_lock_free
        /\ op' = [step |-> "data", name |-> name, size |-> size,
                  sector |-> s, start |-> 0, done |-> 0]
        /\ UNCHANGED <<disk, dir, open_inodes, fd_table, executable, releasing, writing>>
  BY DEF syscall_create
<1>2. Typed /\ Owns /\ s \in Nat /\ 1 \in Nat
  BY SMT, Ranges DEF IInv
<1>3. op = NULL /\ releasing = <<>> /\ releasing' = <<>> /\ writing' = NULL
  BY <1>1 DEF filesys_lock_free
<1>4. /\ {s} \cap free_map = {} /\ free_map' = free_map \cup {s} /\ free_map_file' = free_map'
      /\ free_map' \in SUBSET Sector /\ free_map_file' \in SUBSET Sector
  BY <1>1, <1>2, RunOne, Allocated
<1>5. op' \in Call /\ op' # NULL /\ op'.step = "data" /\ op'.sector = s /\ op'.done = 0
  <2>1. size \in Nat
    BY DeviceAssumption
  <2>2. op' \in Call /\ op'.step = "data" /\ op'.sector = s /\ op'.done = 0
    BY SMT, <1>1, <2>1 DEF Call
  <2> QED
    BY <2>2, NULLAssumption
<1>6. Creating = {} /\ Closing = {} /\ Closing' = {} /\ Creating' = {s}
  <2>1. "data" \notin {"inode", "zero", "add"}
    OBVIOUS
  <2> QED
    BY <1>3, <1>5, <2>1, NothingClosing, NothingClosingAfter DEF Creating
<1>7. Typed'
  BY <1>1, <1>2, <1>4, <1>5 DEF Typed
<1>8. UnderWay'
  <2>1. op'.step \notin {"inode", "zero", "add"} /\ op'.step \notin {"zero", "add"}
        /\ op'.step # "zero"
    BY <1>5
  <2> QED
    BY <1>3, <1>5, <2>1, NothingClosingAfter DEF UnderWay
<1>9. /\ Owned(Files, DataOf, {} \cup {s}, {}, free_map \cup {s})
      /\ LostOf(Files, DataOf, {} \cup {s}, {}, free_map \cup {s})
           \subseteq LostOf(Files, DataOf, {}, {}, free_map)
  <2>1. Owned(Files, DataOf, {}, {}, free_map)
    BY <1>2, <1>6 DEF Owns
  <2> QED
    BY <1>4, <2>1, LayoutAllocate
<1>10. {} \cup {s} = {s}
  OBVIOUS
<1>11. /\ Owned(Files, DataOf, Creating', Closing', free_map')
       /\ LostOf(Files, DataOf, Creating', Closing', free_map') \subseteq Lost
  BY <1>2, <1>4, <1>6, <1>9, <1>10, LostIs
<1>12. /\ System \subseteq free_map_file' /\ Creating' \subseteq free_map_file'
       /\ \A t \in Named : t \in free_map_file' /\ DataOf[t] \subseteq free_map_file'
  <2>1. Owned(Files, DataOf, Creating', Closing', free_map')
    BY <1>11
  <2>2. /\ System \subseteq free_map' /\ Creating' \subseteq free_map'
        /\ \A t \in Files : t \in free_map' /\ DataOf[t] \subseteq free_map'
    BY <2>1 DEF Owned
  <2> QED
    BY <1>4, <2>2 DEF Files
<1>13. \A t \in Named : disk'[t] = disk[t]
  BY <1>1
<1> QED
  BY <1>1, <1>7, <1>8, <1>11, <1>12, <1>13, FilesStay

\* What is known of a file that is being made.
LEMMA MakingIs ==
  ASSUME IInv, op # NULL
  PROVE  /\ releasing = <<>> /\ writing = NULL /\ Closing = {} /\ op.sector \in Creating
         /\ op.sector \notin Files /\ op.sector \in free_map
         /\ \A s \in Files : s \notin Creating
         /\ Creating = IF op.step \in {"inode", "zero", "add"}
                       THEN {op.sector} \cup Run(op.start, bytes_to_sectors(op.size))
                       ELSE {op.sector}
<1>1. releasing = <<>> /\ writing = NULL
  BY DEF IInv, UnderWay
<1>2. Creating = IF op.step \in {"inode", "zero", "add"}
                 THEN {op.sector} \cup Run(op.start, bytes_to_sectors(op.size))
                 ELSE {op.sector}
  BY DEF Creating, Extent
<1>3. op.sector \in Creating
  BY <1>2
<1>4. Creating \subseteq free_map /\ \A s \in Files : s \notin Creating
  BY DEF IInv, Owns, Owned
<1> QED
  BY <1>1, <1>2, <1>3, <1>4, NothingClosing

\* What getting the sectors of the data keeps, and failing to get them.
LEMMA Keeps_create_data ==
  ASSUME IInv, create_data
  PROVE  IInv' /\ Lost' \subseteq Lost
<1>1. /\ op # NULL /\ op.step = "data"
      /\ UNCHANGED <<open_inodes, fd_table, executable, releasing, writing, disk, dir>>
  BY DEF create_data, CreateStep
<1>2. Typed /\ Owns
  BY DEF IInv
<1>3. PICK c, cnt : c = op.sector /\ cnt = bytes_to_sectors(op.size)
  OBVIOUS
<1>4. /\ op \in Call /\ op.size \in Nat /\ c \in Sector /\ cnt \in Nat /\ op.done = 0
  <2>1. op.done = 0
    BY <1>1 DEF IInv, UnderWay
  <2> QED
    BY <1>1, <1>2, <1>3, <2>1, CallIs
<1>5. /\ "data" \notin {"inode", "zero", "add"} /\ "undo" \notin {"inode", "zero", "add"}
      /\ "inode" \in {"inode", "zero", "add"} /\ "inode" \notin {"zero", "add"}
  OBVIOUS
<1>6. /\ releasing = <<>> /\ Closing = {} /\ Creating = {c} /\ c \notin Files /\ c \in free_map
      /\ writing' = NULL
  BY <1>1, <1>3, <1>5, MakingIs
<1>7. releasing' = <<>> /\ Closing' = {}
      /\ \A i, j \in 1 .. Len(releasing') : i # j => RunAt(i)' \cap RunAt(j)' = {}
  BY <1>1, <1>6, NothingClosingAfter
<1>8. Owned(Files, DataOf, {c}, {}, free_map) /\ Lost = LostOf(Files, DataOf, {c}, {}, free_map)
  BY <1>2, <1>6, LostIs DEF Owns
<1>9. CASE \E s \in Sector :
             /\ free_map_allocate(cnt, s)
             /\ op' = [op EXCEPT !.start = s, !.step = "inode"]
  <2>1. PICK s \in Sector :
             /\ free_map_allocate(cnt, s)
             /\ op' = [op EXCEPT !.start = s, !.step = "inode"]
    BY <1>9
  <2>2. s \in Nat
    BY Ranges
  <2>3. PICK N : N = Run(s, cnt)
    OBVIOUS
  <2>4. /\ N \cap free_map = {} /\ free_map' = free_map \cup N /\ free_map_file' = free_map'
        /\ free_map' \in SUBSET Sector /\ free_map_file' \in SUBSET Sector
    BY <1>2, <1>4, <2>1, <2>3, Allocated
  <2>5. /\ op' \in Call /\ op' # NULL /\ op'.step = "inode" /\ op'.sector = c
        /\ op'.size = op.size /\ op'.start = s /\ op'.done = 0
    <3>1. PICK o, n : o = op /\ n = op'
      OBVIOUS
    <3>2. o \in Call /\ n = [o EXCEPT !.start = s, !.step = "inode"]
      BY <1>4, <2>1, <3>1
    <3>3. PICK j : j = [o EXCEPT !.start = s]
      OBVIOUS
    <3>4. n = [j EXCEPT !.step = "inode"]
      BY <3>2, <3>3
    <3>5. j \in Call /\ j.sector = o.sector /\ j.size = o.size /\ j.start = s /\ j.done = o.done
      BY <2>2, <3>2, <3>3, CallGetsData
    <3>6. /\ n \in Call /\ n # NULL /\ n.step = "inode" /\ n.sector = j.sector
          /\ n.size = j.size /\ n.start = j.start /\ n.done = j.done
      BY <3>4, <3>5, CallGoesOn
    <3> QED
      BY <1>3, <1>4, <3>1, <3>5, <3>6
  <2>6. Creating' = {c} \cup N
    BY <1>3, <1>5, <2>3, <2>5 DEF Creating, Extent
  <2>7. Typed'
    BY <1>1, <1>2, <2>4, <2>5 DEF Typed
  <2>8. UnderWay'
    <3>1. c \notin N
      BY <1>6, <2>4
    <3>2. op'.sector \notin Run(op'.start, bytes_to_sectors(op'.size))
      BY <1>3, <2>3, <2>5, <3>1
    <3>3. op'.step \notin {"zero", "add"} /\ op'.step # "zero"
      BY <2>5
    <3> QED
      BY <1>6, <1>7, <2>5, <3>2, <3>3 DEF UnderWay
  <2>9. /\ Owned(Files, DataOf, Creating', Closing', free_map')
        /\ LostOf(Files, DataOf, Creating', Closing', free_map') \subseteq Lost
    <3>1. /\ Owned(Files, DataOf, {c} \cup N, {}, free_map \cup N)
          /\ LostOf(Files, DataOf, {c} \cup N, {}, free_map \cup N)
               \subseteq LostOf(Files, DataOf, {c}, {}, free_map)
      BY <1>8, <2>4, LayoutAllocate
    <3> QED
      BY <1>7, <1>8, <2>4, <2>6, <3>1
  <2>10. /\ System \subseteq free_map_file' /\ Creating' \subseteq free_map_file'
         /\ \A t \in Named : t \in free_map_file' /\ DataOf[t] \subseteq free_map_file'
    <3>1. /\ System \subseteq free_map' /\ Creating' \subseteq free_map'
          /\ \A t \in Files : t \in free_map' /\ DataOf[t] \subseteq free_map'
      BY <2>9 DEF Owned
    <3> QED
      BY <2>4, <3>1 DEF Files
  <2>11. \A t \in Named : disk'[t] = disk[t]
    BY <1>1
  <2> QED
    BY <1>1, <2>7, <2>8, <2>9, <2>10, <2>11, FilesStay
<1>10. CASE AllocationFails /\ op' = [op EXCEPT !.step = "undo"]
  <2>1. op' \in Call /\ op' # NULL /\ op'.step = "undo" /\ op'.sector = c
    <3>1. PICK o, n : o = op /\ n = op'
      OBVIOUS
    <3>2. o \in Call /\ n = [o EXCEPT !.step = "undo"]
      BY <1>4, <1>10, <3>1
    <3>3. n \in Call /\ n # NULL /\ n.step = "undo" /\ n.sector = o.sector
      BY <3>2, CallGoesOn
    <3> QED
      BY <1>3, <3>1, <3>3
  <2>2. free_map' = free_map /\ free_map_file' = free_map_file
    BY <1>10 DEF AllocationFails
  <2>3. Creating' = {c}
    BY <1>5, <2>1 DEF Creating
  <2>4. Typed'
    BY <1>1, <1>2, <2>1, <2>2 DEF Typed
  <2>5. UnderWay'
    <3>1. op'.step \notin {"inode", "zero", "add"} /\ op'.step \notin {"zero", "add"}
          /\ op'.step # "zero" /\ op'.step \notin {"data", "inode"}
      BY <2>1
    <3> QED
      BY <1>6, <1>7, <3>1 DEF UnderWay
  <2>6. /\ Owned(Files, DataOf, Creating', Closing', free_map')
        /\ LostOf(Files, DataOf, Creating', Closing', free_map') = Lost
    BY <1>7, <1>8, <2>2, <2>3
  <2>7. /\ System \subseteq free_map_file' /\ Creating' \subseteq free_map_file'
        /\ \A t \in Named : t \in free_map_file' /\ DataOf[t] \subseteq free_map_file'
    BY <1>2, <1>6, <2>2, <2>3, FilesAre DEF IInv, OnDisk
  <2>8. \A t \in Named : disk'[t] = disk[t]
    BY <1>1
  <2> QED
    BY <1>1, <2>4, <2>5, <2>6, <2>7, <2>8, FilesStay
<1> QED
  BY <1>3, <1>9, <1>10 DEF create_data

\* A step of inode_create() that writes a sector of the new file.
LEMMA MakingKeeps ==
  ASSUME IInv, op # NULL, op.step \in {"inode", "zero", "add"},
         UNCHANGED <<open_inodes, fd_table, executable, releasing, dir, free_map, free_map_file>>,
         op' \in Call, op'.step \in {"inode", "zero", "add"},
         op'.sector = op.sector, op'.start = op.start, op'.size = op.size, UnderWay',
         NEW x \in Creating, NEW v, disk' = [disk EXCEPT ![x] = v]
  PROVE  IInv' /\ Lost' \subseteq Lost
<1>1. Typed /\ Owns
  BY DEF IInv
<1>2. op' # NULL
  BY NULLAssumption
<1>3. Creating' = Creating
  BY <1>2 DEF Creating
<1>4. Closing' = Closing
  BY DEF Closing
<1>5. OnSectors(disk') /\ \A s \in Sector : s # x => disk'[s] = disk[s]
  BY <1>1 DEF Typed, OnSectors
<1>6. Typed'
  BY <1>1, <1>5 DEF Typed
<1>7. /\ Owned(Files, DataOf, Creating', Closing', free_map')
      /\ LostOf(Files, DataOf, Creating', Closing', free_map') = Lost
  BY <1>1, <1>3, <1>4, LostIs DEF Owns
<1>8. /\ System \subseteq free_map_file' /\ Creating' \subseteq free_map_file'
      /\ \A t \in Named : t \in free_map_file' /\ DataOf[t] \subseteq free_map_file'
  BY <1>1, <1>3, FilesAre DEF IInv, OnDisk
<1>9. \A t \in Named : disk'[t] = disk[t]
  <2> TAKE t \in Named
  <2>1. t \in Sector /\ t \in Files
    BY <1>1, FilesAre DEF Files
  <2>2. t # x
    BY <2>1, MakingIs
  <2> QED
    BY <1>5, <2>1, <2>2
<1> QED
  BY <1>6, <1>7, <1>8, <1>9, FilesStay

\* What writing the inode keeps.
LEMMA Keeps_create_inode ==
  ASSUME IInv, create_inode
  PROVE  IInv' /\ Lost' \subseteq Lost
<1>1. PICK c, cnt, next, v :
        /\ c = op.sector /\ cnt = bytes_to_sectors(op.size) /\ op # NULL /\ op.step = "inode"
        /\ v = [start |-> op.start, length |-> op.size] /\ disk' = [disk EXCEPT ![c] = v]
        /\ next = (IF cnt = 0 THEN "add" ELSE "zero") /\ op' = [op EXCEPT !.step = next]
        /\ UNCHANGED <<open_inodes, fd_table, executable, releasing, writing, dir,
                       free_map, free_map_file>>
  BY DEF create_inode, CreateStep
<1>2. Typed /\ UnderWay
  BY DEF IInv
<1>3. op \in Call /\ c \in Sector /\ cnt \in Nat
  BY <1>1, <1>2, CallIs
<1>4. "inode" \in {"inode", "zero", "add"} /\ next \in {"inode", "zero", "add"}
      /\ next \in {"inode", "zero", "add", "undo"} /\ next \notin {"data", "inode"}
  BY <1>1
<1>5. releasing = <<>> /\ writing = NULL /\ c \in Creating
  BY <1>1, MakingIs
<1>6. c \notin Run(op.start, bytes_to_sectors(op.size))
  BY <1>1, <1>2, <1>4 DEF UnderWay
<1>7. /\ op' \in Call /\ op' # NULL /\ op'.step = next /\ op'.sector = c
      /\ op'.size = op.size /\ op'.start = op.start /\ op'.done = op.done
  <2>1. PICK o, n : o = op /\ n = op'
    OBVIOUS
  <2>2. o \in Call /\ n = [o EXCEPT !.step = next]
    BY <1>1, <1>3, <2>1
  <2>3. /\ n \in Call /\ n # NULL /\ n.step = next /\ n.sector = o.sector
        /\ n.size = o.size /\ n.start = o.start /\ n.done = o.done
    BY <1>4, <2>2, CallGoesOn
  <2> QED
    BY <1>1, <2>1, <2>3
<1>8. UnderWay'
  <2>1. disk'[op'.sector] = [start |-> op'.start, length |-> op'.size]
    BY <1>1, <1>2, <1>3, <1>7 DEF Typed, OnSectors
  <2>2. op'.sector \notin Run(op'.start, bytes_to_sectors(op'.size))
    BY <1>6, <1>7
  <2>3. op'.step = "zero" => op'.done < bytes_to_sectors(op'.size)
    <3>1. op.done = 0
      BY <1>1, <1>2 DEF UnderWay
    <3>2. next = "zero" => 0 < cnt
      BY SMT, <1>1, <1>3
    <3> QED
      BY <1>1, <1>7, <3>1, <3>2
  <2>4. releasing' = <<>> /\ \A i, j \in 1 .. Len(releasing') : i # j => RunAt(i)' \cap RunAt(j)' = {}
    BY <1>1, <1>5, NothingClosingAfter
  <2>5. writing' = NULL
    BY <1>1, <1>5
  <2> QED
    BY <1>4, <1>7, <2>1, <2>2, <2>3, <2>4, <2>5 DEF UnderWay
<1>9. op.step \in {"inode", "zero", "add"} /\ op'.step \in {"inode", "zero", "add"}
  BY <1>1, <1>4, <1>7
<1> QED
  BY <1>1, <1>5, <1>7, <1>8, <1>9, MakingKeeps

\* What clearing a sector of the data keeps.
LEMMA Keeps_create_zero ==
  ASSUME IInv, create_zero
  PROVE  IInv' /\ Lost' \subseteq Lost
<1>1. PICK c, cnt, k, x, v :
        /\ c = op.sector /\ cnt = bytes_to_sectors(op.size)
        /\ k = op.done + 1 /\ x = op.start + op.done /\ v = [data |-> [b \in Byte |-> Zero]]
  OBVIOUS
<1>2. PICK next : next = IF k = cnt THEN "add" ELSE "zero"
  OBVIOUS
<1>3. /\ op # NULL /\ op.step = "zero" /\ disk' = [disk EXCEPT ![x] = v]
      /\ op' = [op EXCEPT !.done = k, !.step = next]
      /\ UNCHANGED <<open_inodes, fd_table, executable, releasing, writing, dir,
                     free_map, free_map_file>>
  BY <1>1, <1>2 DEF create_zero, CreateStep
<1>4. Typed /\ UnderWay
  BY DEF IInv
<1>5. /\ op \in Call /\ c \in Sector /\ cnt \in Nat /\ op.start \in Nat /\ op.done \in Nat
  BY <1>1, <1>2, <1>3, <1>4, CallIs
<1>6. /\ "zero" \in {"inode", "zero", "add"} /\ next \in {"inode", "zero", "add"}
      /\ "zero" \in {"zero", "add"} /\ next \in {"inode", "zero", "add", "undo"}
      /\ next \notin {"data", "inode"}
  BY <1>1, <1>2, <1>3
<1>7. /\ releasing = <<>> /\ writing = NULL
      /\ Creating = {c} \cup Run(op.start, cnt)
  BY <1>1, <1>2, <1>3, <1>6, MakingIs
<1>8. /\ c \notin Run(op.start, cnt) /\ op.done < cnt
      /\ disk[c] = [start |-> op.start, length |-> op.size]
  BY <1>1, <1>2, <1>3, <1>4, <1>6 DEF UnderWay
<1>9. x \in Run(op.start, cnt) /\ k \in Nat /\ (k # cnt => k < cnt)
  BY SMT, <1>1, <1>2, <1>3, <1>5, <1>8 DEF Run
<1>10. /\ op' \in Call /\ op' # NULL /\ op'.step = next /\ op'.sector = c
      /\ op'.size = op.size /\ op'.start = op.start /\ op'.done = k
  <2>1. PICK o, n : o = op /\ n = op'
    OBVIOUS
  <2>2. o \in Call /\ n = [o EXCEPT !.done = k, !.step = next]
    BY <1>1, <1>2, <1>3, <1>5, <2>1
  <2>3. PICK j : j = [o EXCEPT !.done = k]
    OBVIOUS
  <2>4. n = [j EXCEPT !.step = next]
    BY <2>2, <2>3
  <2>5. /\ j \in Call /\ j.sector = o.sector /\ j.size = o.size /\ j.start = o.start
        /\ j.done = k
    BY <1>9, <2>2, <2>3, CallCounts
  <2>6. /\ n \in Call /\ n # NULL /\ n.step = next /\ n.sector = j.sector
        /\ n.size = j.size /\ n.start = j.start /\ n.done = j.done
    <3>1. j \in Call
      BY <2>5
    <3>2. next \in {"inode", "zero", "add", "undo"}
      BY <1>6
    <3> QED
      BY <2>4, <3>1, <3>2, CallGoesOn
  <2> QED
    BY <1>1, <1>2, <1>3, <2>1, <2>5, <2>6
<1>11. UnderWay'
  <2>1. disk'[c] = disk[c]
    <3>1. c # x
      BY <1>8, <1>9
    <3> QED
      BY <1>1, <1>2, <1>3, <1>4, <1>5, <3>1 DEF Typed, OnSectors
  <2>2. /\ disk'[op'.sector] = [start |-> op'.start, length |-> op'.size]
        /\ op'.sector \notin Run(op'.start, bytes_to_sectors(op'.size))
    BY <1>1, <1>2, <1>3, <1>8, <1>10, <2>1
  <2>3. op'.step = "zero" => op'.done < bytes_to_sectors(op'.size)
    <3>1. next = "zero" => k < cnt
      BY <1>1, <1>2, <1>3, <1>9
    <3>2. bytes_to_sectors(op'.size) = cnt
      BY <1>1, <1>2, <1>3, <1>10
    <3> QED
      BY <1>10, <3>1, <3>2
  <2>4. releasing' = <<>> /\ \A i, j \in 1 .. Len(releasing') : i # j => RunAt(i)' \cap RunAt(j)' = {}
    BY <1>1, <1>2, <1>3, <1>7, NothingClosingAfter
  <2>5. writing' = NULL
    BY <1>1, <1>2, <1>3, <1>7
  <2> QED
    BY <1>6, <1>10, <2>2, <2>3, <2>4, <2>5 DEF UnderWay
<1>12. op.step \in {"inode", "zero", "add"} /\ op'.step \in {"inode", "zero", "add"}
  BY <1>1, <1>2, <1>3, <1>6, <1>10
<1>13. x \in Creating
  BY <1>7, <1>9
<1> QED
  BY <1>1, <1>2, <1>3, <1>10, <1>11, <1>12, <1>13, MakingKeeps

\* What writing the directory entry keeps: now the file has a name.  Sectors
\* get lost only when the entry is written over another.
LEMMA Keeps_dir_add ==
  ASSUME IInv, create_add, dir_add(op.name, op.sector), op' = NULL
  PROVE  IInv' /\ (Lost' \subseteq Lost \/ \E i \in Used : dir'[i] # dir[i])
<1>1. PICK c, k, e, N, S :
        /\ c = op.sector /\ S \subseteq Slot /\ k = Lowest(S) /\ S # {}
        /\ e = [name |-> op.name, inode_sector |-> c]
        /\ N = Run(op.start, bytes_to_sectors(op.size))
        /\ op # NULL /\ op.step = "add"
        /\ dir' = [dir EXCEPT ![k] = e]
        /\ UNCHANGED <<open_inodes, fd_table, executable, releasing, writing, disk,
                       free_map, free_map_file>>
  <2>1. PICK n : LET slots == {i \in Slot : i \notin Used \/ i > n}
                 IN  /\ slots # {}
                     /\ dir' = [dir EXCEPT ![Lowest(slots)] =
                                  [name |-> op.name, inode_sector |-> op.sector]]
    BY DEF dir_add
  <2>2. PICK S : S = {i \in Slot : i \notin Used \/ i > n}
    OBVIOUS
  <2>3. S \subseteq Slot /\ S # {}
    BY <2>1, <2>2
  <2>4. dir' = [dir EXCEPT ![Lowest(S)] = [name |-> op.name, inode_sector |-> op.sector]]
    BY <2>1, <2>2
  <2> QED
    BY <2>3, <2>4 DEF create_add, CreateStep
<1>2. Typed /\ Counted /\ Agree /\ UnderWay /\ Owns /\ OnDisk
  BY DEF IInv
<1>3. op.name \in Name /\ c \in Sector /\ op.start \in Nat /\ op.size \in Nat
  BY <1>1, <1>2, CallIs
<1>4. "add" \in {"zero", "add"} /\ "add" \in {"inode", "zero", "add"}
  OBVIOUS
<1>5. /\ releasing = <<>> /\ Closing = {} /\ Creating = {c} \cup N /\ c \notin Files
      /\ writing = NULL
  BY <1>1, <1>4, MakingIs
<1>6. disk[c] = [start |-> op.start, length |-> op.size] /\ c \notin N
  BY <1>1, <1>2, <1>4 DEF UnderWay
<1>7. disk[c] \in Extents /\ disk[c].start = op.start /\ disk[c].length = op.size
  <2>1. PICK d, start, length : d = disk[c] /\ start = op.start /\ length = op.size
    OBVIOUS
  <2>2. start \in Nat /\ length \in Nat /\ d = [start |-> start, length |-> length]
    BY <1>3, <1>6, <2>1
  <2>3. d \in Extents /\ d.start = start /\ d.length = length
    BY SMT, <2>2 DEF Extents
  <2> QED
    BY <2>1, <2>3
<1>8. k \in Slot
  <2>1. S \subseteq Nat
    BY <1>1, Ranges
  <2> QED
    BY <1>1, <2>1, LowestIn
<1>9. e \in Entry /\ e # NULL /\ e.inode_sector = c
  <2>1. e \in Entry /\ e.inode_sector = c
    BY <1>1, <1>3 DEF Entry
  <2> QED
    BY <2>1, NULLAssumption
<1>10. /\ dir' \in [Slot -> Entry \cup {NULL}] /\ dir'[k] = e
       /\ \A i \in Slot : i # k => dir'[i] = dir[i]
  BY <1>1, <1>2, <1>8, <1>9 DEF Typed
<1>11. Used' = Used \cup {k}
  BY <1>8, <1>9, <1>10 DEF Used
<1>12. \A i \in Used : /\ i \in Slot /\ (i # k => dir'[i] = dir[i])
                       /\ dir[i].inode_sector \in Named
  BY <1>2, <1>10, FilesAre
<1>13. /\ c \in Named' /\ \A t \in Named' : t = c \/ t \in Named
       /\ k \notin Used => Named \subseteq Named'
  <2>1. \A t : t \in Named' <=> \E i \in Used \cup {k} : t = dir'[i].inode_sector
    BY <1>11 DEF Named
  <2>2. \A t : t \in Named <=> \E i \in Used : t = dir[i].inode_sector
    BY DEF Named
  <2>3. dir'[k].inode_sector = c
    BY <1>9, <1>10
  <2> QED
    BY <1>12, <2>1, <2>2, <2>3
<1>14. /\ OpenIn' = OpenIn /\ c \notin OpenIn /\ c \notin Named
       /\ Files' \subseteq Files \cup {c} /\ c \in Files'
       /\ k \notin Used => Files' = Files \cup {c}
  BY <1>1, <1>5, <1>13 DEF OpenIn, Files
<1>15. \A t : Data(t)' = Data(t)
  BY <1>1, <1>14 DEF Data
<1>16. Data(c) = N
  BY <1>1, <1>7, <1>14 DEF Data
<1>17. Typed'
  BY <1>1, <1>2, <1>10 DEF Typed
<1>18. Counted'
  <2>1. \A s : RefsTo(s)' = RefsTo(s) /\ Runners(s)' = Runners(s)
    BY <1>1 DEF RefsTo, Runners
  <2> QED
    BY <1>1, <1>2, <2>1 DEF Counted, CountedAt
<1>19. Agree'
  <2>1. \A s \in Named' : disk'[s] \in Extents
    BY <1>1, <1>2, <1>7, <1>13 DEF Agree
  <2>2. \A s \in Named' \cap OpenIn' :
        open_inodes'[s].start = disk'[s].start /\ open_inodes'[s].length = disk'[s].length
    <3> TAKE s \in Named' \cap OpenIn'
    <3>1. s \in Named \cap OpenIn
      BY <1>13, <1>14
    <3> QED
      BY <1>1, <1>2, <3>1 DEF Agree
  <2>3. \A i, j \in Used' : dir'[i].inode_sector = dir'[j].inode_sector => i = j
    <3> TAKE i, j \in Used'
    <3>1. \A h \in Used' : h # k => /\ h \in Used /\ dir'[h].inode_sector = dir[h].inode_sector
                                    /\ dir'[h].inode_sector # c
      BY <1>11, <1>12, <1>14
    <3>2. dir'[k].inode_sector = c
      BY <1>9, <1>10
    <3>3. CASE i = k \/ j = k
      BY <3>1, <3>2, <3>3
    <3>4. CASE i # k /\ j # k
      BY <1>2, <3>1, <3>4 DEF Agree
    <3> QED
      BY <3>3, <3>4
  <2>4. \A s \in OpenIn' : open_inodes'[s].removed => s \notin Named'
    <3> TAKE s \in OpenIn'
    <3>1. s \in OpenIn /\ s # c
      BY <1>14
    <3>2. open_inodes[s].removed => s \notin Named
      BY <1>2, <3>1 DEF Agree
    <3> QED
      BY <1>1, <1>13, <3>1, <3>2
  <2> QED
    BY <2>1, <2>2, <2>3, <2>4 DEF Agree
<1>20. /\ releasing' = <<>> /\ Closing' = {} /\ Creating' = {}
       /\ \A i, j \in 1 .. Len(releasing') : i # j => RunAt(i)' \cap RunAt(j)' = {}
  BY <1>1, <1>5, NothingClosingAfter DEF Creating
<1>21. UnderWay'
  BY <1>1, <1>5, <1>20 DEF UnderWay
<1>22. /\ Owned(Files \cup {c}, DataOf', {}, {}, free_map)
       /\ LostOf(Files \cup {c}, DataOf', {}, {}, free_map) \subseteq Lost
  <2>1. Owned(Files, DataOf, Creating, {}, free_map)
    BY <1>2, <1>5 DEF Owns
  <2>2. DataOf' = DataOf
    BY <1>15 DEF DataOf
  <2>3. DataOf'[c] = N
    BY <1>3, <1>15, <1>16 DEF DataOf
  <2>4. \A s \in Files : DataOf'[s] = DataOf[s]
    BY <2>2
  <2>5. /\ Creating = {c} \cup DataOf'[c] /\ c \notin DataOf'[c] /\ Creating \cap {} = {}
    BY <1>5, <1>6, <2>3
  <2>6. /\ Owned(Files \cup {c}, DataOf', {}, {}, free_map)
        /\ LostOf(Files \cup {c}, DataOf', {}, {}, free_map)
             \subseteq LostOf(Files, DataOf, Creating, {}, free_map)
    BY <2>1, <2>4, <2>5, LayoutName
  <2> QED
    BY <1>2, <1>5, <2>6, LostIs
<1>23. Owns'
  <2>1. Owned(Files', DataOf', {}, {}, free_map)
    <3>1. /\ System \subseteq free_map
          /\ \A s \in Files \cup {c} : s \in free_map /\ DataOf'[s] \subseteq free_map
      BY <1>22 DEF Owned
    <3> QED
      BY <1>14, <1>22, <3>1, LayoutRestart
  <2> QED
    BY <1>1, <1>20, <2>1 DEF Owns
<1>24. OnDisk'
  <2>1. c \in free_map_file /\ Data(c) \subseteq free_map_file
    BY <1>2, <1>5, <1>16 DEF OnDisk
  <2> QED
    BY <1>1, <1>2, <1>13, <1>15, <1>20, <2>1 DEF OnDisk
<1>25. CASE k \notin Used
  <2>1. Lost' \subseteq Lost
    BY <1>1, <1>14, <1>17, <1>20, <1>22, <1>25, LostIsAfter
  <2> QED
    BY <1>17, <1>18, <1>19, <1>21, <1>23, <1>24, <2>1 DEF IInv
<1>26. CASE k \in Used
  <2>1. dir'[k] # dir[k]
    BY <1>9, <1>10, <1>12, <1>14, <1>26
  <2> QED
    BY <1>17, <1>18, <1>19, <1>21, <1>23, <1>24, <1>26, <2>1 DEF IInv
<1> QED
  BY <1>25, <1>26

\* What a directory entry that cannot be written keeps.  The data of the
\* file is forgotten: this is where sectors get lost.
LEMMA Keeps_failed_add ==
  ASSUME IInv, create_add, UNCHANGED dir, op' = [op EXCEPT !.step = "undo"]
  PROVE  IInv'
<1>1. PICK c :
        /\ c = op.sector /\ op # NULL
        /\ UNCHANGED <<open_inodes, fd_table, executable, releasing, writing, disk,
                       free_map, free_map_file>>
  BY DEF create_add, CreateStep
<1>2. Typed /\ Owns
  BY DEF IInv
<1>3. op \in Call
  BY <1>1, <1>2, CallIs
<1>4. releasing = <<>> /\ Closing = {} /\ c \in Creating /\ writing = NULL
  BY <1>1, MakingIs
<1>5. op' \in Call /\ op' # NULL /\ op'.step = "undo" /\ op'.sector = c
  <2>1. PICK o, n : o = op /\ n = op'
    OBVIOUS
  <2>2. o \in Call /\ n = [o EXCEPT !.step = "undo"]
    BY <1>3, <2>1
  <2>3. n \in Call /\ n # NULL /\ n.step = "undo" /\ n.sector = o.sector
    BY <2>2, CallGoesOn
  <2> QED
    BY <1>1, <2>1, <2>3
<1>6. /\ op'.step \notin {"inode", "zero", "add"} /\ op'.step \notin {"zero", "add"}
      /\ op'.step # "zero" /\ op'.step \notin {"data", "inode"}
  BY <1>5
<1>7. Creating' = {c} /\ {c} \subseteq Creating
  BY <1>4, <1>5, <1>6 DEF Creating
<1>8. /\ releasing' = <<>> /\ Closing' = {}
      /\ \A i, j \in 1 .. Len(releasing') : i # j => RunAt(i)' \cap RunAt(j)' = {}
  BY <1>1, <1>4, NothingClosingAfter
<1>9. Typed'
  BY <1>1, <1>2, <1>5 DEF Typed
<1>10. UnderWay'
  BY <1>1, <1>4, <1>6, <1>8 DEF UnderWay
<1>11. Owned(Files, DataOf, Creating', Closing', free_map')
  <2>1. Owned(Files, DataOf, Creating, {}, free_map)
    BY <1>2, <1>4 DEF Owns
  <2>2. Owned(Files, DataOf, {c}, {}, free_map)
    BY <1>7, <2>1, LayoutForget
  <2> QED
    BY <1>1, <1>7, <1>8, <2>2
<1>12. /\ System \subseteq free_map_file' /\ Creating' \subseteq free_map_file'
       /\ \A t \in Named : t \in free_map_file' /\ DataOf[t] \subseteq free_map_file'
  BY <1>1, <1>2, <1>7, FilesAre DEF IInv, OnDisk
<1>13. \A t \in Named : disk'[t] = disk[t]
  BY <1>1
<1> QED
  BY <1>1, <1>9, <1>10, <1>11, <1>12, <1>13, FilesStay

\* A step that releases R, with the map written to its file or not.
LEMMA ReleaseKeeps ==
  ASSUME IInv, NEW R, UNCHANGED <<disk, dir, open_inodes, fd_table, executable>>,
         free_map' = free_map \ R, free_map_file' \in {free_map', free_map_file},
         op' = NULL, writing' = NULL, releasing' \in Seq(Nat \X Nat),
         \A i, j \in 1 .. Len(releasing') : i # j => RunAt(i)' \cap RunAt(j)' = {},
         Creating \cup Closing = R \cup Closing', Closing' \subseteq Closing,
         R \cap Closing' = {}
  PROVE  IInv' /\ Lost' \subseteq Lost
<1>1. Typed /\ Owns
  BY DEF IInv
<1>2. Creating' = {}
  BY DEF Creating
<1>3. Typed'
  BY <1>1 DEF Typed
<1>4. UnderWay'
  BY DEF UnderWay
<1>5. /\ Owned(Files, DataOf, {}, Closing', free_map \ R)
      /\ LostOf(Files, DataOf, {}, Closing', free_map \ R)
           \subseteq LostOf(Files, DataOf, Creating, Closing, free_map)
  <2>1. PICK L : L = Closing'
    OBVIOUS
  <2>2. Owned(Files, DataOf, Creating, Closing, free_map)
    BY <1>1 DEF Owns
  <2>3. /\ Creating \cup Closing = R \cup ({} \cup L) /\ {} \subseteq Creating
        /\ L \subseteq Closing /\ R \cap ({} \cup L) = {}
    BY <2>1
  <2>4. /\ Owned(Files, DataOf, {}, L, free_map \ R)
        /\ LostOf(Files, DataOf, {}, L, free_map \ R)
             \subseteq LostOf(Files, DataOf, Creating, Closing, free_map)
    BY <2>2, <2>3, LayoutRelease
  <2> QED
    BY <2>1, <2>4
<1>6. /\ Owned(Files, DataOf, Creating', Closing', free_map')
      /\ LostOf(Files, DataOf, Creating', Closing', free_map') \subseteq Lost
  BY <1>1, <1>2, <1>5, LostIs
<1>7. /\ System \subseteq free_map_file' /\ Creating' \subseteq free_map_file'
      /\ \A t \in Named : t \in free_map_file' /\ DataOf[t] \subseteq free_map_file'
  <2>1. CASE free_map_file' = free_map'
    <3>1. Owned(Files, DataOf, Creating', Closing', free_map')
      BY <1>6
    <3>2. /\ System \subseteq free_map' /\ Creating' \subseteq free_map'
          /\ \A t \in Files : t \in free_map' /\ DataOf[t] \subseteq free_map'
      BY <3>1 DEF Owned
    <3> QED
      BY <2>1, <3>2 DEF Files
  <2>2. CASE free_map_file' = free_map_file
    BY <1>1, <1>2, <2>2, FilesAre DEF IInv, OnDisk
  <2> QED
    BY <2>1, <2>2
<1>8. \A t \in Named : disk'[t] = disk[t]
  OBVIOUS
<1> QED
  BY <1>3, <1>4, <1>6, <1>7, <1>8, FilesStay

\* What giving back the sector of the inode keeps.
LEMMA Keeps_create_undo ==
  ASSUME IInv, create_undo
  PROVE  IInv' /\ Lost' \subseteq Lost
<1>1. PICK c :
        /\ c = op.sector /\ op # NULL /\ op.step = "undo" /\ op' = NULL
        /\ free_map' = free_map \ Run(c, 1) /\ free_map_file' \in {free_map', free_map_file}
        /\ UNCHANGED <<open_inodes, fd_table, executable, releasing, writing, disk, dir>>
  BY DEF create_undo, CreateStep, free_map_release
<1>2. Typed
  BY DEF IInv
<1>3. c \in Nat
  BY <1>1, <1>2, CallIs, Ranges
<1>4. free_map' = free_map \ {c}
  BY <1>1, <1>3, RunOne
<1>5. "undo" \notin {"inode", "zero", "add"}
  OBVIOUS
<1>6. releasing = <<>> /\ Closing = {} /\ Creating = {c} /\ writing = NULL
  BY <1>1, <1>5, MakingIs
<1>7. /\ releasing' = <<>> /\ Closing' = {}
      /\ \A i, j \in 1 .. Len(releasing') : i # j => RunAt(i)' \cap RunAt(j)' = {}
  BY <1>1, <1>6, NothingClosingAfter
<1>8. /\ Creating \cup Closing = {c} \cup Closing' /\ Closing' \subseteq Closing
      /\ {c} \cap Closing' = {}
  BY <1>6, <1>7
<1>9. releasing' \in Seq(Nat \X Nat)
  BY <1>1, <1>2 DEF Typed
<1> QED
  BY <1>1, <1>4, <1>6, <1>7, <1>8, <1>9, ReleaseKeeps

\* What releasing the next run of a removed file keeps.
LEMMA Keeps_release ==
  ASSUME IInv, release
  PROVE  IInv' /\ Lost' \subseteq Lost
<1>1. PICK q, r, R :
        /\ q = releasing /\ r = releasing' /\ r = Tail(q) /\ q # <<>>
        /\ R = Run(Head(q)[1], Head(q)[2])
        /\ free_map' = free_map \ R /\ free_map_file' \in {free_map', free_map_file}
        /\ UNCHANGED <<disk, dir, open_inodes, fd_table, executable, op, writing>>
  BY DEF release, free_map_release
<1>2. Typed /\ UnderWay
  BY DEF IInv
<1>3. q \in Seq(Nat \X Nat)
  BY <1>1, <1>2 DEF Typed
<1>4. /\ r \in Seq(Nat \X Nat) /\ Len(q) \in Nat /\ Len(q) >= 1 /\ Len(r) = Len(q) - 1
      /\ \A i \in 1 .. Len(r) : r[i] = q[i + 1]
      /\ Head(q) = q[1] /\ DOMAIN q = 1 .. Len(q) /\ DOMAIN r = 1 .. Len(r)
  BY SMT, <1>1, <1>3
<1>5. op = NULL /\ op' = NULL /\ writing' = NULL
  BY <1>1, <1>2 DEF UnderWay
<1> DEFINE X(i) == Run(q[i][1], q[i][2])
<1>6. \A i, j \in 1 .. Len(q) : i # j => X(i) \cap X(j) = {}
  BY <1>1, <1>2 DEF UnderWay, RunAt
<1>7. R = X(1)
  BY <1>1, <1>4
<1>8. \A i \in 1 .. Len(r) : RunAt(i)' = X(i + 1)
  BY <1>1, <1>4 DEF RunAt
<1>9. Closing = UNION {X(i) : i \in 1 .. Len(q)}
  BY <1>1, <1>4 DEF Closing
<1>10. Closing' = UNION {X(i + 1) : i \in 1 .. Len(r)}
  <2>1. Closing' = UNION {RunAt(i)' : i \in 1 .. Len(r)}
    BY <1>1, <1>4 DEF Closing, RunAt
  <2> QED
    BY <1>8, <2>1
<1> HIDE DEF X
<1>11. 1 \in 1 .. Len(q) /\ \A i \in 1 .. Len(r) : i + 1 \in 1 .. Len(q) /\ i + 1 # 1
  BY SMT, <1>4
<1>12. \A i \in 1 .. Len(q) : i = 1 \/ \E j \in 1 .. Len(r) : i = j + 1
  <2> TAKE i \in 1 .. Len(q)
  <2>1. i = 1 \/ (i - 1 \in 1 .. Len(r) /\ i = (i - 1) + 1)
    BY SMT, <1>4
  <2> QED
    BY <2>1
<1>13. \A i, j \in 1 .. Len(r) : i # j => i + 1 # j + 1
  BY SMT, <1>4
<1>14. \A i, j \in 1 .. Len(releasing') : i # j => RunAt(i)' \cap RunAt(j)' = {}
  <2>1. SUFFICES ASSUME NEW i \in 1 .. Len(r), NEW j \in 1 .. Len(r), i # j
                 PROVE  RunAt(i)' \cap RunAt(j)' = {}
    BY <1>1
  <2>2. i + 1 \in 1 .. Len(q) /\ j + 1 \in 1 .. Len(q) /\ i + 1 # j + 1
    BY <1>11, <1>13, <2>1
  <2>3. X(i + 1) \cap X(j + 1) = {}
    BY <1>6, <2>2
  <2> QED
    BY <1>8, <2>3
<1>15. Closing = R \cup Closing'
  <2>1. \A x \in Closing : x \in R \/ x \in Closing'
    BY <1>7, <1>9, <1>10, <1>12
  <2>2. \A x \in R : x \in Closing
    BY <1>7, <1>9, <1>11
  <2>3. \A x \in Closing' : x \in Closing
    BY <1>9, <1>10, <1>11
  <2> QED
    BY <2>1, <2>2, <2>3
<1>16. R \cap Closing' = {}
  <2>1. \A i \in 1 .. Len(r) : R \cap X(i + 1) = {}
    BY <1>6, <1>7, <1>11
  <2> QED
    BY <1>10, <2>1
<1>17. Creating = {}
  BY <1>5 DEF Creating
<1>18. /\ Creating \cup Closing = R \cup Closing' /\ Closing' \subseteq Closing
       /\ releasing' \in Seq(Nat \X Nat)
  BY <1>1, <1>4, <1>15, <1>17
<1> QED
  BY <1>1, <1>5, <1>14, <1>16, <1>18, ReleaseKeeps

-------------------------------------------------------------------------------
(***************************************************************************)
(* Stopping the machine, and the whole specification.                      *)
(***************************************************************************)
\* No file is open and no call under way: nothing but the named files is left.
LEMMA AtRest ==
  ASSUME open_inodes' = [s \in Sector |-> NULL],
         fd_table' = [p \in Process |-> [fd \in Fd |-> NULL]],
         executable' = [p \in Process |-> NULL], op' = NULL, releasing' = <<>>, writing' = NULL
  PROVE  /\ open_inodes' \in [Sector -> Inode \cup {NULL}]
         /\ fd_table' \in [Process -> [Fd -> {f \in File : f.deny_write = FALSE} \cup {NULL}]]
         /\ executable' \in [Process -> {f \in File : f.deny_write = TRUE} \cup {NULL}]
         /\ op' \in Call \cup {NULL} /\ releasing' \in Seq(Nat \X Nat)
         /\ Counted' /\ UnderWay' /\ OpenIn' = {} /\ Creating' = {} /\ Closing' = {}
<1>1. releasing' \in Seq(Nat \X Nat)
  BY SMT
<1>2. /\ open_inodes' \in [Sector -> Inode \cup {NULL}]
      /\ fd_table' \in [Process -> [Fd -> {f \in File : f.deny_write = FALSE} \cup {NULL}]]
      /\ executable' \in [Process -> {f \in File : f.deny_write = TRUE} \cup {NULL}]
      /\ op' \in Call \cup {NULL}
  OBVIOUS
<1>3. OpenIn' = {} /\ Creating' = {} /\ Closing' = {} /\ UnderWay'
  BY NothingClosingAfter DEF OpenIn, Creating, UnderWay
<1>4. ASSUME NEW s \in Sector
      PROVE  CountedAt(s)'
  <2>1. RefsTo(s)' = {}
    <3>1. \A h \in Process \X Fd : h[1] \in Process /\ h[2] \in Fd
      BY SMT
    <3>2. \A h \in Process \X Fd : fd_table'[h[1]][h[2]] = NULL
      BY <3>1
    <3> QED
      BY <3>2 DEF RefsTo
  <2>2. Runners(s)' = {}
    BY DEF Runners
  <2>3. open_inodes'[s] = NULL
    OBVIOUS
  <2> QED
    BY <2>1, <2>2, <2>3 DEF CountedAt
<1> QED
  BY <1>1, <1>2, <1>3, <1>4 DEF Counted

\* What a stop of the machine and the next start keep.
LEMMA Keeps_restart ==
  ASSUME IInv, restart
  PROVE  IInv'
<1>1. /\ free_map' = free_map_file /\ open_inodes' = [s \in Sector |-> NULL]
      /\ fd_table' = [p \in Process |-> [fd \in Fd |-> NULL]]
      /\ executable' = [p \in Process |-> NULL] /\ op' = NULL /\ releasing' = <<>>
      /\ writing' = NULL
      /\ disk' = disk /\ dir' = dir /\ free_map_file' = free_map_file
  BY DEF restart
<1>2. Typed /\ Agree /\ Owns /\ OnDisk
  BY DEF IInv
<1>3. /\ open_inodes' \in [Sector -> Inode \cup {NULL}]
      /\ fd_table' \in [Process -> [Fd -> {f \in File : f.deny_write = FALSE} \cup {NULL}]]
      /\ executable' \in [Process -> {f \in File : f.deny_write = TRUE} \cup {NULL}]
      /\ op' \in Call \cup {NULL} /\ releasing' \in Seq(Nat \X Nat)
      /\ Counted' /\ UnderWay' /\ OpenIn' = {} /\ Creating' = {} /\ Closing' = {}
  BY <1>1, AtRest
<1>4. Typed'
  BY <1>1, <1>2, <1>3 DEF Typed
<1>5. Agree' /\ Named' = Named /\ \A s \in Files' : s \in Files /\ Data(s)' = Data(s)
  BY <1>1, <1>2, <1>3, AgreeSame
<1>6. Files' = Named
  BY <1>3, <1>5 DEF Files
<1>7. \A s \in Named : /\ s \in Files /\ DataOf[s] = Data(s) /\ DataOf'[s] = Data(s)
                       /\ Data(s)' = Data(s)
  BY <1>2, <1>4, <1>5, <1>6, FilesAre, FilesAreAfter
<1>8. Owns'
  <2>1. Owned(Files, DataOf, Creating, Closing, free_map)
    BY <1>2 DEF Owns
  <2>2. Named \subseteq Files /\ \A s \in Named : DataOf'[s] = DataOf[s]
    BY <1>7
  <2>3. /\ System \subseteq free_map_file
        /\ \A s \in Named : s \in free_map_file /\ DataOf[s] \subseteq free_map_file
    BY <1>2, <1>7 DEF OnDisk
  <2>4. Owned(Named, DataOf', {}, {}, free_map_file)
    BY <2>1, <2>2, <2>3, LayoutRestart
  <2> QED
    BY <1>1, <1>3, <1>6, <2>4 DEF Owns
<1>9. OnDisk'
  BY <1>1, <1>2, <1>3, <1>5, <1>7 DEF OnDisk
<1> QED
  BY <1>3, <1>4, <1>5, <1>8, <1>9 DEF IInv

\* A formatted device.
LEMMA InitKeeps ==
  ASSUME Init
  PROVE  IInv
<1>1. /\ free_map = System /\ free_map_file = System /\ dir = [i \in Slot |-> NULL]
      /\ open_inodes = [s \in Sector |-> NULL]
      /\ fd_table = [p \in Process |-> [fd \in Fd |-> NULL]]
      /\ executable = [p \in Process |-> NULL] /\ op = NULL /\ releasing = <<>>
      /\ writing = NULL
  BY DEF Init, do_format
<1>2. OnSectors(disk)
  <2>1. PICK v \in Value : disk = [s \in Sector |-> [data |-> [b \in Byte |-> v]]]
    BY DEF Init
  <2> QED
    BY <2>1 DEF OnSectors
<1>3. Used = {} /\ Named = {} /\ OpenIn = {} /\ Files = {} /\ Creating = {} /\ Closing = {}
  <2>1. Used = {}
    BY <1>1 DEF Used
  <2> QED
    BY <1>1, <2>1, NothingClosing DEF Named, OpenIn, Files, Creating
<1>4. Typed
  <2>1. releasing \in Seq(Nat \X Nat)
    BY SMT, <1>1
  <2>2. free_map \in SUBSET Sector /\ free_map_file \in SUBSET Sector
    BY <1>1, Ranges
  <2> QED
    BY <1>1, <1>2, <2>1, <2>2 DEF Typed
<1>5. Counted
  <2>1. ASSUME NEW s \in Sector
        PROVE  CountedAt(s)
    <3>1. \A h \in Process \X Fd : h[1] \in Process /\ h[2] \in Fd
      BY SMT
    <3>2. \A h \in Process \X Fd : fd_table[h[1]][h[2]] = NULL
      BY <1>1, <3>1
    <3>3. RefsTo(s) = {} /\ Runners(s) = {}
      BY <1>1, <3>2 DEF RefsTo, Runners
    <3> QED
      BY <1>1, <3>3 DEF CountedAt
  <2> QED
    BY <2>1 DEF Counted
<1>6. Agree
  BY <1>3 DEF Agree
<1>7. UnderWay
  <2>1. 1 .. Len(<<>>) = {}
    BY SMT
  <2> QED
    BY <1>1, <2>1 DEF UnderWay
<1>8. Owns
  BY <1>1, <1>3 DEF Owns, Owned
<1>9. OnDisk
  BY <1>1, <1>3 DEF OnDisk
<1> QED
  BY <1>4, <1>5, <1>6, <1>7, <1>8, <1>9 DEF IInv

\* What every step keeps, and the steps that may lose sectors.
LEMMA NextKeeps ==
  ASSUME IInv, [Next]_vars
  PROVE  /\ IInv'
         /\ \/ Lost' \subseteq Lost \/ restart \/ Forgets
            \/ create_add /\ (UNCHANGED dir \/ \E i \in Used : dir'[i] # dir[i])
<1>1. CASE UNCHANGED vars
  <2>1. UNCHANGED <<disk, dir, free_map, free_map_file, open_inodes, fd_table,
                    executable, op, releasing, writing>>
    BY <1>1 DEF vars
  <2>2. UnderWay'
    BY <2>1 DEF IInv, UnderWay, RunAt
  <2>3. OnSectors(disk') /\ \A s \in Named : disk'[s] = disk[s]
    BY <2>1 DEF IInv, Typed
  <2> QED
    BY <2>1, <2>2, <2>3, StillKeeps
<1>2. CASE \E name \in Name : \/ syscall_remove(name)
                              \/ \E size \in Length : syscall_create(name, size)
  BY <1>2, Keeps_syscall_remove, Keeps_syscall_create
<1>3. CASE create_data \/ create_inode \/ create_zero \/ create_undo
  BY <1>3, Keeps_create_data, Keeps_create_inode, Keeps_create_zero, Keeps_create_undo
<1>4. CASE create_add
  <2>1. CASE dir_add(op.name, op.sector) /\ op' = NULL
    BY <1>4, <2>1, Keeps_dir_add
  <2>2. CASE UNCHANGED dir /\ op' = [op EXCEPT !.step = "undo"]
    BY <1>4, <2>2, Keeps_failed_add
  <2> QED
    BY <1>4, <2>1, <2>2 DEF create_add
<1>5. CASE release
  BY <1>5, Keeps_release
<1>6. CASE \E p \in Process : Step(p)
  <2>1. PICK p \in Process : Step(p)
    BY <1>6
  <2>2. CASE \E name \in Name : syscall_open(p, name) \/ load(p, name)
    BY <2>2, Keeps_syscall_open, Keeps_load
  <2>3. CASE process_exit(p)
    BY <2>3, Keeps_process_exit
  <2>4. CASE \E fd \in Fd : syscall_close(p, fd)
    BY <2>4, Keeps_syscall_close
  <2>5. CASE \E fd \in Fd : \E size \in Transfer : syscall_read(p, fd, size)
    BY <2>5, Keeps_syscall_read
  <2>6. CASE \E fd \in Fd : \E size \in Transfer : \E v \in Value : syscall_write(p, fd, v, size)
    BY <2>6, Keeps_syscall_write
  <2>7. CASE \E fd \in Fd : \E pos \in Offset : syscall_seek(p, fd, pos)
    BY <2>7, Keeps_syscall_seek
  <2> QED
    BY <2>1, <2>2, <2>3, <2>4, <2>5, <2>6, <2>7 DEF Step
<1>7. CASE restart
  BY <1>7, Keeps_restart
<1>8. CASE inode_write_at
  BY <1>8, Keeps_write_reads, Keeps_write_writes, Keeps_write_ends DEF inode_write_at
<1> QED
  BY <1>1, <1>2, <1>3, <1>4, <1>5, <1>6, <1>7, <1>8 DEF Next, filesys_create

\* A sector changes only while its file is being made, or as part of the
\* data of an open file that no process runs.
LEMMA WhoWrites ==
  ASSUME IInv, [Next]_vars
  PROVE  \A x \in Sector : \/ disk'[x] = disk[x]
                           \/ x \in Creating
                           \/ \E t \in OpenIn : x \in Data(t) /\ Runners(t) = {}
<1>1. Typed /\ Counted
  BY DEF IInv
<1>2. CASE UNCHANGED disk
  BY <1>2
<1>3. CASE create_inode
  <2>1. op # NULL
    BY <1>3 DEF create_inode, CreateStep
  <2>2. op.sector \in Creating
    BY <2>1, MakingIs
  <2>3. \A x \in Sector : x # op.sector => disk'[x] = disk[x]
    BY <1>1, <1>3 DEF create_inode, Typed, OnSectors
  <2> QED
    BY <2>2, <2>3
<1>4. CASE create_zero
  <2>1. op # NULL /\ op.step = "zero"
    BY <1>4 DEF create_zero, CreateStep
  <2>2. op.step \in {"inode", "zero", "add"}
    BY <2>1
  <2>3. op.start + op.done \in Run(op.start, bytes_to_sectors(op.size))
    <3>1. op.done < bytes_to_sectors(op.size)
      BY <2>1 DEF IInv, UnderWay
    <3>2. op.start \in Nat /\ op.done \in Nat /\ bytes_to_sectors(op.size) \in Nat
      BY <1>1, <2>1, CallIs
    <3> QED
      BY SMT, <3>1, <3>2 DEF Run
  <2>4. op.start + op.done \in Creating
    BY <2>1, <2>2, <2>3, MakingIs
  <2>5. \A x \in Sector : x # op.start + op.done => disk'[x] = disk[x]
    BY <1>1, <1>4 DEF create_zero, Typed, OnSectors
  <2> QED
    BY <2>4, <2>5
<1>5. CASE inode_write_at
  <2>1. CASE write_writes
    <3>1. writing.inode \in OpenIn /\ Runners(writing.inode) = {}
      BY <2>1, WritingIs DEF write_writes, WriteStep
    <3>2. \A x \in Sector : x \notin Data(writing.inode) => disk'[x] = disk[x]
      BY <2>1, WritesData
    <3> QED
      BY <3>1, <3>2
  <2>2. CASE write_reads \/ write_ends
    BY <1>2, <2>2 DEF write_reads, write_ends
  <2> QED
    BY <1>5, <2>1, <2>2 DEF inode_write_at
<1>6. CASE UNCHANGED vars
  BY <1>2, <1>6 DEF vars
<1>7. CASE \E name \in Name : \/ syscall_remove(name)
                              \/ \E size \in Length : syscall_create(name, size)
  BY <1>2, <1>7 DEF syscall_remove, syscall_create
<1>8. CASE create_data \/ create_add \/ create_undo \/ release \/ restart
  BY <1>2, <1>8 DEF create_data, create_add, create_undo, release, restart
<1>9. CASE \E p \in Process : Step(p)
  <2>1. PICK p \in Process : Step(p)
    BY <1>9
  <2>2. CASE (\E name \in Name : syscall_open(p, name) \/ load(p, name)) \/ process_exit(p)
    BY <1>2, <2>2 DEF syscall_open, load, process_exit
  <2>3. CASE \E fd \in Fd : \/ syscall_close(p, fd)
                            \/ \E size \in Transfer : syscall_read(p, fd, size)
                            \/ \E pos \in Offset : syscall_seek(p, fd, pos)
    BY <1>2, <2>3 DEF syscall_close, syscall_read, syscall_seek
  <2>4. CASE \E fd \in Fd : \E size \in Transfer : \E v \in Value : syscall_write(p, fd, v, size)
    BY <1>2, <2>4 DEF syscall_write
  <2> QED
    BY <2>1, <2>2, <2>3, <2>4 DEF Step
<1> QED
  BY <1>3, <1>4, <1>5, <1>6, <1>7, <1>8, <1>9 DEF Next, filesys_create

\* The layout gives what SectorsOwnedOnce says.
LEMMA OwnedOnce ==
  ASSUME IInv
  PROVE  SectorsOwnedOnce
<1>1. Typed /\ Agree /\ Owns /\ OnDisk
  BY DEF IInv
<1>2. TypeOK
  <2>1. \A i \in Slot : dir[i] # NULL => dir[i] \in [name : Name, inode_sector : Sector]
    BY <1>1 DEF Typed, Entry
  <2>2. ASSUME NEW p \in Process, NEW fd \in Fd, fd_table[p][fd] # NULL
        PROVE  fd_table[p][fd] \in [inode : Sector, pos : Nat, deny_write : {FALSE}]
    <3>1. PICK f : f = fd_table[p][fd]
      OBVIOUS
    <3>2. f \in File /\ f.deny_write = FALSE
      BY <1>1, <2>2, <3>1 DEF Typed
    <3>3. f \in [inode : Sector, pos : Nat, deny_write : {FALSE}]
      BY <3>2 DEF File
    <3> QED
      BY <3>1, <3>3
  <2>3. ASSUME NEW s \in Sector, open_inodes[s] # NULL
        PROVE  open_inodes[s].open_cnt > 0
    <3>1. open_inodes[s] \in Inode
      BY <1>1, <2>3 DEF Typed
    <3> QED
      BY SMT, <3>1 DEF Inode
  <2>4. op # NULL => op.step \in {"data", "inode", "zero", "add", "undo"}
    <3>1. op # NULL => op \in Call
      BY <1>1 DEF Typed
    <3> QED
      BY SMT, <3>1 DEF Call
  <2> QED
    BY <1>1, <2>1, <2>2, <2>3, <2>4 DEF TypeOK, Typed
<1>3. \A s \in Named : "length" \in DOMAIN disk[s]
  <2> TAKE s \in Named
  <2>1. disk[s] \in Extents
    BY <1>1 DEF Agree
  <2> QED
    BY SMT, <2>1 DEF Extents
<1>4. \A s \in Files : FileSectors(s) = {s} \cup DataOf[s] /\ DataOf[s] = Data(s)
  BY <1>1, FilesAre DEF FileSectors, Extent, Data
<1>5. /\ \A s \in Files : s \in free_map /\ s \notin Creating /\ s \notin Closing /\ s \notin System
      /\ \A s \in Files : DataOf[s] \subseteq free_map
      /\ \A s \in Files : DataOf[s] \cap Creating = {} /\ DataOf[s] \cap Closing = {} /\ DataOf[s] \cap System = {}
      /\ \A s, t \in Files : s # t => t \notin DataOf[s] /\ DataOf[s] \cap DataOf[t] = {}
      /\ Creating \subseteq free_map /\ Closing \subseteq free_map /\ System \subseteq free_map
  BY <1>1 DEF Owns, Owned
<1>6. ASSUME NEW s \in Files, NEW t \in Files, s # t
      PROVE  FileSectors(s) \cap FileSectors(t) = {}
  <2>1. t \notin DataOf[s] /\ s \notin DataOf[t] /\ DataOf[s] \cap DataOf[t] = {}
    BY <1>5, <1>6
  <2> QED
    BY <1>4, <1>6, <2>1
<1>7. ASSUME NEW s \in Files
      PROVE  FileSectors(s) \cap (Creating \cup Closing \cup System) = {}
  BY <1>4, <1>5
<1>8. UNION ({FileSectors(s) : s \in Files} \cup {Creating, Closing, System}) \subseteq free_map
  <2>1. \A s \in Files : FileSectors(s) \subseteq free_map
    BY <1>4, <1>5
  <2> QED
    BY <1>5, <2>1
<1>9. UNION {FileSectors(s) : s \in Named} \subseteq free_map_file
  <2>1. \A s \in Named : s \in Files /\ s \in free_map_file /\ Data(s) \subseteq free_map_file
    BY <1>1 DEF OnDisk, Files
  <2>2. \A s \in Named : FileSectors(s) \subseteq free_map_file
    <3> TAKE s \in Named
    <3>1. s \in free_map_file /\ Data(s) \subseteq free_map_file
      BY <2>1
    <3>2. FileSectors(s) = {s} \cup Data(s)
      BY <1>4, <2>1
    <3> QED
      BY <3>1, <3>2
  <2> QED
    BY <2>2
<1> QED
  BY <1>2, <1>3, <1>6, <1>7, <1>8, <1>9 DEF SectorsOwnedOnce, Files

\* The inductive invariant.
THEOREM AlwaysInOrder ==
  Spec => []IInv
<1>1. IInv /\ [Next]_vars => IInv'
  BY NextKeeps
<1> QED
  BY <1>1, InitKeeps, PTL DEF Spec

\* No sector belongs to two files, every sector in use is marked used in
\* memory, and the sectors of a file that has a name are marked used on disk,
\* so that a stop of the machine between any two disk writes of create(),
\* write(), remove() and close() keeps every named file.
THEOREM SectorsNeverShared ==
  Spec => []SectorsOwnedOnce
<1>1. IInv => SectorsOwnedOnce
  BY OwnedOnce
<1> QED
  BY <1>1, AlwaysInOrder, PTL

\* Sectors get lost only when the machine stops, when filesys_create() fails
\* to write the directory entry after it has allocated the data, when dir_add()
\* writes over an entry in use because its search of the directory ended on a
\* short read, and when the last user of a file that lost its name that way
\* closes it: no other order of creating, writing, removing and closing loses
\* a sector.
THEOREM SectorsLostOnlyByFailure ==
  Spec => LostOnlyByFailure
<1>1. IInv /\ [Next]_vars =>
        [\/ Lost' \subseteq Lost
         \/ restart
         \/ create_add /\ (UNCHANGED dir \/ \E i \in Used : dir'[i] # dir[i])
         \/ \E s \in OpenIn \ OpenIn' : s \notin Named /\ ~open_inodes[s].removed]_vars
  BY NextKeeps DEF Forgets
<1> QED
  BY <1>1, AlwaysInOrder, PTL DEF Spec, LostOnlyByFailure

\* open_cnt is the number of descriptors and running programs that have the
\* inode open, deny_write_cnt the number of those programs: deny_write_cnt
\* never exceeds open_cnt, as inode_deny_write() and inode_allow_write()
\* assert, and an inode is freed when its last user closes it.
THEOREM ReferencesCounted ==
  Spec => []Counted
<1>1. IInv => Counted
  BY DEF IInv
<1> QED
  BY <1>1, AlwaysInOrder, PTL

\* While a process runs a program, no call of any process changes a sector
\* of the program's file.
RunningUnchanged ==
  [][\A s \in Sector : Runners(s) # {} =>
       \A x \in {s} \cup Data(s) : disk'[x] = disk[x]]_vars

\* file_deny_write() works, also when the file was removed meanwhile and
\* whatever files are made and written at the same time.
THEOREM RunningProgramsStay ==
  Spec => RunningUnchanged
<1>1. ASSUME IInv, [Next]_vars, NEW s \in Sector, Runners(s) # {}, NEW x \in {s} \cup Data(s)
      PROVE  disk'[x] = disk[x]
  <2>1. Typed /\ Counted /\ Owns
    BY <1>1 DEF IInv
  <2>2. s \in OpenIn
    BY <1>1, <2>1 DEF OpenIn, Counted, CountedAt
  <2>3. s \in Files /\ \A t \in OpenIn : t \in Files /\ DataOf[t] = Data(t)
    BY <2>1, <2>2, FilesAre DEF Files
  <2>4. x \in free_map /\ x \notin Creating
    BY <1>1, <2>1, <2>2, <2>3 DEF Owns, Owned
  <2>5. ASSUME NEW t \in OpenIn, x \in Data(t)
        PROVE  t = s
    <3>1. \A u, w \in Files : u # w => w \notin DataOf[u] /\ DataOf[u] \cap DataOf[w] = {}
      BY <2>1 DEF Owns, Owned
    <3>2. t \in Files /\ DataOf[t] = Data(t) /\ DataOf[s] = Data(s)
      BY <2>2, <2>3, <2>5
    <3>3. SUFFICES ASSUME t # s PROVE FALSE
      OBVIOUS
    <3>4. s \notin DataOf[t] /\ DataOf[t] \cap DataOf[s] = {}
      BY <2>3, <3>1, <3>2, <3>3
    <3>5. x = s \/ x \in DataOf[s]
      BY <1>1, <3>2
    <3> QED
      BY <2>5, <3>2, <3>4, <3>5
  <2>6. x \in Sector
    BY <2>1, <2>4 DEF Typed
  <2> QED
    BY <1>1, <2>4, <2>5, <2>6, WhoWrites
<1>2. IInv /\ [Next]_vars =>
        [\A s \in Sector : Runners(s) # {} =>
           \A x \in {s} \cup Data(s) : disk'[x] = disk[x]]_vars
  BY <1>1
<1> QED
  BY <1>2, AlwaysInOrder, PTL DEF Spec, RunningUnchanged
==============================================================================
