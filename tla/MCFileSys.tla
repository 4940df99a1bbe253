----------------------------- MODULE MCFileSys -----------------------------
(***************************************************************************)
(* The file system on a small device, its accounting of sectors and of     *)
(* references, and its refinement of AbstractFiles.                        *)
(***************************************************************************)
EXTENDS FileSys, FiniteSetsExt, TLC

CONSTANTS p1, p2, a, b, long

TwoProcesses == {p1, p2}
TwoNames     == {a, b, long}
BadNames     == {long}
OneByte      == {1}
Lengths      == {1, 3}
Offsets      == {1}
Transfers    == {3}
Symmetry     == Permutations(TwoProcesses) \cup Permutations({a, b})

\* Calls and restarts leave named and opened files as the interface promises:
\* bytes change only under a write through a descriptor of that file, from its
\* position on, never while a process runs it, a file outlives its name while
\* it is open, and a stop between any two disk writes, those of one write()
\* and of one create() included, loses no named file.  All this as long as
\* inode_read_at() comes back short only at the end of a file, which
\* directory.c 162 takes for granted (ShortReads is FALSE).
Promised == INSTANCE AbstractFiles WITH
  Id       <- Sector,
  Position <- 0 .. Max(Length \cup Offset),
  names   <- [n \in Name |-> IF lookup(n) = {} THEN NULL ELSE EntrySector(n)],
  bytes   <- [s \in Sector |->
                IF s \in Named \cup OpenIn
                THEN LET i == IF s \in OpenIn THEN open_inodes[s] ELSE disk[s]
                     IN  inode_read_at(i, i.length, 0)
                ELSE NULL],
  opens   <- [p \in Process |-> [fd \in Fd |->
                IF fd_table[p][fd] = NULL THEN NULL
                ELSE [id  |-> fd_table[p][fd].inode,
                      pos |-> IF writing # NULL /\ writing.p = p /\ writing.fd = fd
                              THEN writing.loop.ofs ELSE fd_table[p][fd].pos]]],
  running <- [p \in Process |->
                IF executable[p] = NULL THEN NULL ELSE executable[p].inode]

FilesAsPromised == Promised!Spec
=============================================================================
