------------------------------ MODULE FileSys ------------------------------
(***************************************************************************)
(* The file system of Pintos (filesys/{free-map,inode,directory,filesys,   *)
(* file}.c) under the system calls that use it (userprog/syscall.c).       *)
(*                                                                         *)
(* Every call of syscall.c runs under filesys_lock.  filesys_create(), the *)
(* release of a removed file and a write are broken at their disk          *)
(* accesses, because shutdown_power_off() (the halt call takes no lock)    *)
(* can stop the machine between any two of them, and munmap() takes no     *)
(* lock either; any other call writes the disk at most once and is one     *)
(* step.  A call that fails without a change is no step.                   *)
(*                                                                         *)
(* A file of L bytes lies in consecutive sectors of BLOCK_SECTOR_SIZE      *)
(* bytes.  The free map and the root directory occupy the sectors System;  *)
(* their contents are the variables free_map_file and dir.  The map fits   *)
(* one sector, which inode_write_at() writes through a bounce buffer, so   *)
(* a failing malloc() makes the whole write of the map fail.               *)
(*                                                                         *)
(* A size or a position of 2^31 bytes or more is negative as an off_t and  *)
(* stops the kernel (the assertions inode.c 78 and file.c 157): for the    *)
(* files that is a restart, which is possible at every point.              *)
(***************************************************************************)
EXTENDS Integers, Sequences, FiniteSets

CONSTANTS Process, Name, Value, NULL,
          BadName,            \* names dir_add() rejects: empty, over NAME_MAX
          ShortReads,         \* inode_read_at() of an entry may lack memory
          Sectors,            \* size of the file system device
          BLOCK_SECTOR_SIZE, DIR_ENTRIES, MAX_FD_COUNT,
          Length,             \* sizes files are created with, in bytes
          Transfer,           \* sizes of reads and writes, in bytes
          Offset              \* positions to seek to

ASSUME DeviceAssumption ==
  /\ Sectors \in Nat /\ Sectors > 4 /\ BLOCK_SECTOR_SIZE \in Nat \ {0}
  /\ DIR_ENTRIES \in Nat \ {0} /\ MAX_FD_COUNT \in Nat
  /\ BadName \subseteq Name /\ IsFiniteSet(Process) /\ ShortReads \in BOOLEAN
  /\ Length \cup Transfer \cup Offset \subseteq Nat

VARIABLES disk,           \* what the file sectors hold
          dir,            \* the slots of the root directory, on disk
          free_map,       \* the sectors in use, in memory
          free_map_file,  \* the same, as last written to disk
          open_inodes,    \* struct inode of each sector, NULL when not open
          fd_table,       \* struct file of each descriptor of each process
          executable,     \* the file a process runs, denied for writing
          op,             \* the filesys_create() under way, or NULL
          releasing,      \* runs of sectors inode_close() has yet to release
          writing         \* the write() under way, or NULL

vars == <<disk, dir, free_map, free_map_file, open_inodes, fd_table,
          executable, op, releasing, writing>>

Sector == 0 .. Sectors - 1
Byte   == 0 .. BLOCK_SECTOR_SIZE - 1
Fd     == 2 .. MAX_FD_COUNT - 1
Slot   == 1 .. DIR_ENTRIES
Zero   == 0
System == 0 .. 3   \* two inodes, the map's sector, the root directory's

bytes_to_sectors(size) == (size + BLOCK_SECTOR_SIZE - 1) \div BLOCK_SECTOR_SIZE
Run(sector, cnt) == sector .. sector + cnt - 1

Lowest(S) == CHOOSE x \in S : \A y \in S : x <= y

\* The structures; a pointer to one is NULL or a record.
Inode == [open_cnt : Nat \ {0}, removed : BOOLEAN, deny_write_cnt : Nat,
          start : Nat, length : Nat]
File  == [inode : Sector, pos : Nat, deny_write : BOOLEAN]
Entry == [name : Name, inode_sector : Sector]
Call  == [step : {"data", "inode", "zero", "add", "undo"}, name : Name,
          size : Nat, sector : Sector, start : Nat, done : Nat]

ASSUME NULLAssumption == NULL \notin Inode \cup File \cup Entry \cup Call

-----------------------------------------------------------------------------
(* free-map.c: first fit, written through to the map's file *)

Fits(cnt) == {s \in Sector : s + cnt <= Sectors /\ Run(s, cnt) \cap free_map = {}}

\* bitmap_scan_and_flip() of no sectors at all answers 0.
bitmap_scan(cnt) == IF cnt = 0 THEN 0 ELSE Lowest(Fits(cnt))

\* Mutant: the map is not written through to its file.
free_map_allocate_unwritten(cnt, sector) ==
  /\ Fits(cnt) # {} \/ cnt = 0
  /\ sector = bitmap_scan(cnt)
  /\ free_map' = free_map \cup Run(sector, cnt)
  /\ UNCHANGED free_map_file

free_map_allocate(cnt, sector) ==
  /\ Fits(cnt) # {} \/ cnt = 0
  /\ sector = bitmap_scan(cnt)
  /\ free_map' = free_map \cup Run(sector, cnt)
  /\ free_map_file' = free_map'

\* No run of free sectors is long enough, or the map could not be written
\* and the bits are taken back: either way nothing is allocated.
AllocationFails == UNCHANGED <<free_map, free_map_file>>

\* The result of bitmap_write() is ignored: the file may keep the old bits.
free_map_release(sector, cnt) ==
  /\ free_map' = free_map \ Run(sector, cnt)
  /\ free_map_file' \in {free_map', free_map_file}

-----------------------------------------------------------------------------
(* inode.c: one struct inode for all openers of a sector *)

inode_open(oi, sector) ==
  [oi EXCEPT ![sector] =
     IF oi[sector] # NULL
     THEN [oi[sector] EXCEPT !.open_cnt = oi[sector].open_cnt + 1]
     ELSE [open_cnt |-> 1, removed |-> FALSE, deny_write_cnt |-> 0,
           start |-> disk[sector].start, length |-> disk[sector].length]]

inode_close(oi, sector) ==
  [oi EXCEPT ![sector] =
     IF oi[sector].open_cnt = 1 THEN NULL
     ELSE [oi[sector] EXCEPT !.open_cnt = oi[sector].open_cnt - 1]]

\* The removed inodes that closing frees when it takes the open inodes from
\* old to new.
Freed(old, new) == {s \in Sector : old[s] # NULL /\ new[s] = NULL /\ old[s].removed}

\* Any order of them: process_exit() goes by its descriptors.
Orders(S) == {f \in [1 .. Cardinality(S) -> S] :
                \A i, j \in 1 .. Cardinality(S) : i # j => f[i] # f[j]}

\* Mutant: only the inode's own sector is released.
ReleasedBy_inode(old, new) ==
  {[k \in 1 .. Cardinality(Freed(old, new)) |-> <<f[k], 1>>] : f \in Orders(Freed(old, new))}

\* Two runs to release for each of them: the inode's sector, then its data.
ReleasedBy(old, new) ==
  {[k \in 1 .. 2 * Cardinality(Freed(old, new)) |->
      LET s == f[(k + 1) \div 2]
      IN  IF k % 2 = 1 THEN <<s, 1>>
          ELSE <<old[s].start, bytes_to_sectors(old[s].length)>>] :
   f \in Orders(Freed(old, new))}

byte_to_sector(inode, pos) ==
  IF pos < inode.length THEN inode.start + pos \div BLOCK_SECTOR_SIZE ELSE -1

\* The bytes a transfer of size bytes at ofs covers: none at or past the end.
Chunk(inode, size, ofs) ==
  {q \in ofs .. ofs + size - 1 : byte_to_sector(inode, q) # -1}

\* The size bytes at ofs, which lie inside the file.
inode_read_at(inode, size, ofs) ==
  [i \in 0 .. size - 1 |->
     disk[byte_to_sector(inode, ofs + i)].data[(ofs + i) % BLOCK_SECTOR_SIZE]]

\* The bytes read: a sector that is not covered whole goes through a bounce
\* buffer, and the first of them ends the transfer when malloc() fails.
BytesRead(inode, size, ofs) ==
  LET chunk  == Chunk(inode, size, ofs)
      In(s)  == {q \in chunk : byte_to_sector(inode, q) = s}
      partly == {s \in Sector : Cardinality(In(s)) \in 1 .. BLOCK_SECTOR_SIZE - 1}
  IN  {chunk} \cup {{q \in chunk : byte_to_sector(inode, q) < Lowest(partly)} :
                    s \in partly}

(***************************************************************************)
(* The loop of inode_write_at().  Its variables are a record w: what is    *)
(* left to write at ofs, the bytes of the buffer by their position in the  *)
(* file, whether it has a bounce buffer, and the sector it has read there. *)
(***************************************************************************)
Loop(buf, size, ofs) ==
  [ofs |-> ofs, left |-> size, buf |-> buf, bounce |-> FALSE, data |-> NULL]

At(inode, w) == byte_to_sector(inode, w.ofs)

\* The bytes of this round: those in the sector of the first one.
Round(inode, w) ==
  {q \in Chunk(inode, w.left, w.ofs) : byte_to_sector(inode, q) = At(inode, w)}

Whole(inode, w) == Cardinality(Round(inode, w)) = BLOCK_SECTOR_SIZE

\* A sector that is not covered whole is read first, ...
Reads(inode, w) == Round(inode, w) # {} /\ ~Whole(inode, w) /\ w.data = NULL

HasRead(inode, w) == [w EXCEPT !.bounce = TRUE, !.data = disk[At(inode, w)].data]

\* Mutant: what is not covered is not merged in.
Merged_not(inode, w) == [i \in Byte |-> w.buf[w.ofs]]

\* ... merged, and written back.
Merged(inode, w) ==
  [i \in Byte |-> LET q == (At(inode, w) - inode.start) * BLOCK_SECTOR_SIZE + i
                  IN  IF q \in Round(inode, w) THEN w.buf[q] ELSE w.data[i]]

Writes(inode, w) == Round(inode, w) # {} /\ (Whole(inode, w) \/ w.data # NULL)

Written(inode, w) == [disk EXCEPT ![At(inode, w)] = [data |-> Merged(inode, w)]]

HasWritten(inode, w) ==
  LET n == Cardinality(Round(inode, w))
  IN  [w EXCEPT !.ofs = @ + n, !.left = @ - n, !.data = NULL]

\* The loop ends: nothing is left inside the file, or malloc() failed.
Ends(inode, w) == Round(inode, w) = {} \/ (Reads(inode, w) /\ ~w.bounce)

-----------------------------------------------------------------------------
(* file.c and directory.c *)

file_open(sector) == [inode |-> sector, pos |-> 0, deny_write |-> FALSE]

file_close(oi, file) ==
  inode_close(IF file.deny_write
              THEN [oi EXCEPT ![file.inode].deny_write_cnt = @ - 1] ELSE oi,
              file.inode)

file_deny_write(oi, file) ==
  [oi EXCEPT ![file.inode].deny_write_cnt = @ + 1]

Used == {i \in Slot : dir[i] # NULL}
lookup(name) == {i \in Used : dir[i].name = name}
EntrySector(name) == dir[Lowest(lookup(name))].inode_sector

\* A search reads the entries through a bounce buffer: when malloc() fails it
\* ends after any number of them.
EntriesRead == IF ShortReads THEN 0 .. DIR_ENTRIES ELSE {DIR_ENTRIES}

\* The first free slot, or the one at which the search ended; the directory's
\* file never grows.
dir_add(name, sector) ==
  /\ name \notin BadName
  /\ \E n \in EntriesRead : \A i \in lookup(name) : i > n
  /\ \E n \in EntriesRead :
       LET slots == {i \in Slot : i \notin Used \/ i > n}
       IN  /\ slots # {}
           /\ dir' = [dir EXCEPT ![Lowest(slots)] =
                         [name |-> name, inode_sector |-> sector]]

-----------------------------------------------------------------------------
(* filesys_create(): a sector, the inode and its data, the directory entry *)

filesys_lock_free == op = NULL /\ releasing = <<>> /\ writing = NULL

\* When no sector is to be had nothing changes, and the call fails.
syscall_create(name, size) ==
  /\ filesys_lock_free
  /\ \E s \in Sector :
       /\ free_map_allocate(1, s)
       /\ op' = [step |-> "data", name |-> name, size |-> size,
                 sector |-> s, start |-> 0, done |-> 0]
  /\ UNCHANGED <<disk, dir, open_inodes, fd_table, executable, releasing, writing>>

CreateStep(step) ==
  /\ op # NULL
  /\ op.step = step
  /\ UNCHANGED <<open_inodes, fd_table, executable, releasing, writing>>

\* inode_create(): the map with the data's sectors, ...
create_data ==
  /\ CreateStep("data")
  /\ \/ \E s \in Sector : /\ free_map_allocate(bytes_to_sectors(op.size), s)
                          /\ op' = [op EXCEPT !.start = s, !.step = "inode"]
     \/ AllocationFails /\ op' = [op EXCEPT !.step = "undo"]
  /\ UNCHANGED <<disk, dir>>

\* ... the inode, ...
create_inode ==
  /\ CreateStep("inode")
  /\ disk' = [disk EXCEPT ![op.sector] = [start |-> op.start, length |-> op.size]]
  /\ op' = [op EXCEPT !.step = IF bytes_to_sectors(op.size) = 0 THEN "add" ELSE "zero"]
  /\ UNCHANGED <<dir, free_map, free_map_file>>

\* ... and the sectors of the data, one by one.
create_zero ==
  /\ CreateStep("zero")
  /\ disk' = [disk EXCEPT ![op.start + op.done] = [data |-> [b \in Byte |-> Zero]]]
  /\ op' = [op EXCEPT !.done = op.done + 1,
                      !.step = IF op.done + 1 = bytes_to_sectors(op.size)
                               THEN "add" ELSE "zero"]
  /\ UNCHANGED <<dir, free_map, free_map_file>>

\* dir_add() also fails when malloc() does: it writes through a bounce buffer.
create_add ==
  /\ CreateStep("add")
  /\ \/ dir_add(op.name, op.sector) /\ op' = NULL
     \/ UNCHANGED dir /\ op' = [op EXCEPT !.step = "undo"]
  /\ UNCHANGED <<disk, free_map, free_map_file>>

\* The failure path releases the inode's sector and nothing else.
create_undo ==
  /\ CreateStep("undo")
  /\ free_map_release(op.sector, 1)
  /\ op' = NULL
  /\ UNCHANGED <<disk, dir>>

filesys_create == create_data \/ create_inode \/ create_zero \/ create_add \/ create_undo

-----------------------------------------------------------------------------
(* The other calls *)

\* inode_close() writes the map once for the inode and once for its data.
release ==
  /\ releasing # <<>>
  /\ free_map_release(Head(releasing)[1], Head(releasing)[2])
  /\ releasing' = Tail(releasing)
  /\ UNCHANGED <<disk, dir, open_inodes, fd_table, executable, op, writing>>

\* dir_remove() opens the inode, erases the entry, marks and closes the inode.
syscall_remove(name) ==
  /\ filesys_lock_free
  /\ lookup(name) # {}
  /\ LET s    == EntrySector(name)
         mark == [inode_open(open_inodes, s) EXCEPT ![s].removed = TRUE]
     IN  /\ open_inodes' = inode_close(mark, s)
         /\ releasing' \in ReleasedBy(mark, open_inodes')
  /\ dir' = [dir EXCEPT ![Lowest(lookup(name))] = NULL]
  /\ UNCHANGED <<disk, free_map, free_map_file, fd_table, executable, op, writing>>

\* With every descriptor taken the file is closed again: no change.
syscall_open(p, name) ==
  /\ filesys_lock_free
  /\ lookup(name) # {}
  /\ LET free == {fd \in Fd : fd_table[p][fd] = NULL}
         s    == EntrySector(name)
     IN  /\ free # {}
         /\ open_inodes' = inode_open(open_inodes, s)
         /\ fd_table' = [fd_table EXCEPT ![p][Lowest(free)] = file_open(s)]
  /\ UNCHANGED <<disk, dir, free_map, free_map_file, executable, op, releasing, writing>>

Opened(p, fd) == fd_table[p][fd] # NULL

syscall_close(p, fd) ==
  /\ filesys_lock_free
  /\ Opened(p, fd)
  /\ open_inodes' = file_close(open_inodes, fd_table[p][fd])
  /\ releasing' \in ReleasedBy(open_inodes, open_inodes')
  /\ fd_table' = [fd_table EXCEPT ![p][fd] = NULL]
  /\ UNCHANGED <<disk, dir, free_map, free_map_file, executable, op, writing>>

\* Reading only moves the position.
syscall_read(p, fd, size) ==
  /\ filesys_lock_free
  /\ Opened(p, fd)
  /\ LET f == fd_table[p][fd]
     IN  \E bytes \in BytesRead(open_inodes[f.inode], size, f.pos) :
           fd_table' = [fd_table EXCEPT ![p][fd].pos = f.pos + Cardinality(bytes)]
  /\ UNCHANGED <<disk, dir, free_map, free_map_file, open_inodes, executable,
                 op, releasing, writing>>

\* A file that is being run is not written.
syscall_write(p, fd, v, size) ==
  /\ filesys_lock_free
  /\ Opened(p, fd)
  /\ LET f == fd_table[p][fd]
     IN  /\ open_inodes[f.inode].deny_write_cnt = 0
         /\ writing' = [p |-> p, fd |-> fd, inode |-> f.inode,
                        loop |-> Loop([q \in f.pos .. f.pos + size - 1 |-> v], size, f.pos)]
  /\ UNCHANGED <<disk, dir, free_map, free_map_file, open_inodes, fd_table,
                 executable, op, releasing>>

WriteStep ==
  /\ writing # NULL
  /\ UNCHANGED <<dir, free_map, free_map_file, open_inodes, executable, op, releasing>>

write_reads ==
  /\ WriteStep
  /\ Reads(open_inodes[writing.inode], writing.loop)
  /\ writing' = [writing EXCEPT !.loop = HasRead(open_inodes[writing.inode], writing.loop)]
  /\ UNCHANGED <<disk, fd_table>>

write_writes ==
  /\ WriteStep
  /\ Writes(open_inodes[writing.inode], writing.loop)
  /\ disk' = Written(open_inodes[writing.inode], writing.loop)
  /\ writing' = [writing EXCEPT !.loop = HasWritten(open_inodes[writing.inode], writing.loop)]
  /\ UNCHANGED fd_table

\* file_write() moves the position by what was written.
write_ends ==
  /\ WriteStep
  /\ Ends(open_inodes[writing.inode], writing.loop)
  /\ fd_table' = [fd_table EXCEPT ![writing.p][writing.fd].pos = writing.loop.ofs]
  /\ writing' = NULL
  /\ UNCHANGED disk

inode_write_at == write_reads \/ write_writes \/ write_ends

syscall_seek(p, fd, pos) ==
  /\ filesys_lock_free
  /\ Opened(p, fd)
  /\ fd_table' = [fd_table EXCEPT ![p][fd].pos = pos]
  /\ UNCHANGED <<disk, dir, free_map, free_map_file, open_inodes, executable,
                 op, releasing, writing>>

\* load() keeps the executable open and denied while the process runs; when
\* loading fails later on it closes the file again, which changes nothing.
load(p, name) ==
  /\ filesys_lock_free
  /\ executable[p] = NULL
  /\ lookup(name) # {}
  /\ LET s == EntrySector(name)
     IN  /\ open_inodes' = file_deny_write(inode_open(open_inodes, s), file_open(s))
         /\ executable' = [executable EXCEPT
                             ![p] = [file_open(s) EXCEPT !.deny_write = TRUE]]
  /\ UNCHANGED <<disk, dir, free_map, free_map_file, fd_table, op, releasing, writing>>

\* The files a process holds: its executable, under the descriptor 0 that
\* the console has, and those it opened.
Handles(p) == {h \in Fd : fd_table[p][h] # NULL}
              \cup {h \in {0} : executable[p] # NULL}
FilesOf(p) == [h \in Handles(p) |->
                 IF h = 0 THEN executable[p] ELSE fd_table[p][h]]

\* file_close() of every file, one after the other: an inode goes when the
\* last of those that have it open is closed.
CloseAll(oi, files) ==
  [s \in Sector |->
     LET mine   == {h \in DOMAIN files : files[h].inode = s}
         denied == {h \in mine : files[h].deny_write}
     IN  IF mine = {} THEN oi[s]
         ELSE IF oi[s].open_cnt = Cardinality(mine) THEN NULL
              ELSE [oi[s] EXCEPT !.open_cnt = @ - Cardinality(mine),
                                 !.deny_write_cnt = @ - Cardinality(denied)]]

process_exit(p) ==
  /\ filesys_lock_free
  /\ Handles(p) # {}
  /\ open_inodes' = CloseAll(open_inodes, FilesOf(p))
  /\ releasing' \in ReleasedBy(open_inodes, open_inodes')
  /\ fd_table' = [fd_table EXCEPT ![p] = [fd \in Fd |-> NULL]]
  /\ executable' = [executable EXCEPT ![p] = NULL]
  /\ UNCHANGED <<disk, dir, free_map, free_map_file, op, writing>>

\* shutdown_power_off() at any moment, and filesys_init() without format at
\* the next start: free_map_close() writes nothing, free_map_open() reads
\* the file.
restart ==
  /\ free_map' = free_map_file
  /\ open_inodes' = [s \in Sector |-> NULL]
  /\ fd_table' = [p \in Process |-> [fd \in Fd |-> NULL]]
  /\ executable' = [p \in Process |-> NULL]
  /\ op' = NULL
  /\ releasing' = <<>>
  /\ writing' = NULL
  /\ UNCHANGED <<disk, dir, free_map_file>>

\* do_format(): the free map and an empty root directory.
do_format ==
  /\ free_map = System
  /\ free_map_file = System
  /\ dir = [i \in Slot |-> NULL]

Init ==
  /\ do_format
  /\ \E v \in Value : disk = [s \in Sector |-> [data |-> [b \in Byte |-> v]]]
  /\ open_inodes = [s \in Sector |-> NULL]
  /\ fd_table = [p \in Process |-> [fd \in Fd |-> NULL]]
  /\ executable = [p \in Process |-> NULL]
  /\ op = NULL
  /\ releasing = <<>>
  /\ writing = NULL

Step(p) ==
  \/ \E name \in Name : syscall_open(p, name) \/ load(p, name)
  \/ process_exit(p)
  \/ \E fd \in Fd :
       \/ syscall_close(p, fd)
       \/ \E size \in Transfer :
            \/ syscall_read(p, fd, size)
            \/ \E v \in Value : syscall_write(p, fd, v, size)
       \/ \E pos \in Offset : syscall_seek(p, fd, pos)

Next ==
  \/ \E name \in Name : \/ syscall_remove(name)
                        \/ \E size \in Length : syscall_create(name, size)
  \/ filesys_create
  \/ inode_write_at
  \/ release
  \/ \E p \in Process : Step(p)
  \/ restart

Spec == Init /\ [][Next]_vars
-----------------------------------------------------------------------------
\* The shape of the state.
TypeOK ==
  /\ free_map \in SUBSET Sector /\ free_map_file \in SUBSET Sector
  /\ \A i \in Slot : dir[i] # NULL => dir[i] \in [name : Name, inode_sector : Sector]
  /\ \A p \in Process, fd \in Fd : fd_table[p][fd] # NULL =>
       fd_table[p][fd] \in [inode : Sector, pos : Nat, deny_write : {FALSE}]
  /\ \A s \in Sector : open_inodes[s] # NULL => open_inodes[s].open_cnt > 0
  /\ op # NULL => op.step \in {"data", "inode", "zero", "add", "undo"}

Extent(s, start, length) == {s} \cup Run(start, bytes_to_sectors(length))

Named  == {dir[i].inode_sector : i \in Used}
OpenIn == {s \in Sector : open_inodes[s] # NULL}

\* The sectors of a file by the copy of its inode the kernel goes by.
FileSectors(s) ==
  IF s \in OpenIn
  THEN Extent(s, open_inodes[s].start, open_inodes[s].length)
  ELSE Extent(s, disk[s].start, disk[s].length)

Creating == IF op = NULL THEN {}
            ELSE IF op.step \in {"inode", "zero", "add"}
                 THEN Extent(op.sector, op.start, op.size) ELSE {op.sector}
Closing  == UNION {Run(releasing[i][1], releasing[i][2]) : i \in DOMAIN releasing}

\* Directory entries name sectors that hold an inode, no sector belongs to
\* two files, and every sector of a file that is named or open, being made or
\* still to be released is marked used in memory; those of the named files
\* are marked used on disk too, so that a restart at this point keeps them
\* (free_map_allocate() before dir_add(), dir_remove() before
\* free_map_release()).
SectorsOwnedOnce ==
  LET files == Named \cup OpenIn
      parts == {FileSectors(s) : s \in files} \cup {Creating, Closing, System}
  IN  /\ TypeOK
      /\ \A s \in Named : "length" \in DOMAIN disk[s]
      /\ \A s, t \in files : s # t => FileSectors(s) \cap FileSectors(t) = {}
      /\ \A s \in files : FileSectors(s) \cap (Creating \cup Closing \cup System) = {}
      /\ UNION parts \subseteq free_map
      /\ UNION {FileSectors(s) : s \in Named} \subseteq free_map_file

RefsTo(s) == {h \in Process \X Fd : /\ fd_table[h[1]][h[2]] # NULL
                                     /\ fd_table[h[1]][h[2]].inode = s}
Runners(s) == {p \in Process : executable[p] # NULL /\ executable[p].inode = s}

\* Sectors marked used that nothing owns any more.
Lost == free_map \ (System \cup Creating \cup Closing
                    \cup UNION {FileSectors(s) : s \in Named \cup OpenIn})

\* Sectors get lost only when the machine stops, when dir_add() fails after
\* inode_create() allocated the data, or when a search that lacked memory
\* made it write over an entry in use: at once if nobody has that file open,
\* else when its last user closes it.  Removing and closing files in any order
\* gives back every sector, and so do the other failures.
LostOnlyByFailure ==
  [][\/ Lost' \subseteq Lost
     \/ restart
     \/ create_add /\ (UNCHANGED dir \/ \E i \in Used : dir'[i] # dir[i])
     \/ \E s \in OpenIn \ OpenIn' : s \notin Named /\ ~open_inodes[s].removed]_vars
=============================================================================
