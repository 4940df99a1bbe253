-------------------------------- MODULE Mmap --------------------------------
(***************************************************************************)
(* Memory-mapped files (vm/mmap.c) on top of the file system: the mappings *)
(* of each process, the supplemental page table entries they consist of,   *)
(* loading, eviction to swap, and the write-back at munmap() and at exit.  *)
(*                                                                         *)
(* mmap() and munmap() take no filesys_lock, so that their steps fall      *)
(* between those of a create, a removal or a write of another process;     *)
(* process_exit() unmaps under the lock.  The write-back goes sector by    *)
(* sector.  A page is loaded or evicted in one step, and not while it is   *)
(* being written back: module VM has the steps of do_eviction(), between   *)
(* which mmap.c 123-128 may fall.  inode_close() is one step.              *)
(***************************************************************************)
EXTENDS FileSys, SequencesExt

CONSTANTS PGSIZE,
          Mapper,      \* the processes whose programs map files
          UserPages,   \* number of user pages a mapping may use
          MaxMapid     \* bound on the identifiers handed out

VARIABLES mmap_list,   \* struct mmap_entry of each mapping of a process
          next_mapid,
          spt,         \* struct spt_entry of each mapped page
          unmapping,   \* the mmap_unmap() a process is in, or NULL
          unlocked,    \* runs of sectors it has yet to release
          exiting,     \* the process that unmaps in process_exit(), or NULL
          stored,      \* what a process last stored in a page, or NULL
          crossed      \* sectors others wrote during the write-back of a page

mapVars  == <<mmap_list, next_mapid, spt, unmapping, unlocked, exiting, stored>>
mmapVars == <<mapVars, crossed>>

\* The process is in none of the calls that take several steps.
Ready(p) == /\ unmapping[p] = NULL /\ unlocked[p] = <<>> /\ exiting # p
            /\ writing # NULL => writing.p # p

Page   == 1 .. UserPages
InPage == 0 .. PGSIZE - 1

page_count(size) == (size + PGSIZE - 1) \div PGSIZE
Pages(entry) == entry.addr .. entry.addr + page_count(entry.size) - 1

NewEntry(entry, page) ==
  LET offset == (page - entry.addr) * PGSIZE
  IN  [type |-> "FILE", inode |-> entry.inode, offset |-> offset,
       read_bytes |-> IF offset + PGSIZE <= entry.size THEN PGSIZE
                      ELSE entry.size - offset,
       frame |-> NULL, dirty |-> FALSE, slot |-> NULL]

Without(table, pages) == [g \in Page |-> IF g \in pages THEN NULL ELSE table[g]]

\* Mutant: the page before the one that failed is not taken back.
Undone_short(table, entry, n) ==
  Without(table, entry.addr .. entry.addr + n - 2)

\* The pages entered before malloc() failed are deleted again.
Undone(table, entry, n) == Without(table, entry.addr .. entry.addr + n - 1)

\* malloc() fails after n pages have been entered, unless n is all of them.
mmap_map(p, fd, addr, n) ==
  /\ Ready(p) /\ p \in Mapper
  /\ Opened(p, fd)
  /\ next_mapid[p] < MaxMapid
  /\ LET sector == fd_table[p][fd].inode
         entry  == [mapid |-> next_mapid[p], inode |-> sector, addr |-> addr,
                    size |-> open_inodes[sector].length]
         made   == [g \in Page |->
                      IF g \in addr .. addr + n - 1 THEN NewEntry(entry, g)
                      ELSE spt[p][g]]
     IN  /\ entry.size # 0
         /\ Pages(entry) \subseteq Page
         /\ \A g \in Pages(entry) : spt[p][g] = NULL
         /\ n <= Cardinality(Pages(entry))
         /\ IF n = Cardinality(Pages(entry))
            THEN /\ spt' = [spt EXCEPT ![p] = made]
                 /\ mmap_list' = [mmap_list EXCEPT ![p] = Append(@, entry)]
                 /\ open_inodes' = inode_open(open_inodes, sector)
            ELSE /\ spt' = [spt EXCEPT ![p] = Undone(made, entry, n)]
                 /\ UNCHANGED <<mmap_list, open_inodes>>
  /\ next_mapid' = [next_mapid EXCEPT ![p] = @ + 1]
  /\ UNCHANGED <<disk, dir, free_map, free_map_file, fd_table, executable, op,
                 releasing, writing, unmapping, unlocked, exiting, stored>>

\* page_fault() and vm_load_page() read the file or the slot; type stays SWAP.
\* Which of them gives the slot back is a matter for module VM.
load_page(p, page) ==
  /\ Ready(p)
  /\ spt[p][page] # NULL
  /\ LET e == spt[p][page]
         r == inode_read_at(open_inodes[e.inode], e.read_bytes, e.offset)
     IN  /\ e.frame = NULL
         /\ spt' = [spt EXCEPT ![p][page] =
              IF e.type = "SWAP"
              THEN [e EXCEPT !.frame = e.slot, !.dirty = FALSE, !.slot = NULL]
              ELSE [e EXCEPT !.frame = [i \in InPage |->
                               IF i < e.read_bytes THEN r[i] ELSE Zero],
                             !.dirty = FALSE]]
  /\ UNCHANGED <<vars, mmap_list, next_mapid, unmapping, unlocked, exiting, stored>>

\* The process stores into a page that is present.
store(p, page, v) ==
  /\ Ready(p)
  /\ spt[p][page] # NULL
  /\ spt[p][page].frame # NULL
  /\ LET new == [i \in InPage |-> v]
     IN  /\ spt' = [spt EXCEPT ![p][page].frame = new, ![p][page].dirty = TRUE]
         /\ stored' = [stored EXCEPT ![p][page] = new]
  /\ UNCHANGED <<vars, mmap_list, next_mapid, unmapping, unlocked, exiting>>

\* do_eviction(): what is dirty or was swapped before goes to its slot.
evict(p, page) ==
  /\ spt[p][page] # NULL
  /\ unmapping[p] # NULL => unmapping[p].page # page
  /\ spt[p][page].frame # NULL
  /\ LET e == spt[p][page]
     IN  spt' = [spt EXCEPT ![p][page] =
           IF e.dirty \/ e.type = "SWAP"
           THEN [e EXCEPT !.frame = NULL, !.type = "SWAP", !.slot = e.frame]
           ELSE [e EXCEPT !.frame = NULL]]
  /\ UNCHANGED <<vars, mmap_list, next_mapid, unmapping, unlocked, exiting, stored>>

-----------------------------------------------------------------------------
(* mmap_unmap() *)

\* Mutant: only frames that are dirty are written back.
Saves_dirty(e, kpage) == e.frame # NULL /\ e.dirty

\* A page that is out needs a kernel page to be copied through.
Saves(e, kpage) == \/ e.frame # NULL /\ (e.dirty \/ e.type = "SWAP")
                   \/ e.frame = NULL /\ e.type = "SWAP" /\ kpage

\* mmap_unmap() of an entry, page by page.
Unmap(p, entry) ==
  unmapping' = [unmapping EXCEPT ![p] = [entry |-> entry, page |-> entry.addr, loop |-> NULL]]

munmap(p, i) ==
  /\ Ready(p)
  /\ i \in DOMAIN mmap_list[p]
  /\ Unmap(p, mmap_list[p][i])
  /\ UNCHANGED <<vars, mmap_list, next_mapid, spt, unlocked, exiting, stored>>

UnmapStep(p) ==
  /\ unmapping[p] # NULL
  /\ unmapping[p].page \in Pages(unmapping[p].entry)
  /\ UNCHANGED <<dir, free_map, free_map_file, open_inodes, fd_table, executable, op,
                 releasing, writing, mmap_list, next_mapid, unlocked, exiting>>

\* free() of the page's entry, with the page written or not.
UnmapNext(p) ==
  /\ spt' = [spt EXCEPT ![p][unmapping[p].page] = NULL]
  /\ stored' = [stored EXCEPT ![p][unmapping[p].page] = NULL]
  /\ unmapping' = [unmapping EXCEPT ![p].page = @ + 1, ![p].loop = NULL]

\* A page that needs no write-back is done, and so is one that is denied it;
\* else file_write_at() begins.
unmap_page(p, kpage) ==
  /\ UnmapStep(p)
  /\ unmapping[p].loop = NULL
  /\ LET e   == spt[p][unmapping[p].page]
         src == IF e.frame # NULL THEN e.frame ELSE e.slot
         buf == [q \in e.offset .. e.offset + e.read_bytes - 1 |-> src[q - e.offset]]
     IN  IF Saves(e, kpage) /\ open_inodes[e.inode].deny_write_cnt = 0
         THEN /\ unmapping' = [unmapping EXCEPT ![p].loop =
                                 Loop(buf, e.read_bytes, e.offset)]
              /\ UNCHANGED <<spt, stored>>
         ELSE UnmapNext(p)
  /\ UNCHANGED disk

\* The steps of the write-back; what it returns is not looked at.
file_write_at(p) ==
  /\ UnmapStep(p)
  /\ unmapping[p].loop # NULL
  /\ LET inode == open_inodes[unmapping[p].entry.inode]
         w     == unmapping[p].loop
     IN  \/ /\ Reads(inode, w)
            /\ unmapping' = [unmapping EXCEPT ![p].loop = HasRead(inode, w)]
            /\ UNCHANGED <<disk, spt, stored>>
         \/ /\ Writes(inode, w)
            /\ disk' = Written(inode, w)
            /\ unmapping' = [unmapping EXCEPT ![p].loop = HasWritten(inode, w)]
            /\ UNCHANGED <<spt, stored>>
         \/ /\ Ends(inode, w)
            /\ UnmapNext(p)
            /\ UNCHANGED disk

\* file_close(), list_remove() and free() of the entry.
unmap_close(p) ==
  /\ unmapping[p] # NULL
  /\ unmapping[p].page \notin Pages(unmapping[p].entry)
  /\ LET entry == unmapping[p].entry
     IN  /\ open_inodes' = file_close(open_inodes, file_open(entry.inode))
         /\ \E runs \in ReleasedBy(open_inodes, open_inodes') :
              unlocked' = [unlocked EXCEPT ![p] = runs]
         /\ mmap_list' = [mmap_list EXCEPT ![p] = SelectSeq(@, LAMBDA m : m # entry)]
  /\ unmapping' = [unmapping EXCEPT ![p] = NULL]
  /\ UNCHANGED <<disk, dir, free_map, free_map_file, fd_table, executable, op,
                 releasing, writing, next_mapid, spt, exiting, stored>>

unlocked_release(p) ==
  /\ unlocked[p] # <<>>
  /\ free_map_release(Head(unlocked[p])[1], Head(unlocked[p])[2])
  /\ unlocked' = [unlocked EXCEPT ![p] = Tail(@)]
  /\ UNCHANGED <<disk, dir, open_inodes, fd_table, executable, op, releasing, writing,
                 mmap_list, next_mapid, spt, unmapping, exiting, stored>>

\* process_exit(): munmap_all() under filesys_lock, while the executable is
\* still denied, ...
exit(p) ==
  /\ filesys_lock_free /\ exiting = NULL
  /\ Ready(p)
  /\ mmap_list[p] # <<>> \/ Handles(p) # {}
  /\ exiting' = p
  /\ UNCHANGED <<vars, mmap_list, next_mapid, spt, unmapping, unlocked, stored>>

munmap_all(p) ==
  /\ exiting = p /\ unmapping[p] = NULL /\ unlocked[p] = <<>>
  /\ mmap_list[p] # <<>>
  /\ Unmap(p, Head(mmap_list[p]))
  /\ UNCHANGED <<vars, mmap_list, next_mapid, spt, unlocked, exiting, stored>>

\* ... and then the files are closed.
exit_close(p) ==
  /\ exiting = p /\ unmapping[p] = NULL /\ unlocked[p] = <<>>
  /\ mmap_list[p] = <<>>
  /\ open_inodes' = CloseAll(open_inodes, FilesOf(p))
  /\ releasing' \in ReleasedBy(open_inodes, open_inodes')
  /\ exiting' = NULL
  /\ next_mapid' = [next_mapid EXCEPT ![p] = 1]
  /\ fd_table' = [fd_table EXCEPT ![p] = [fd \in Fd |-> NULL]]
  /\ executable' = [executable EXCEPT ![p] = NULL]
  /\ UNCHANGED <<disk, dir, free_map, free_map_file, op, writing, mmap_list, spt,
                 unmapping, unlocked, stored>>

-----------------------------------------------------------------------------
MmapInit ==
  /\ Init
  /\ mmap_list = [p \in Process |-> <<>>]
  /\ next_mapid = [p \in Process |-> 1]
  /\ spt = [p \in Process |-> [g \in Page |-> NULL]]
  /\ unmapping = [p \in Process |-> NULL]
  /\ unlocked = [p \in Process |-> <<>>]
  /\ exiting = NULL
  /\ stored = [p \in Process |-> [g \in Page |-> NULL]]
  /\ crossed = [p \in Process |-> {}]

\* The calls on files, which wait for filesys_lock.
FileCall(p) ==
  /\ Ready(p) /\ exiting = NULL
  /\ \/ \E name \in Name : syscall_open(p, name) \/ load(p, name)
     \/ \E fd \in Fd : \/ syscall_close(p, fd)
                       \/ \E size \in Transfer, v \in Value :
                            syscall_write(p, fd, v, size)
  /\ UNCHANGED mapVars

AnyCall ==
  /\ \/ /\ exiting = NULL
        /\ \E name \in Name : \/ syscall_remove(name)
                              \/ \E size \in Length : syscall_create(name, size)
     \/ filesys_create \/ inode_write_at \/ release
  /\ UNCHANGED mapVars

MmapStep(p) ==
  \/ FileCall(p)
  \/ \E fd \in Fd, addr \in Page, n \in 0 .. UserPages : mmap_map(p, fd, addr, n)
  \/ \E g \in Page : \/ load_page(p, g)
                     \/ \E v \in Value : store(p, g, v)
                     \/ evict(p, g)
  \/ \E i \in 1 .. MaxMapid : munmap(p, i)
  \/ \E kpage \in BOOLEAN : unmap_page(p, kpage)
  \/ file_write_at(p) \/ unmap_close(p) \/ unlocked_release(p)
  \/ exit(p) \/ munmap_all(p) \/ exit_close(p)

\* History.  The sectors that others have read and are about to write, and
\* those they write, while p is at a page of a mapping.
Holds(inode, w) == IF w # NULL /\ w.data # NULL THEN {At(open_inodes[inode], w)} ELSE {}
HeldByOthers(p) ==
  (IF writing = NULL THEN {} ELSE Holds(writing.inode, writing.loop))
  \cup UNION {Holds(unmapping[q].entry.inode, unmapping[q].loop) :
                q \in {q \in Process \ {p} : unmapping[q] # NULL}}

AtPage(u) == IF u = NULL THEN NULL ELSE <<u.entry, u.page>>

Watch ==
  crossed' =
    [p \in Process |->
       IF unmapping[p] = NULL \/ AtPage(unmapping'[p]) # AtPage(unmapping[p]) THEN {}
       ELSE crossed[p] \cup HeldByOthers(p)
            \cup {s \in Sector : disk'[s] # disk[s] /\ unmapping'[p] = unmapping[p]}]

MmapNext == (AnyCall \/ \E p \in Process : MmapStep(p)) /\ Watch

MmapSpec == MmapInit /\ [][MmapNext]_<<vars, mmapVars>>

-----------------------------------------------------------------------------
\* No kernel page to copy the page through, or no bounce buffer.
LacksMemory(p, e, i) == IF unmapping[p].loop = NULL THEN e.frame = NULL
                        ELSE Round(i, unmapping[p].loop) # {}

\* When a page leaves its mapping, by munmap() or by exit, what the process
\* stored in it is in the file, as far as the file reaches, also when the file
\* has been closed and removed in the meantime, and however often the page was
\* evicted and loaded again: the type SWAP, not the dirty bit, remembers that
\* the file no longer has the page's contents.  Three things excuse a byte:
\* writes to the file are denied, no memory was left to copy it through, or
\* another process was writing the same sector, which munmap() does not lock.
StoresReachFile ==
  [][\A p \in Process, g \in Page :
       LET e == spt[p][g]
           i == open_inodes[e.inode]
       IN  stored[p][g] # NULL /\ spt'[p][g] = NULL =>
             \/ i.deny_write_cnt > 0 \/ LacksMemory(p, e, i)
             \/ \A k \in 0 .. e.read_bytes - 1 :
                  LET q == e.offset + k
                      s == byte_to_sector(i, q)
                  IN  \/ s \in crossed[p]
                      \/ disk'[s].data[q % BLOCK_SECTOR_SIZE] = stored[p][g][k]
    ]_<<vars, mmapVars>>

Mappings(s) == {<<p, i>> \in Process \X (1 .. MaxMapid) :
                  i \in DOMAIN mmap_list[p] /\ mmap_list[p][i].inode = s}

\* An inode is open once for each descriptor, running program and mapping,
\* so a mapped file stays readable after close() and remove(); it is denied
\* writes as often as processes run it (the assertions of inode_deny_write()
\* and inode_allow_write()) and no name leads to it once it is marked removed;
\* and the pages in the table of a process are those of its mappings, also
\* after a mapping that failed half-way.
MappingsCounted ==
  /\ \A s \in Sector :
       LET refs == Cardinality(RefsTo(s)) + Cardinality(Runners(s))
                   + Cardinality(Mappings(s))
       IN  IF open_inodes[s] = NULL THEN refs = 0
           ELSE /\ open_inodes[s].open_cnt = refs
                /\ open_inodes[s].deny_write_cnt = Cardinality(Runners(s))
                /\ open_inodes[s].removed => s \notin Named
  /\ \A p \in Process :
       unmapping[p] = NULL =>
         {g \in Page : spt[p][g] # NULL} = UNION {Pages(m) : m \in Range(mmap_list[p])}
=============================================================================
