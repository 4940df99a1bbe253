------------------------------ MODULE LoadImage ------------------------------
(***************************************************************************)
(* How load () (userprog/process.c) turns the program headers of an        *)
(* executable into entries of the supplemental page table, from which page *)
(* faults later fill the pages.  Addresses and sizes wrap around at        *)
(* AddressSpace, 2 ^ 32 in the code.                                       *)
(*                                                                         *)
(* The headers are those that load () could read.                          *)
(*                                                                         *)
(* A header is [type, offset, vaddr, filesz, memsz, writable]; type is     *)
(* load (PT_LOAD), refuse (PT_DYNAMIC, PT_INTERP, PT_SHLIB) or ignore.     *)
(***************************************************************************)
EXTENDS Integers, Sequences, SequencesExt, FiniteSets

CONSTANTS PGSIZE, PHYS_BASE, AddressSpace

Wrap(n) == n % AddressSpace
pg_ofs(a) == a % PGSIZE
pg_round_down(a) == a - (a % PGSIZE)
ROUND_UP(n) == Wrap(((n + PGSIZE - 1) \div PGSIZE) * PGSIZE)
is_user_vaddr(a) == a < PHYS_BASE

\* Mutant: the end of the region is not compared with its start.
NoWrap_unchecked(phdr) == TRUE

NoWrap(phdr) == Wrap(phdr.vaddr + phdr.memsz) >= phdr.vaddr

validate_segment(phdr, file_length) ==
  /\ pg_ofs(phdr.offset) = pg_ofs(phdr.vaddr)
  /\ phdr.offset <= file_length
  /\ phdr.memsz >= phdr.filesz
  /\ phdr.memsz # 0
  /\ is_user_vaddr(phdr.vaddr)
  /\ is_user_vaddr(Wrap(phdr.vaddr + phdr.memsz))
  /\ NoWrap(phdr)
  /\ phdr.vaddr >= PGSIZE

\* How many bytes load () has load_segment () read, and zero.
ReadBytes(phdr) == IF phdr.filesz > 0 THEN Wrap(pg_ofs(phdr.vaddr) + phdr.filesz) ELSE 0
ZeroBytes(phdr) == Wrap(ROUND_UP(Wrap(pg_ofs(phdr.vaddr) + phdr.memsz)) - ReadBytes(phdr))

\* <<success, page table>>.  spt maps pages to their entries; room is the
\* number of entries there is memory for.
RECURSIVE load_segment(_, _, _, _, _, _, _)
load_segment(spt, room, ofs, upage, read_bytes, zero_bytes, writable) ==
  LET page_read == IF read_bytes < PGSIZE THEN read_bytes ELSE PGSIZE
      entry == [file_offset |-> ofs, read_bytes |-> page_read, writable |-> writable]
      with == [p \in DOMAIN spt \cup {upage} |-> IF p = upage THEN entry ELSE spt[p]]
  IN IF read_bytes = 0 /\ zero_bytes = 0 THEN <<TRUE, spt>>
     ELSE IF Cardinality(DOMAIN spt) = room \/ upage \in DOMAIN spt THEN <<FALSE, spt>>
     ELSE load_segment(with, room, ofs + PGSIZE, upage + PGSIZE, read_bytes - page_read,
                       Wrap(zero_bytes - (PGSIZE - page_read)), writable)

load_header(so_far, phdr, room, file_length) ==
  LET spt == so_far[2]
  IN IF ~so_far[1] \/ phdr.type = "ignore" THEN so_far
     ELSE IF phdr.type = "refuse" \/ ~validate_segment(phdr, file_length) THEN <<FALSE, spt>>
     ELSE load_segment(spt, room, pg_round_down(phdr.offset), pg_round_down(phdr.vaddr),
                       ReadBytes(phdr), ZeroBytes(phdr), phdr.writable)

\* setup_stack () adds an entry for the top page of user memory, which a
\* segment may have taken.
StackPage == PHYS_BASE - PGSIZE
setup_stack_page(so_far, room) ==
  LET spt == so_far[2]
      entry == [file_offset |-> 0, read_bytes |-> 0, writable |-> TRUE]
      with == [p \in DOMAIN spt \cup {StackPage} |-> IF p = StackPage THEN entry ELSE spt[p]]
  IN IF ~so_far[1] \/ Cardinality(DOMAIN spt) = room \/ StackPage \in DOMAIN spt
     THEN <<FALSE, spt>> ELSE <<TRUE, with>>

load(headers, room, file_length) ==
  setup_stack_page(FoldLeft(LAMBDA so_far, phdr : load_header(so_far, phdr, room, file_length),
                            <<TRUE, <<>>>>, headers), room)

\* The byte of the file that a page fault puts at address a.  A fault that
\* reads fewer bytes than the entry says kills the process.
Zeroed == -1
Killed == -2
ByteAt(spt, a, file_length) ==
  LET entry == spt[pg_round_down(a)]
  IN IF entry.read_bytes > 0 /\ entry.file_offset + entry.read_bytes > file_length THEN Killed
     ELSE IF pg_ofs(a) < entry.read_bytes THEN entry.file_offset + pg_ofs(a) ELSE Zeroed
=============================================================================
