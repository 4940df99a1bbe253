---------------------------------- MODULE VM ----------------------------------
(***************************************************************************)
(* Virtual memory: the frame table and its clock (vm/frame.c), the         *)
(* supplemental page tables (vm/page.c), swap slots (vm/swap.c), the page  *)
(* fault handler (userprog/exception.c), the system calls that hold a      *)
(* user's buffer in memory (syscall_read and syscall_write), mmap_unmap () *)
(* (vm/mmap.c) and the release of a process's pages at its exit.           *)
(*                                                                         *)
(* Threads run with interrupts on here, so each access to a field that two *)
(* threads share is a step; a section that holds frame_lock or swap_lock   *)
(* and touches only what that lock protects is one step, enabled while the *)
(* lock is free.  An spt_entry is named by its process and page, and its   *)
(* pagedir is that of the process.  Pages are read and written as a whole, *)
(* and a mapped file has one page (module Mmap has their sectors).         *)
(*                                                                         *)
(* pc[p] is where the thread of process p is:                              *)
(*   user     in user code                buffer   is_valid_addr (buffer)  *)
(*   alloc    frame_alloc                 hold     vm_load_page (p, true)  *)
(*   evict    do_eviction, line 72        copy     file_read, file_write   *)
(*   scan     line 78                     unpin    vm_unpin_range          *)
(*   check    line 87                     destroy  spt_destroy_func        *)
(*   take     line 99                     clean    its pagedir_clear_page  *)
(*   clear    line 102                    remove   frame_free              *)
(*   forget   line 103                    release  palloc_free_page        *)
(*   slot     line 115                    give     its swap_free           *)
(*   retype   line 118                    dead     gone                    *)
(*   write    line 119                    crash    freed memory was used   *)
(*   push     frame_alloc, line 39        panic    PANIC: the kernel stops *)
(*   save     mmap_unmap, line 125        rescue   line 134                *)
(*   store    its file_write_at           refund   line 141                *)
(*   exit     munmap_all                                                   *)
(*   load, unswap, forgot, install, map, link, pin: the rest of page_fault *)
(*            and vm_load_page, from the switch on the page's type on      *)
(***************************************************************************)
EXTENDS Integers, Sequences, SequencesExt, FiniteSets, FiniteSetsExt

CONSTANTS
    Process,
    Stack, Data,    \* pages of a process: grown on demand, or backed by a file
    Mapped,         \* the pages of Data that are mapped files
    Kpage,          \* the physical pages of the user pool
    Frame,          \* what malloc () may return for a struct frame
    Slots,          \* number of swap slots
    Used(_),        \* the pages the program of a process touches
    Buffer,         \* the pages in which programs keep their buffers
    Writes(_),      \* what its program may write to the page of an entry
    Exiting,        \* the processes whose programs end
    NULL

ASSUME VMAssumption ==
    /\ Stack \cap Data = {} /\ Mapped \subseteq Data
    /\ Slots \in Nat \ {0}
    /\ Exiting \subseteq Process
    /\ NULL \notin Process \cup Stack \cup Data \cup Kpage \cup Frame

Page == Stack \cup Data
Spte == Process \X Page
Slot == 0..(Slots - 1)
Contents == {"zero", "file"} \cup UNION {Writes(e) : e \in Spte}

VARIABLES
    type, swap_slot, frame,         \* struct spt_entry; type NONE: no entry
    pte, accessed, dirty,           \* the page table entry and its bits
    live, kpage, spte, pinned,      \* struct frame; live: allocated
    frame_table, clock_hand, frame_lock,
    free_pages,                     \* the user pool
    swap_bitmap, disk,              \* slots in use; the swap device
    content,                        \* of the physical pages
    file,                           \* what the file behind a page holds
    pc, page, mode,                 \* where a thread is, for which page and why
    fr,                             \* frame, in frame_alloc () and its callers
    victim, old, kp, was_dirty, sector, \* do_eviction ()'s victim, spte, kpage,
                                    \* dirty and the slot it writes to
    mem,                            \* what each page of a process should hold
    dropped                         \* pages munmap () had no memory to copy

sptVars == <<type, swap_slot, frame>>
pteVars == <<pte, accessed, dirty>>
frameVars == <<live, kpage, spte, pinned>>
tableVars == <<frame_table, clock_hand, frame_lock, free_pages>>
swapVars == <<swap_bitmap, disk>>
localVars == <<page, mode, fr>>
evictVars == <<victim, old, kp, was_dirty, sector>>
mapVars == <<file, dropped>>
vars == <<sptVars, pteVars, frameVars, tableVars, swapVars, content, pc, localVars,
          evictVars, mem, mapVars>>

PC == {"user", "alloc", "evict", "scan", "check", "take", "clear", "forget", "slot",
       "retype", "write", "push", "load", "unswap", "forgot", "install", "map",
       "link", "pin", "buffer", "hold", "copy", "unpin", "destroy", "clean",
       "let", "remove", "release", "give", "save", "store", "rescue", "refund", "exit",
       "dead", "crash", "panic"}

TypeOK ==
    /\ type \in [Spte -> {"NONE", "ZERO", "FILE", "SWAP"}]
    /\ swap_slot \in [Spte -> Slot]
    /\ frame \in [Spte -> Frame \cup {NULL}]
    /\ pte \in [Spte -> Kpage \cup {NULL}]
    /\ accessed \subseteq Spte /\ dirty \subseteq Spte
    /\ live \subseteq Frame
    /\ kpage \in [Frame -> Kpage \cup {NULL}]
    /\ spte \in [Frame -> Spte \cup {NULL}]
    /\ pinned \in [Frame -> BOOLEAN]
    /\ frame_table \in Seq(Frame)
    /\ clock_hand \in Frame \cup {NULL}
    /\ frame_lock \in Process \cup {NULL}
    /\ free_pages \subseteq Kpage
    /\ swap_bitmap \subseteq Slot
    /\ disk \in [Slot -> Contents]
    /\ content \in [Kpage -> Contents]
    /\ pc \in [Process -> PC]
    /\ page \in [Process -> Page \cup {NULL}]
    /\ mode \in [Process -> {"fault", "valid", "pin", "copy", "unmap", "exit"}]
    /\ fr \in [Process -> Frame \cup {NULL}]
    /\ victim \in [Process -> Frame \cup {NULL}]
    /\ old \in [Process -> Spte \cup {NULL}]
    /\ kp \in [Process -> Kpage \cup {NULL}]
    /\ was_dirty \in [Process -> BOOLEAN]
    /\ sector \in [Process -> Slot]
    /\ mem \in [Spte -> Contents] /\ file \in [Spte -> Contents]
    /\ dropped \subseteq Process \X Mapped

\* Programs have been loaded and files mapped: the entries exist, no page is in
\* memory.  What setup_stack () does when it succeeds is what a fault on a page
\* of the stack and a write to it do.
Init ==
    /\ type = [e \in Spte |-> IF e[2] \in Stack THEN "NONE" ELSE "FILE"]
    /\ swap_slot = [e \in Spte |-> 0]
    /\ frame = [e \in Spte |-> NULL]
    /\ pte = [e \in Spte |-> NULL]
    /\ accessed = {} /\ dirty = {} /\ live = {}
    /\ kpage = [f \in Frame |-> NULL]
    /\ spte = [f \in Frame |-> NULL]
    /\ pinned = [f \in Frame |-> FALSE]
    /\ frame_table = <<>> /\ clock_hand = NULL /\ frame_lock = NULL
    /\ free_pages = Kpage /\ swap_bitmap = {}
    /\ disk = [s \in Slot |-> "zero"]
    /\ content = [k \in Kpage |-> "zero"]
    /\ pc = [p \in Process |-> "user"]
    /\ page = [p \in Process |-> NULL]
    /\ mode = [p \in Process |-> "fault"]
    /\ fr = [p \in Process |-> NULL]
    /\ victim = [p \in Process |-> NULL]
    /\ old = [p \in Process |-> NULL]
    /\ kp = [p \in Process |-> NULL]
    /\ was_dirty = [p \in Process |-> FALSE]
    /\ sector = [p \in Process |-> 0]
    /\ mem = [e \in Spte |-> IF e[2] \in Stack THEN "zero" ELSE "file"]
    /\ file = [e \in Spte |-> "file"] /\ dropped = {}

\* Thread p is there and runs.  After a PANIC no thread does, and once memory
\* is corrupt nothing more is said.
At(p, where) ==
    /\ pc[p] = where
    /\ \A q \in Process : pc[q] \notin {"crash", "panic"}

Goto(p, where) == pc' = [pc EXCEPT ![p] = where]

\* free () of a struct frame; palloc_free_page () of a page.  Both overwrite
\* what they free.
FreeFrame(f) ==
    /\ live' = live \ {f}
    /\ kpage' = [kpage EXCEPT ![f] = NULL]
    /\ spte' = [spte EXCEPT ![f] = NULL]
    /\ pinned' = [pinned EXCEPT ![f] = FALSE]

\* The entry the thread of p works on.
Entry(p) == <<p, page[p]>>

\* A thread that uses freed memory, or hits the assertion that tells: the
\* kernel is lost.
Crash(p) ==
    /\ Goto(p, "crash")
    /\ UNCHANGED <<sptVars, pteVars, frameVars, tableVars, swapVars, content,
                   localVars, evictVars, mem>>

-------------------------------------------------------------------------------
(***************************************************************************)
(* The processor.  A program that touches a page which is not present      *)
(* faults; the stack grows.  A kernel thread that copies from or to the    *)
(* buffer of a system call touches it in the same way.                     *)
(***************************************************************************)
Read(e) ==
    /\ accessed' = accessed \cup {e}
    /\ UNCHANGED <<dirty, content, mem>>

Write(e) ==
    /\ accessed' = accessed \cup {e}
    /\ dirty' = dirty \cup {e}
    /\ \E v \in Writes(e) : /\ content' = [content EXCEPT ![pte[e]] = v]
                             /\ mem' = [mem EXCEPT ![e] = v]

access(p, g) ==
    /\ At(p, "user") /\ pte[p, g] # NULL
    /\ Read(<<p, g>>) \/ Write(<<p, g>>)
    /\ UNCHANGED <<sptVars, pte, frameVars, tableVars, swapVars, pc, localVars, evictVars>>

\* page_fault () up to frame_alloc ().
Faulting(p, g, m) ==
    /\ type' = [type EXCEPT ![p, g] = IF @ = "NONE" THEN "ZERO" ELSE @]
    /\ page' = [page EXCEPT ![p] = g]
    /\ mode' = [mode EXCEPT ![p] = m]
    /\ Goto(p, "alloc")
    /\ UNCHANGED <<swap_slot, frame, pteVars, frameVars, tableVars, swapVars, content,
                   fr, evictVars, mem>>

\* A page without an entry, not of the stack, kills its process: process_exit ().
Reachable(p, g) == g \in Stack \/ type[p, g] # "NONE"

page_fault(p, g) ==
    /\ At(p, "user") /\ pte[p, g] = NULL /\ Reachable(p, g)
    /\ Faulting(p, g, "fault")

-------------------------------------------------------------------------------
\* frame_alloc () puts a frame for kernel page k at the end of the table.
PushFrame(f, k) ==
    /\ content' = [content EXCEPT ![k] = "zero"]
    /\ kpage' = [kpage EXCEPT ![f] = k]
    /\ spte' = [spte EXCEPT ![f] = NULL]
    /\ pinned' = [pinned EXCEPT ![f] = FALSE]
    /\ frame_table' = Append(frame_table, f)

frame_alloc(p) ==
    /\ At(p, "alloc") /\ frame_lock = NULL
    /\ \E f \in Frame \ live :
          /\ live' = live \cup {f}
          /\ fr' = [fr EXCEPT ![p] = f]
          /\ IF free_pages = {}
               THEN /\ Goto(p, "evict")
                    /\ UNCHANGED <<content, kpage, spte, pinned, frame_table, free_pages>>
               ELSE \E k \in free_pages : /\ free_pages' = free_pages \ {k}
                                          /\ PushFrame(f, k)
                                          /\ Goto(p, "load")
    /\ UNCHANGED <<sptVars, pteVars, clock_hand, frame_lock, swapVars, page, mode,
                   evictVars, mem>>

\* Mutant: the clock runs without frame_lock.
do_eviction_unlocked(p) ==
    /\ At(p, "evict")
    /\ Goto(p, "scan")
    /\ UNCHANGED <<sptVars, pteVars, frameVars, tableVars, swapVars, content, localVars,
                   evictVars, mem>>

do_eviction(p) ==
    /\ At(p, "evict") /\ frame_lock = NULL
    /\ frame_lock' = p
    /\ Goto(p, "scan")
    /\ UNCHANGED <<sptVars, pteVars, frameVars, frame_table, clock_hand, free_pages,
                   swapVars, content, localVars, evictVars, mem>>

\* The hand as the loop finds it, and the element behind f (NULL is the end).
Hand == IF clock_hand = NULL /\ frame_table # <<>> THEN Head(frame_table) ELSE clock_hand

Behind(f) ==
    LET i == CHOOSE j \in DOMAIN frame_table : frame_table[j] = f
    IN  IF i = Len(frame_table) THEN NULL ELSE frame_table[i + 1]

\* The hand moves on; a hand left on a frame that was freed is followed.
scan(p) ==
    /\ At(p, "scan")
    /\ IF ~ Contains(frame_table, Hand) THEN Crash(p)
       ELSE /\ clock_hand' = Behind(Hand)
            /\ victim' = [victim EXCEPT ![p] = Hand]
            /\ Goto(p, IF pinned[Hand] THEN "scan" ELSE "check")
            /\ UNCHANGED <<sptVars, pteVars, frameVars, frame_table, frame_lock,
                           free_pages, swapVars, content, localVars, old, kp,
                           was_dirty, sector, mem>>

\* Frames that are being filled have no spte; accessed ones get a second chance.
Spared(e) == e = NULL \/ e \in accessed

check(p) ==
    LET e == spte[victim[p]]
    IN  /\ At(p, "check")
        /\ accessed' = accessed \ {e}
        /\ Goto(p, IF Spared(e) THEN "scan" ELSE "take")
        /\ UNCHANGED <<sptVars, pte, dirty, frameVars, tableVars, swapVars, content,
                       localVars, evictVars, mem>>

pagedir_is_dirty(e) == e \in dirty

take(p) ==
    LET e == spte[victim[p]]
    IN  /\ At(p, "take")
        /\ old' = [old EXCEPT ![p] = e]
        /\ kp' = [kp EXCEPT ![p] = kpage[victim[p]]]
        /\ frame_table' = SelectSeq(frame_table, LAMBDA f : f # victim[p])
        /\ was_dirty' = [was_dirty EXCEPT ![p] = pagedir_is_dirty(e)]
        /\ Goto(p, "clear")
        /\ UNCHANGED <<sptVars, pteVars, frameVars, clock_hand, frame_lock, free_pages,
                       swapVars, content, localVars, victim, sector, mem>>

clear(p) ==
    /\ At(p, "clear")
    /\ pte' = [pte EXCEPT ![old[p]] = NULL]
    /\ Goto(p, "forget")
    /\ UNCHANGED <<sptVars, accessed, dirty, frameVars, tableVars, swapVars, content,
                   localVars, evictVars, mem>>

WritesBack(p) == was_dirty[p] \/ type[old[p]] = "SWAP"

forget(p) ==
    /\ At(p, "forget")
    /\ frame' = [frame EXCEPT ![old[p]] = NULL]
    /\ FreeFrame(victim[p])
    /\ victim' = [victim EXCEPT ![p] = NULL]
    /\ frame_lock' = NULL
    /\ Goto(p, IF WritesBack(p) THEN "slot" ELSE "push")
    /\ UNCHANGED <<type, swap_slot, pteVars, frame_table, clock_hand, free_pages,
                   swapVars, content, localVars, old, kp, was_dirty, sector, mem>>

\* swap_alloc () takes the first free slot.
FreeSlots == Slot \ swap_bitmap

NeedsSlot(e) == type[e] # "SWAP" \/ swap_slot[e] = 0

slot(p) ==
    LET e == old[p]
    IN  /\ At(p, "slot")
        /\ IF type[e] = "NONE" THEN Crash(p)
           ELSE /\ \/ /\ NeedsSlot(e) /\ FreeSlots = {}
                      /\ Goto(p, "panic")
                      /\ UNCHANGED <<swap_slot, swap_bitmap>>
                   \/ /\ NeedsSlot(e) /\ FreeSlots # {}
                      /\ swap_bitmap' = swap_bitmap \cup {Min(FreeSlots)}
                      /\ swap_slot' = [swap_slot EXCEPT ![e] = Min(FreeSlots)]
                      /\ Goto(p, "retype")
                   \/ /\ ~ NeedsSlot(e)
                      /\ Goto(p, "retype")
                      /\ UNCHANGED <<swap_slot, swap_bitmap>>
                /\ UNCHANGED <<type, frame, pteVars, frameVars, tableVars, disk, content,
                               localVars, evictVars, mem>>

\* The call of swap_write () reads spte->swap_slot, ...
retype(p) ==
    LET e == old[p]
    IN  /\ At(p, "retype")
        /\ IF type[e] = "NONE" THEN Crash(p)
           ELSE /\ type' = [type EXCEPT ![e] = "SWAP"]
                /\ sector' = [sector EXCEPT ![p] = swap_slot[e]]
                /\ Goto(p, "write")
                /\ UNCHANGED <<swap_slot, frame, pteVars, frameVars, tableVars, swapVars,
                               content, localVars, victim, old, kp, was_dirty, mem>>

\* ... and the page is on disk when it returns.
swap_write(p) ==
    /\ At(p, "write")
    /\ disk' = [disk EXCEPT ![sector[p]] = content[kp[p]]]
    /\ Goto(p, "push")
    /\ UNCHANGED <<sptVars, pteVars, frameVars, tableVars, swap_bitmap, content,
                   localVars, evictVars, mem>>

\* frame_alloc () goes on with the page of the victim.
push(p) ==
    /\ At(p, "push") /\ frame_lock = NULL
    /\ PushFrame(fr[p], kp[p])
    /\ Goto(p, "load")
    /\ old' = [old EXCEPT ![p] = NULL]
    /\ kp' = [kp EXCEPT ![p] = NULL]
    /\ was_dirty' = [was_dirty EXCEPT ![p] = FALSE]
    /\ sector' = [sector EXCEPT ![p] = 0]
    /\ UNCHANGED <<sptVars, pteVars, live, clock_hand, frame_lock, free_pages, swapVars,
                   localVars, victim, mem>>

-------------------------------------------------------------------------------
(***************************************************************************)
(* The second half of page_fault () and of vm_load_page ().  They differ   *)
(* in what they do with the swap slot; vm_load_page () may pin the frame.  *)
(***************************************************************************)
IsFault(p) == mode[p] \in {"fault", "copy"}

\* Mutant: slot 0 is taken for no slot, and nothing is read from it.
Brought_slot(e, k) ==
    CASE type[e] = "FILE" -> file[e]
      [] type[e] = "SWAP" /\ swap_slot[e] # 0 -> disk[swap_slot[e]]
      [] OTHER -> content[k]

\* What the physical page k holds once the page of e is loaded.
Brought(e, k) ==
    CASE type[e] = "FILE" -> file[e]
      [] type[e] = "SWAP" -> disk[swap_slot[e]]
      [] OTHER -> content[k]

load(p) ==
    LET e == Entry(p)
        k == kpage[fr[p]]
    IN  /\ At(p, "load")
        /\ content' = [content EXCEPT ![k] = Brought(e, k)]
        /\ Goto(p, IF type[e] = "SWAP" /\ IsFault(p) THEN "unswap" ELSE "install")
        /\ UNCHANGED <<sptVars, pteVars, frameVars, tableVars, swapVars, localVars,
                       evictVars, mem>>

unswap(p) ==
    /\ At(p, "unswap")
    /\ swap_bitmap' = swap_bitmap \ {swap_slot[Entry(p)]}
    /\ Goto(p, "forgot")
    /\ UNCHANGED <<sptVars, pteVars, frameVars, tableVars, disk, content, localVars,
                   evictVars, mem>>

forgot(p) ==
    /\ At(p, "forgot")
    /\ swap_slot' = [swap_slot EXCEPT ![Entry(p)] = 0]
    /\ Goto(p, "install")
    /\ UNCHANGED <<type, frame, pteVars, frameVars, tableVars, swapVars, content,
                   localVars, evictVars, mem>>

install_page(p) ==
    /\ At(p, "install")
    /\ pte' = [pte EXCEPT ![Entry(p)] = kpage[fr[p]]]
    /\ accessed' = accessed \ {Entry(p)}
    /\ dirty' = dirty \ {Entry(p)}
    /\ Goto(p, "map")
    /\ UNCHANGED <<sptVars, frameVars, tableVars, swapVars, content, localVars,
                   evictVars, mem>>

\* The file is too short or there is no memory for a page table: the frame is
\* given back and the process is killed; a fault of the kernel's own panics.
\* A page that was swapped out was present once and has its page table.
load_fails(p) ==
    /\ At(p, "install") /\ p \in Exiting
    /\ type[Entry(p)] # "SWAP"
    /\ page' = [page EXCEPT ![p] = NULL]
    /\ Goto(p, IF mode[p] = "copy" THEN "panic" ELSE "remove")
    /\ UNCHANGED <<sptVars, pteVars, frameVars, tableVars, swapVars, content, mode, fr,
                   evictVars, mem>>

map(p) ==
    /\ At(p, "map")
    /\ frame' = [frame EXCEPT ![Entry(p)] = fr[p]]
    /\ Goto(p, "link")
    /\ UNCHANGED <<type, swap_slot, pteVars, frameVars, tableVars, swapVars, content,
                   localVars, evictVars, mem>>

\* Going on to where, what is not used there is forgotten.
Leave(p, where) ==
    /\ Goto(p, where)
    /\ fr' = [fr EXCEPT ![p] = NULL]
    /\ page' = IF where = "user" THEN [page EXCEPT ![p] = NULL] ELSE page
    /\ mode' = [mode EXCEPT ![p] = "fault"]

Return(p) == CASE mode[p] = "fault" -> "user"
               [] mode[p] = "valid" -> "hold"
               [] OTHER -> "copy"

link(p) ==
    /\ At(p, "link")
    /\ spte' = [spte EXCEPT ![fr[p]] = Entry(p)]
    /\ IF mode[p] = "pin" THEN Goto(p, "pin") /\ UNCHANGED localVars
       ELSE Leave(p, Return(p))
    /\ UNCHANGED <<sptVars, pteVars, live, kpage, pinned, tableVars, swapVars, content,
                   evictVars, mem>>

pin(p) ==
    /\ At(p, "pin")
    /\ IF fr[p] \notin live THEN Crash(p)
       ELSE /\ pinned' = [pinned EXCEPT ![fr[p]] = TRUE]
            /\ Leave(p, "copy")
            /\ UNCHANGED <<sptVars, pteVars, live, kpage, spte, tableVars, swapVars,
                           content, evictVars, mem>>

-------------------------------------------------------------------------------
(***************************************************************************)
(* syscall_read () and syscall_write () of a file, or to the console, with *)
(* a buffer that has a part in page g.  A read looks at the address of its *)
(* first page only; every page is then loaded to be pinned.                *)
(***************************************************************************)
syscall(p, g) ==
    /\ At(p, "user") /\ Reachable(p, g)
    /\ page' = [page EXCEPT ![p] = g]
    /\ Goto(p, "buffer") \/ Goto(p, "hold")
    /\ UNCHANGED <<sptVars, pteVars, frameVars, tableVars, swapVars, content, mode, fr,
                   evictVars, mem>>

\* vm_load_page (), up to frame_alloc ().
Loading(p, m, next) ==
    IF frame[Entry(p)] # NULL
      THEN /\ Goto(p, next)
           /\ UNCHANGED <<sptVars, pteVars, frameVars, tableVars, swapVars, content,
                          localVars, evictVars, mem>>
      ELSE Faulting(p, page[p], m)

is_valid_addr(p) ==
    /\ At(p, "buffer")
    /\ IF pte[Entry(p)] # NULL
         THEN /\ Goto(p, "hold")
              /\ UNCHANGED <<sptVars, pteVars, frameVars, tableVars, swapVars, content,
                             localVars, evictVars, mem>>
         ELSE Loading(p, "valid", "hold")

vm_load_page(p) ==
    /\ At(p, "hold")
    /\ Loading(p, "pin", "copy")

\* The copy; a fault of the kernel's is served like one of the user's.  After
\* writing to the console the call returns at once.
copy(p) ==
    /\ At(p, "copy")
    /\ IF pte[Entry(p)] # NULL
         THEN /\ \/ /\ Read(Entry(p)) \/ Write(Entry(p))
                    /\ Goto(p, "unpin") /\ UNCHANGED localVars
                 \/ Read(Entry(p)) /\ Leave(p, "user")
              /\ UNCHANGED <<sptVars, pte, frameVars, tableVars, swapVars, evictVars>>
         ELSE Faulting(p, page[p], "copy")

\* With a bad descriptor it returns before the copy.
syscall_bad_fd(p) ==
    /\ At(p, "copy")
    /\ Leave(p, "user")
    /\ UNCHANGED <<sptVars, pteVars, frameVars, tableVars, swapVars, content, evictVars,
                   mem>>

vm_unpin_range(p) ==
    LET f == frame[Entry(p)]
    IN  /\ At(p, "unpin")
        /\ IF f = NULL THEN Leave(p, "user")
           ELSE /\ fr' = [fr EXCEPT ![p] = f]
                /\ Goto(p, "let")
                /\ UNCHANGED <<page, mode>>
        /\ UNCHANGED <<sptVars, pteVars, frameVars, tableVars, swapVars, content,
                       evictVars, mem>>

let(p) ==
    /\ At(p, "let")
    /\ IF fr[p] \notin live THEN Crash(p)
       ELSE /\ pinned' = [pinned EXCEPT ![fr[p]] = FALSE]
            /\ Leave(p, "user")
            /\ UNCHANGED <<sptVars, pteVars, live, kpage, spte, tableVars, swapVars,
                           content, evictVars, mem>>

-------------------------------------------------------------------------------
(***************************************************************************)
(* mmap_unmap () of a file: a page that is in memory is written to the     *)
(* file if need be and freed, one that is in swap is copied through a page *)
(* of the kernel's.  It does not look at frame_lock before frame_free ().  *)
(***************************************************************************)
Unmap(p, g, m) ==
    /\ page' = [page EXCEPT ![p] = g]
    /\ mode' = [mode EXCEPT ![p] = m]
    /\ Goto(p, IF frame[p, g] # NULL THEN "save" ELSE "rescue")
    /\ UNCHANGED fr

munmap(p, g) ==
    /\ At(p, "user") /\ type[p, g] # "NONE"
    /\ Unmap(p, g, "unmap")
    /\ UNCHANGED <<sptVars, pteVars, frameVars, tableVars, swapVars, content, evictVars,
                   mem>>

\* After a page: the next one of munmap_all (), or of hash_destroy ().
Unmapped(p) ==
    /\ page' = [page EXCEPT ![p] = NULL]
    /\ mode' = [mode EXCEPT ![p] = "fault"]
    /\ Goto(p, CASE mode[p] = "unmap" -> "user" [] mode[p] = "exit" -> "exit"
                 [] OTHER -> "destroy")
    /\ UNCHANGED fr

save(p) ==
    LET e == Entry(p)
    IN  /\ At(p, "save")
        /\ IF pagedir_is_dirty(e) \/ type[e] = "SWAP"
             THEN Goto(p, "store") /\ fr' = [fr EXCEPT ![p] = frame[e]]
             ELSE Goto(p, "clean") /\ UNCHANGED fr
        /\ UNCHANGED <<sptVars, pteVars, frameVars, tableVars, swapVars, content, page,
                       mode, evictVars, mem>>

file_write_at(p) ==
    /\ At(p, "store")
    /\ IF fr[p] \notin live THEN Crash(p) /\ UNCHANGED mapVars
       ELSE /\ file' = [file EXCEPT ![Entry(p)] = content[kpage[fr[p]]]]
            /\ Goto(p, "clean")
            /\ UNCHANGED <<sptVars, pteVars, frameVars, tableVars, swapVars, content,
                           localVars, evictVars, mem, dropped>>

\* Mutant: slot 0 is taken for no slot.
InSwap_slot(e) == type[e] = "SWAP" /\ swap_slot[e] # 0

InSwap(e) == type[e] = "SWAP"

\* Without memory the page is not saved.
rescue(p) ==
    LET e == Entry(p)
    IN  /\ At(p, "rescue")
        /\ \/ /\ InSwap(e)
              /\ Goto(p, "refund") /\ UNCHANGED <<type, localVars>>
              /\ \/ file' = [file EXCEPT ![e] = disk[swap_slot[e]]] /\ UNCHANGED dropped
                 \/ dropped' = dropped \cup {e} /\ UNCHANGED file
           \/ /\ ~ InSwap(e)
              /\ type' = [type EXCEPT ![e] = "NONE"]
              /\ Unmapped(p)
              /\ UNCHANGED mapVars
        /\ UNCHANGED <<swap_slot, frame, pteVars, frameVars, tableVars, swapVars, content,
                       evictVars, mem>>

refund(p) ==
    /\ At(p, "refund")
    /\ swap_bitmap' = swap_bitmap \ {swap_slot[Entry(p)]}
    /\ type' = [type EXCEPT ![Entry(p)] = "NONE"]
    /\ Unmapped(p)
    /\ UNCHANGED <<swap_slot, frame, pteVars, frameVars, tableVars, disk, content,
                   evictVars, mem>>

-------------------------------------------------------------------------------
(***************************************************************************)
(* process_exit () unmaps the files and destroys the supplemental page     *)
(* table, entry by entry.                                                  *)
(***************************************************************************)
process_exit(p) ==
    /\ At(p, "user") /\ p \in Exiting
    /\ Goto(p, "exit")
    /\ UNCHANGED <<sptVars, pteVars, frameVars, tableVars, swapVars, content, localVars,
                   evictVars, mem>>

munmap_all(p) ==
    LET left == {g \in Mapped : type[p, g] # "NONE"}
    IN  /\ At(p, "exit")
        /\ IF left = {} THEN Goto(p, "destroy") /\ UNCHANGED localVars
           ELSE \E g \in left : Unmap(p, g, "exit")
        /\ UNCHANGED <<sptVars, pteVars, frameVars, tableVars, swapVars, content,
                       evictVars, mem>>

spt_destroy_func(p) ==
    LET entries == {g \in Page : type[p, g] # "NONE"}
    IN  /\ At(p, "destroy")
        /\ IF entries = {} THEN Goto(p, "dead") /\ UNCHANGED page
           ELSE \E g \in entries :
                  /\ page' = [page EXCEPT ![p] = g]
                  /\ Goto(p, IF frame[p, g] # NULL THEN "clean" ELSE "give")
        /\ UNCHANGED <<sptVars, pteVars, frameVars, tableVars, swapVars, content, mode,
                       fr, evictVars, mem>>

clean(p) ==
    /\ At(p, "clean")
    /\ IF frame[Entry(p)] = NULL THEN Crash(p)
       ELSE /\ pte' = [pte EXCEPT ![Entry(p)] = NULL]
            /\ fr' = [fr EXCEPT ![p] = frame[Entry(p)]]
            /\ Goto(p, "remove")
            /\ UNCHANGED <<sptVars, accessed, dirty, frameVars, tableVars, swapVars,
                           content, page, mode, evictVars, mem>>

frame_free(p) ==
    /\ At(p, "remove") /\ frame_lock = NULL
    /\ IF ~ Contains(frame_table, fr[p]) THEN Crash(p)
       ELSE /\ frame_table' = SelectSeq(frame_table, LAMBDA f : f # fr[p])
            /\ Goto(p, "release")
            /\ UNCHANGED <<sptVars, pteVars, frameVars, clock_hand, frame_lock,
                           free_pages, swapVars, content, localVars, evictVars, mem>>

\* Mutant: the struct is freed and the page is not.
PoolWith_lost(k) == free_pages

PoolWith(k) == free_pages \cup {k}

release(p) ==
    /\ At(p, "release")
    /\ IF kpage[fr[p]] \in free_pages THEN Crash(p)
       ELSE /\ free_pages' = PoolWith(kpage[fr[p]])
            /\ FreeFrame(fr[p])
            /\ fr' = [fr EXCEPT ![p] = NULL]
            /\ content' = [content EXCEPT ![kpage[fr[p]]] = "zero"]
            /\ Goto(p, IF page[p] = NULL THEN "exit" ELSE "give")
            /\ UNCHANGED <<sptVars, pteVars, frame_table, clock_hand, frame_lock, swapVars,
                           page, mode, evictVars, mem>>

give(p) ==
    LET e == Entry(p)
    IN  /\ At(p, "give")
        /\ swap_bitmap' = IF type[e] = "SWAP" /\ swap_slot[e] # 0
                            THEN swap_bitmap \ {swap_slot[e]} ELSE swap_bitmap
        /\ type' = [type EXCEPT ![e] = "NONE"]
        /\ Unmapped(p)
        /\ UNCHANGED <<swap_slot, frame, pteVars, frameVars, tableVars, disk, content,
                       evictVars, mem>>

-------------------------------------------------------------------------------
Step(p) ==
    \/ frame_alloc(p) \/ do_eviction(p) \/ scan(p) \/ check(p) \/ take(p) \/ clear(p)
    \/ forget(p) \/ slot(p) \/ retype(p) \/ swap_write(p) \/ push(p)
    \/ load(p) \/ unswap(p) \/ forgot(p) \/ install_page(p) \/ load_fails(p) \/ map(p)
    \/ link(p) \/ pin(p)
    \/ is_valid_addr(p) \/ vm_load_page(p) \/ copy(p) \/ syscall_bad_fd(p)
    \/ vm_unpin_range(p) \/ let(p)
    \/ save(p) \/ refund(p) \/ munmap_all(p)
    \/ spt_destroy_func(p) \/ clean(p) \/ frame_free(p) \/ release(p) \/ give(p)

Program(p) ==
    \/ \E g \in Used(p) : access(p, g) \/ page_fault(p, g)
    \/ \E g \in Used(p) \cap Buffer : syscall(p, g)
    \/ \E g \in Used(p) \cap Mapped : munmap(p, g)
    \/ process_exit(p)

WritesFile(p) == file_write_at(p) \/ rescue(p)

Next == \E p \in Process : \/ (Step(p) \/ Program(p)) /\ UNCHANGED mapVars
                          \/ WritesFile(p)

Spec == Init /\ [][Next]_vars

-------------------------------------------------------------------------------
(***************************************************************************)
(* Memory is memory: a page that a process can reach holds what the        *)
(* process last wrote to it, or what it was loaded with, however often it  *)
(* was evicted, swapped out and brought back (do_eviction (), page_fault   *)
(* () and vm_load_page ()), although 0 is both a swap slot and the mark of *)
(* having none.  It is a property of one process: docs/p3a.md 182 claims   *)
(* it of two, which can lose writes.                                       *)
(***************************************************************************)
ReadsLastWrite == \A e \in Spte : pte[e] # NULL => content[pte[e]] = mem[e]

Uses(k) ==
    Cardinality({f \in Range(frame_table) : kpage[f] = k})
    + Cardinality({p \in Process : kp[p] = k})
    + Cardinality({p \in Process : pc[p] = "release" /\ kpage[fr[p]] = k})
    + (IF k \in free_pages THEN 1 ELSE 0)

(***************************************************************************)
(* Every physical page has one use: it is in the pool, or in one frame of  *)
(* the table, or in the hands of one thread that evicts or frees it        *)
(* (frame_alloc (), do_eviction (), frame_free ()); no two pages share it. *)
(* A frame that page_fault () or vm_load_page () is reading into is not    *)
(* evicted, although it is on the table and not pinned.                    *)
(***************************************************************************)
OneUse ==
    /\ TypeOK
    /\ \A k \in Kpage : Uses(k) = 1
    /\ \A e, d \in Spte : pte[e] # NULL /\ pte[e] = pte[d] => e = d
    /\ \A p \in Process :
          pc[p] \in {"load", "unswap", "forgot", "install", "map", "link"} =>
              fr[p] \in live /\ Contains(frame_table, fr[p])

(***************************************************************************)
(* A file that is no longer mapped holds what the process last wrote to    *)
(* its page, through the program or the buffer of a call, whether the page *)
(* was in memory, evicted or read back by page_fault () or vm_load_page () *)
(* when mmap_unmap () came to it, unless there was no memory to copy it.   *)
(***************************************************************************)
UnmappedSaved ==
    \A e \in Process \X Mapped : type[e] = "NONE" => file[e] = mem[e] \/ e \in dropped

(***************************************************************************)
(* When every process has exited, also after a load that failed, the user  *)
(* pool is full again: frame_free () was called once for each frame.       *)
(***************************************************************************)
PagesReturned == (\A p \in Process : pc[p] = "dead") => free_pages = Kpage
===============================================================================
