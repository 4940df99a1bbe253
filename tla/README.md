# A TLA+ development for the Pintos kernel in `src/pintos/src`

Pintos is a small teaching kernel for one 80x86 processor. This directory holds
TLA+ models of it, TLC configurations that check them on small instances, and
TLAPS proofs of the properties that matter most, for any number of threads,
locks and processes. `PROJECT.json` lists the components, the runs, the source
lines behind every definition, the hazards and the theorems.

    tlc -workers 2 -config Synch.cfg MCSynch          # a run
    tlapm SynchTheorems.tla                           # the proofs of a module

## 1. The system

| component | state | operations | what makes it correct |
|---|---|---|---|
| scheduler (`threads/thread.c`) | `status`, `priority`, `base_priority`, `donated_priority`, `ready_list`, the running thread | create, exit, yield, block, unblock, set_priority, preemption | one running thread; the run queue holds the ready ones; the highest priority runs; equal threads take turns |
| feedback-queue scheduler (`threads/thread.c`, `fixedpoint.h`) | `nice`, `recent_cpu`, `load_avg` | recomputation every tick, slice and second | the front of the run queue is the highest; values stay in range |
| timer (`devices/timer.c`) | `sleeping_list`, `wakeup_tick` | `timer_sleep`, `timer_interrupt` | a sleeper wakes on its tick |
| synchronization (`threads/synch.c`) | semaphore value and waiters; lock holder, `max_priority`, held and awaited locks; condition waiters | down, try_down, up, acquire, try_acquire, release, wait, signal, broadcast | mutual exclusion; no lost wake-up or signal; priorities follow base and donations |
| processes (`userprog/process.c`) | `struct process`: children, `ref_count`, `loaded`, `waited`, `exit_status`, `wait_sema`, `lock` | execute, start, wait, exit | no use after free, no leak; exec and wait get the right answer and return |
| virtual memory (`vm/frame.c`, `page.c`, `swap.c`, `userprog/exception.c`) | frame table, clock hand, supplemental page tables, swap bitmap | fault, allocate, evict, load, pin, free | a frame has one owner; contents survive eviction |
| file system (`filesys/*.c`, `userprog/syscall.c`) | open inodes, free map, directory, descriptors | create, open, close, remove, read, write, seek, run | sectors owned once; removed files live until the last close; restarts keep named files |
| memory-mapped files (`vm/mmap.c`) | list of mappings, their page table entries | map, unmap, unmap at exit | stores reach the file |
| console (`devices/intq.c`, `serial.c`, `input.c`, `lib/kernel/console.c`) | ring buffers, waiting reader and writer, console lock | getc, putc from threads and handlers, panic, shutdown | bytes in order, strings whole, nothing stuck |
| disks (`devices/ide.c`, `block.c`, `partition.c`) | per channel: lock, `expecting_interrupt`, semaphore | identify, read, write, interrupt | a read returns the last write; every request is answered |
| kernel memory (`threads/palloc.c`, `malloc.c`) | pool bitmaps; arenas, free lists | get, free; malloc, realloc, free | blocks disjoint, nothing leaks |
| library (`lib/`, `lib/kernel/`), image of a program (`process.c`), keyboard (`kbd.c`), partition tables | pointers, buckets, words, shift keys | list, hash, bitmap, string, number and printing functions | agree with sequences, sets and the C standard |

Everything above the scheduler blocks and wakes through semaphores; locks are
semaphores with a holder; processes synchronise with a semaphore and a lock
each and share `filesys_lock`; page faults and system calls use the frame
table, which writes to swap and, through mappings, to files; files and swap are
partitions of one ATA channel.

The timer interrupt preempts any code that runs with interrupts on, so each
function of `synch.c`, `process.c` and `vm/` can be cut between two accesses.
The hazards this leads to, each at its line, are in `PROJECT.json`.

## 2. Modules

| module | models | extends / instances |
|---|---|---|
| `KernelList` | the list operations of scheduler and locks, on sequences | |
| `Threads` | run queue and thread states as operators | `KernelList` |
| `AlarmClock` | threads under the timer interrupt, `timer_sleep` | `Threads` |
| `Mlfqs` | the feedback-queue scheduler next to the priority scheduler | `AlarmClock` |
| `AbstractLock` | what a lock promises | |
| `Synch` | semaphores, locks with donation, conditions | `Threads`; refines `AbstractLock` |
| `Process` | execute, load, wait, exit | takes locks as `AbstractLock` has them |
| `VM` | frame table, clock, swap, page faults, pinned buffers, release at exit | |
| `AbstractFiles` | what the calls on files promise | |
| `FileSys` | free map, inodes, directory, files, descriptors, stops of the machine | refines `AbstractFiles` (in `MCFileSys`) |
| `Mmap` | mappings, their pages, write-back | `FileSys` |
| `Terminal` | interrupt queues, serial port, console lock, panic, shutdown | |
| `Disk` | block layer, partitions, ATA channel, the disk | |
| `Memory` | page allocator and `malloc` | |
| `PointerList`, `HashTable`, `Bitmap`, `Strings`, `Arithmetic`, `Printf`, `LoadImage`, `Keyboard`, `Partitions` | one source file or function of the library each | composed by `Library` |
| `ThreadsTheorems` | lemmas about the lists and about the operators of the scheduler | `Threads` |
| `SynchTheorems` | the proofs about `Synch` | `ThreadsTheorems` |
| `AlarmClockTheorems` | the proofs about `AlarmClock` and `Mlfqs` | `ThreadsTheorems` |
| `ProcessTheorems`, `FileSysTheorems`, `DiskTheorems`, `TerminalTheorems`, `MemoryTheorems` | the proofs about one module each | |
| `MC...` | instances for TLC | |

Definitions whose comment begins with *Mutant* are deliberate faults: each
replaces a definition of the model in turn to show that a property notices.

### Scheduler, alarm clock, feedback queue

A list is a sequence without repetitions, greater keys first.
`list_insert_ordered` puts an element behind its equals, and `list_sort` is
defined by the final rank of each element, which is what the stable merge sort
of `list.c` computes (`PointerList` has that sort itself, on pointers).

One processor makes every step with interrupts off atomic. `Threads` gives
those steps as operators over the current values of `status`, `priority` and
`ready_list`, because callers change these before they reschedule.
`AlarmClock` makes actions of them: any running thread may create a thread,
exit, yield, sleep or set its priority, and `timer_interrupt` may come at any
time. `wakeup[t]` is the part of `t`'s sleep that is left, so the model is
finite without a bound on time. `thread_create` is two steps, because
`allocate_tid` releases a lock, and that yields; that a thread may have to wait
for this lock is left out, and the wake-up of the new thread and the yield to it
are one step, before which a timer interrupt would do the same yield.

`Mlfqs` adds the option `-mlfqs`, chosen initially. With it priorities follow
from `recent_cpu`, `nice` and `load_avg` in fixed-point numbers with `F` steps
to one (2^14 in the code), recomputed by the timer. `thread_set_nice` is two
steps: it sorts the run queue with interrupts on, after the priority changed.

### Synchronization

Functions that run with interrupts on are split at their accesses to shared
fields: `lock_release` reads the maximum of the remaining locks, stores it,
clears the holder, ups the semaphore and resets the priority, with preemption
possible between any two. `sema_down` is a loop: a woken thread looks at the
value again. `AbstractLock`'s owner is the thread that has taken the
semaphore, which during `lock_try_acquire` and `lock_release` is not the same
as `holder`; that is the refinement mapping.

Two abstractions. `sema_up` and `thread_set_priority` turn interrupts on again
just before the yield they end with; the model makes the update and the yield
one step, and a timer interrupt in that gap does the same yield itself; callers
of `Synch` have interrupts on (`intq.c`, which does not and where `sema_up` does
not yield, is in `Terminal`). The thread's list of held locks is a set, since
only its maximum is read.

### Processes

Every process has the default priority, so any interleaving of their steps can
happen. Critical sections that others only wait for are one step, enabled while
the lock is free; the section of `process_wait` that a child meets with
`lock_try_acquire` in `process_exit` is two steps. `load` is an outcome: it
succeeds, fails, or faults while it builds the stack; the fault kills the
process inside `load`, with `filesys_lock` held. Each member of `Process` is
used once, as thread identifiers are. What `load` builds is in `LoadImage`
(segments to page table entries) and `Strings` (command line to stack).

### Virtual memory

`VM` follows a thread through `page_fault` or `vm_load_page`, `frame_alloc` and
`do_eviction`, one step per access to a field that another thread can reach:
`pc` names the line. A section under `frame_lock` or `swap_lock` is one step
where it touches only what the lock protects; `do_eviction` holds `frame_lock`
over many steps, because owners write `spte->frame`, `frame->spte` and the page
table without it. `munmap` is there too, field by field: its look at the frame
and the dirty bit, the write of the file, `frame_free`, which may leave
`clock_hand` on the freed frame, and the copy of a swapped page. The contents of
a page are one value, chosen by the constant `Writes`; `mem` is the abstract
memory, what each page should hold, and `file` what the file behind a mapped
page holds. A pointer
to freed memory that is followed leads to `crash`, a `PANIC` to `panic`, and no
thread moves after either. The checks of the stack pointer are left out: the
pages in `Stack` are those a program may grow into.

### Files and mappings

Calls on files run under `filesys_lock`. Creation, the release of a removed file
and a write are broken at their accesses to the disk, because the machine can be
switched off between any two, and because `munmap` does not take the lock; any
other call writes the disk at most once and is one step. A write goes sector by
sector, and a sector that it changes in part is read and written back through a
bounce buffer, which `malloc` may refuse: the write then ends short. The same
refusal ends a read of the directory short, and `dir_add` takes that for the end
of the directory and writes over an entry in use (`ShortReads`). `restart`
rebuilds memory from the disk. The free map has a copy in memory and one on
disk. When a process exits, its files are closed in one step, and the runs of
those that were removed and have no other user are released one by one, in any
order of the files. Bytes are modelled one by one, with sectors of two, so that
writes may begin and end inside a sector. A size or position of 2^31 bytes or
more stops the kernel by an assertion (`inode.c` 78, `file.c` 157), which is
`restart` for the files. `AbstractFiles` knows names, contents, descriptors and
running programs, and no disk.

`mmap` and `munmap` take no `filesys_lock`, so `Mmap` lets their steps fall
between those of other calls, and the sectors of a write-back between those of
another process's write. A page is loaded or evicted in one step here, and not
while it is being written back; how `munmap` meets an eviction is in `VM`. The
last close of a mapped file (`mmap.c` 146: `--open_cnt`, `list_remove`, `free`)
is one step.

### Console, disks, kernel memory

`Terminal` has one step per stretch with interrupts off. The serial port polls
during boot, uses interrupts afterwards, and polls again in a panic and in the
flush of a shutdown, after which threads and handlers go on until the machine is
off. What interrupt handlers print, past the console lock, is left out. `Disk`
takes a request from the block layer through `ide_read` or `ide_write`; the disk
is a set of actions of its own, which may abort a command and raise an interrupt
that nobody asked for, but reports no error once a write's data has been
transferred. The waits of the driver for the status register are guards: the
disk answers within the driver's time-outs. `Memory` has `palloc_get_multiple`
scan the bitmap under the pool's lock while `palloc_free_multiple` clears bits
without it, and the arenas of `malloc` above, addresses included; no request is
so large that `size + sizeof *a` wraps around (`malloc.c` 109), as none of the
kernel's is.

### Library

The parts share no state, so a behaviour of `Library` exercises one of them,
chosen initially. Two lists, a hash table (whose `rehash` may find no memory), a
bitmap and the keyboard go through any sequence of calls. A function is called
once with every argument of the instance, and its result is compared with a
definition that says what it is, not how it is computed. Where the code departs
from its own comment, the result is left open, and section 3 lists the place.
Words, pages and addresses are small, and wrap around as they do in the code.

## 3. What is checked

| run | instance | properties |
|---|---|---|
| `alarm_clock` | 4 threads and idle, 3 priorities, sleeps of up to 2 ticks, slices of 2; with `-mlfqs` 3 threads, seconds of 4 ticks, 3 calls | `ThreadsAccounted`, `UsageBounded`, `SchedulesByPriority`, `WakesOnTick`, `ReadyGetsTurn` |
| `synch` | 3 threads with 2 locks at 3 priorities and a try-lock, or 1 lock and 1 semaphore raised by threads and handlers, or 1 lock and 1 condition | `MutualExclusion`, `LocksAreMutexes` (refinement), `HighestRuns`, `PriorityEarned`, `NoLostWakeup`, `NoLostSignal` |
| `process` | `run_task` and 2 processes, a file call each, loads that succeed, fail or fault | `NoUseAfterFree`, `WakeupsMeanIt`, `NothingLeft`, `ParentReturns` |
| `exit_reported` | the same; expects a violation | `ExitReported` |
| `vm_one` | 1 process, 3 pages (stack, data, mapped file), 2 frames, 3 slots, failing loads, system calls, munmap, exit | `ReadsLastWrite`, `UnmappedSaved`, `PagesReturned` |
| `vm_two` | 2 processes with 2 pages and 1 page, 2 frames, 1 slot, system calls, munmap | `OneUse` |
| `files` | 2 processes, 2 names and a bad one, 8 sectors of 2 bytes, files of 1 and 3 bytes, writes of up to 3, no short reads of the directory | `SectorsOwnedOnce`, `LostOnlyByFailure`, `FilesAsPromised` (refinement) |
| `mmap` | 1 process that maps and 1 that creates, writes, runs and removes, a file of one page and a part, 2 user pages, 2 mappings, short reads | `MappingsCounted`, `StoresReachFile` |
| `terminal` | 2 readers, 2 writers of 2 bytes, buffers for 2 bytes, 2 bytes of input | `BytesInOrder`, `EverythingArrives` |
| `disk` | 2 threads, 2 partitions of one disk and a disk too large, 1 abort, 1 stray interrupt | `ReadsLastWritten`, `AcknowledgedIfExpected`, `PartitionsApart`, `RequestsFinish` |
| `memory` | 2 threads, 3 kernel and 2 user pages of 16 bytes, blocks of 2 and 4 bytes, 2 allocations at a time | `NoOverlap`, `NothingLeaks`, `FailsOnlyWhenFull`, `CallsReturn` |
| `library` | 4 list elements, 5 elements in up to 4 buckets, bitmaps of up to 7 bits in words of 3, strings of 3 characters, command lines of 6, words of 4 bits to divide by and of 8 bits to read, arrays of 6 | `ContainersHold`, `StringsAsPromised`, `NumbersKept`, `ProgramsStart`, `KeysGiveCharacters`, `PartitionsOnDisk` |

Every property of a passing run has a mutant of the model, listed in
`PROJECT.json`, that violates it. A property that is a conjunction (those of
`library` in particular) has one mutant, which breaks one of its conjuncts.

Why the bounds are enough. Three threads give a low holder, a high waiter and a
thread in between or at the other end of a chain; two locks give a chain and a
deadlock cycle; a semaphore value of 1 beyond zero gives the overtaking of a
woken waiter. Two ticks of sleep with a slice of two let a sleep end inside, at
the end of, and after a slice. Two processes besides `run_task` give two
children in turn, a grandchild, and an orphan. One page more than frames keeps
the clock busy; with 3 pages and 3 slots a page meets slot 0, a slot other than
0, and a swap partition that is full. In `vm_two` two threads can both be
evicting at once. Eight sectors are too few for all the files there may be, so
creation fails for want of space; a write of 3 bytes changes two sectors, one of
them in part. A file of one page and a part has a page that the file ends in. A
short read of the directory is in `mmap` and in the proofs, not in `files`,
where it would end what `FilesAsPromised` promises. Buffers of two bytes fill up
and wrap around under two strings of two. One stray interrupt is enough to end a
wait early; more add the same again. An arena has two blocks or one, so it is
emptied and given back. Five elements, two of them equal, make the hash table
grow and shrink twice.

Fairness. `Mlfqs`'s `FairMlfqsSpec` assumes that timer interrupts keep coming,
and nothing of the threads. `Process`'s `FairSpec` assumes that a thread inside
the kernel that can take its next step eventually does; `ReadyGetsTurn`
justifies it, all processes having the same priority. No fairness is assumed of
what user programs call. `Terminal` assumes the same of threads, that an
asserted interrupt is taken and that the port transmits what it is given.
`Disk` assumes that the disk answers a command and that its interrupt is taken,
and strong fairness of `lock_acquire`: the waiters of equal priority are served
in the order of their coming, so a thread is not passed over for ever; `Memory`
assumes strong fairness of the threads' steps for the same reason.

Deadlock is not checked (`CHECK_DEADLOCK FALSE`) where the system may stop:
processes that have all exited, a kernel that panicked or was switched off, and
a library call that was made.

### Disagreements between the code and what it says of itself

`exit_reported` is a run: a child that exits while its parent is preempted
inside `process_wait`'s critical section loses its exit status or its exit
message, because `process_exit` only tries the lock (`process.c` 305, 274).

The others were met while modelling. Unless the entry says that it is left out,
the models contain the behaviour, and the properties either leave the case open
or name it as an exception.

Virtual memory and mapped files:

* `docs/p3a.md` 182 says that evicting a page is atomic, and line 128 that
  `frame_lock` protects every operation on frames. `do_eviction` gives
  `frame_lock` up before the page is in swap (`frame.c` 113), so with two
  processes `ReadsLastWrite` fails; `spt_destroy_func` (`page.c` 49) and `munmap`
  (`mmap.c` 123-128) read `frame` without the lock, so the model can follow a
  freed pointer (`crash`). `vm_two` claims neither.
* `frame_free` does not move the clock hand off the frame it frees (`frame.c`
  59), also when `munmap` calls it (`mmap.c` 128): the next eviction follows the
  hand into freed memory. `docs/p3a.md` 151 has the hand go on from where it
  stopped.
* `docs/p3b.md` 114 says that a swap slot is freed once it is read;
  `vm_load_page` keeps it (`page.c` 117), and slot 0, which also stands for no
  slot, is never freed (`page.c` 55).
* A page that is already resident is not pinned for a system call (`page.c`
  96); calls that return early leave frames pinned, and when all are, the clock
  never ends (`frame.c` 85).
* Unmapping drops a stored page if no kernel page is left to copy it through
  (`mmap.c` 134), and its write-back takes no `filesys_lock` (`mmap.c` 126), so a
  sector that another process writes in part meanwhile may lose either's bytes:
  the excuses of `StoresReachFile`.
* If `setup_stack` fails after `install_page` (`process.c` 655-679), it frees a
  frame that is still mapped, and `pagedir_destroy` frees its page again; left
  out.

Files:

* `directory.c` 162-164 says that a read comes back short only at the end of
  a file, but `inode_read_at` also ends when `malloc` fails (`inode.c` 235).
  `dir_add` then takes a slot in use for a free one and writes over its name,
  whose sectors are lost. `LostOnlyByFailure` names this as one of the ways to
  lose sectors; `FilesAsPromised` is checked without it.

Threads and processes:

* `lock_release` reads the maximum of the remaining donations and stores it
  later (`synch.c` 328); a donation in between is forgotten. A donor that
  arrives between the store and the clearing of `holder` (`synch.c` 333) leaves
  its donation behind after the release.
* A thread that takes a lock for which others wait records the maximum of their
  priorities in the lock, not in its own priority (`synch.c` 262-275), and a
  condition orders its waiters by the priorities they had when they began to
  wait (`synch.c` 411).
* A failed load leaks the struct process (`process.c` 172), and a fault inside
  `load` leaves `filesys_lock` taken for ever (`process.c` 301).
* `init_process` ignores the result of `hash_init` (`process.c` 60): a process
  whose table found no memory starts with it; left out, tables have memory.
* A segment in the page below `PHYS_BASE` makes `setup_stack` fail, as the entry
  of that page is taken (`process.c` 674).
* A blank command line panics the kernel. As many words as fill the page of
  `argv` exactly make line 112 of `process.c` write behind the page, and with
  some hundred words fewer `argc_ptrs[argc + 1]` (`process.c` 689) no longer fits
  the kernel stack, which `thread.h` 68-79 warns of. `Strings` has these outcomes;
  `ProgramsStart` claims nothing of such lines.
* With `-mlfqs` `thread_set_nice` does not yield when its priority drops, and
  `thread_get_recent_cpu` multiplies by 100 in 32 bits (`thread.c` 521), which
  overflows within what `UsageBounded` allows for five threads.

Devices:

* `serial_flush` is not the last output of a shutdown: `shutdown_power_off` goes
  on with interrupts on (`serial.c` 140, `shutdown.c` 88-120), and bytes queued
  then may be lost. `EverythingArrives` speaks of what was printed before.
* A reader that had to wait for the queue's lock calls `wait` without looking at
  the queue again (`intq.c` 46-47); if a byte has come meanwhile, the assertion
  of lines 86-91 stops the kernel, and `EverythingArrives` promises the readers
  nothing.
* Output of an interrupt handler takes no console lock (`console.c` 88-97) and
  can cut into a thread's string; left out.
* `expecting_interrupt` is never reset (`ide.c`), so a stray interrupt counts as
  a completion and a write may return before its data is on the medium; reads
  are right even so, because the driver looks at the status. `ide_write` does not
  look at it after the transfer (`ide.c` 375); an error at that point is left
  out.
* `read_partition_table` reads sector 0 at every level (`partition.c` 91), its
  comment (line 36) the sector it is given; an extended partition can make it
  recurse without end.

Library:

* `strlcat` writes no terminator when `dst` already fills `size` (`string.c`
  365), its comment (345-347) says always; `memmove` returns the end of the
  copy when it copies forwards (line 45), its comment (21-22) says DST;
  `strrchr` does not find the terminator. `StringsAsPromised` leaves these open.
* `umod64` and `smod64` return one word of the remainder, their comments
  (`arithmetic.c` 129-130, 148-149) the remainder. `NumbersKept` is about
  remainders of one word.
* `bitmap_scan_and_flip` with a count of zero returns its start, the comment
  says 0; a zero-padded field with a negative width from the arguments is padded
  on both sides (`stdio.c` 373, 390).

## 4. What is proved

All for any sets of threads, locks, semaphores, conditions, processes, pages,
buffers and priorities that satisfy the named `ASSUME`s, which TLC evaluates in
the runs. They say what C types, assertions and the boot code guarantee: sizes
are natural numbers, priorities lie in a range, a bitmap fits into its pool,
`TIMER_FREQ` is a multiple of `TIME_SLICE`, the device has room for the system's
sectors, there are finitely many processes, and `NULL` is none of the values it
is compared with.

* `ThreadsTheorems`: insertion and sorting keep the elements of a list, keep
  them distinct and give an ordered list; the front of an ordered list is
  greatest; block, yield, unblock and set_priority keep `SchedulerOK`,
  `HighestRuns` and the order of the run queue. Sorting is by rank, so that it
  is a permutation is a counting argument, not an induction.
* `SynchTheorems`: `Spec => []IInv` for an inductive invariant `IInv`, from
  which follow type correctness, `MutualExclusion`, `SchedulerOK`,
  `HighestRuns`, `WaitersAreBlocked`, `PriorityEarned`, and the refinement
  `Spec => LocksAreMutexes`. `MutualExclusion` counts a thread inside
  `lock_try_acquire` or `lock_release` as an owner, but is not inductive alone:
  `IInv` adds `Where`, which ties a thread's argument to the place it is at,
  `LockFields`, which ties `holder` and `waiting_lock` to the threads' own view,
  `WaitersAreBlocked`, by which the waiters of a semaphore are exactly the
  threads blocked in `sema_down` on it, and the order of the run queue, which
  `HighestRuns` rests on. On top of `IInv`, `NoLostWakeup` is inductive: one
  step changes a value and the set of woken threads by at most one each, and
  in step. `NoLostSignal` needs `CondCleared`, that a thread which is not inside
  `cond_wait` waits on no condition, so that the `lock_release` of others is told
  apart from its own. The lemmas come first: what a donation, a wake-up and a
  wait do, then the types and the locks, the scheduler, the priorities, the
  initial state and the counting arguments.
* `AlarmClockTheorems`: under either scheduler `ThreadsAccounted`,
  `WakesOnTick`, `SchedulesByPriority` and `UsageBounded`. `ClockInv` adds to
  the first that the run queue and the sleeping list are ordered and hold
  exactly the ready and the sleeping threads (`Core`), that `load_avg` never
  exceeds the number of threads (`Feedback`), that the priority scheduler keeps
  `HighestRuns`, and that with `-mlfqs` `recent_cpu` stays below a bound that
  leaves room for the ticks of the second under way (`Usage`): the bound is a
  fixed point of the decay, and the ticks in between are counted.
* `ProcessTheorems`: for any number of processes, `NoUseAfterFree`,
  `WakeupsMeanIt`, `NothingLeft` and type correctness (no count drops below
  zero). None is inductive. `IInv` adds what `ref_count` counts (one for the
  parent until it has reaped the child, one for the thread once it has
  started), that a child that has not finished loading has its parent inside
  `process_execute` waiting for it, and that before a process exits its
  `wait_sema` holds at most the unit of its load. One lemma per action shows
  that it keeps `IInv`.
* `FileSysTheorems`: `SectorsOwnedOnce` and the action property
  `LostOnlyByFailure` for a device of any size and any number of processes,
  names, descriptors and slots, with and without short reads of the directory;
  that `open_cnt` and `deny_write_cnt` are the
  numbers of users and of running programs (`Counted`), which is what the
  assertions of `inode_deny_write` and `inode_allow_write` rest on; and
  `RunningUnchanged`, that no step changes a sector of a file while a process
  runs it. The invariant says who owns a sector: a file, the file that is being
  made, the runs still to be released, or the system (`Owned`). One lemma for
  each kind of change to that layout (allocate, name, forget, close, release,
  restart) shows that it stays in order and what it can lose. `SectorsOwnedOnce`
  alone is not inductive. `IInv` adds that the inode in memory, the inode on
  disk and the directory agree, no two slots naming one sector (`Agree`), that
  what is to be released does not overlap and that a file that is being made
  has its inode on disk before its name, and that a write under way is one of an
  open descriptor (`UnderWay`), that the sectors of that
  file are marked used on disk (`OnDisk`), and `Counted`: without exact counts
  an inode could be freed while it is in use.
* `DiskTheorems`: for any number of threads, partitions, aborted commands and
  stray interrupts, `ReadsLastWritten` and `PartitionsApart`, and
  `AcknowledgedIfExpected` as long as no stray interrupt has come. `IInv` adds
  that one thread at a time is between `select_sector` and `lock_release`
  although `ide_init` takes no lock (`Exclusive`), that the channel works on
  that thread's command (`Issued`, `Device`), that the medium lacks at most the
  sector in the buffer (`UpToDate`), and that without stray interrupts each
  command's interrupt is consumed by its own `sema_down` (`Paired`).
* `TerminalTheorems`: `BytesInOrder` for any size of the queues and any number
  of readers and writers. The contents of a ring buffer are read off its two
  positions as a sequence; lemmas say that `intq_putc` appends to it and
  `intq_getc` takes its head, wrapping around included. `IInv` says that what
  was handed to the port is on the line, in its register or in the queue, in
  that order (`Output`, `Input`), and that an unfinished string is the one of
  the console's owner (`WholeStrings`).
* `MemoryTheorems`: `NoOverlap`, `NothingLeaks` and `FailsOnlyWhenFull` for any
  number of threads, pools, pages and block sizes. `NoOverlap` is about every
  block that is held, also by a `realloc` or `free` under way. The invariant is a layout.
  Every page marked used is an arena of small blocks, or lies in one held
  block, or is in the hands of one thread between its bit and its arena
  (`PagesOwned`); every block of a small arena is on the free list once or held
  once, and `free_cnt` counts the former (`BlocksOwned`). The steps of the code
  are a few changes to the layout (a page is taken or given back, an arena is
  made or taken apart, a block is taken from or put on a list, a block is
  handed over), and one lemma for each shows that it stays in order; one lemma
  per action says which change it is. `RoomAhead` says that a scan which has
  not found the run it looks for has it ahead, since bits are only cleared
  behind its back, and gives `FailsOnlyWhenFull`.

The theorems name their prover only where Zenon does not find the proof of a
leaf: arithmetic and updates of functions go to the SMT solver.

Only model-checked: liveness (`ReadyGetsTurn`, `ParentReturns`,
`EverythingArrives`, `RequestsFinish`, `CallsReturn`), which the prover's
backends do not cover; the library, whose recursive operators are out of the
prover's reach; the refinement `FilesAsPromised`, whose mapping reads the bytes
of every file off the disk, and the properties of mappings, whose exit folds
over a sequence of pages, which takes an induction over data; and virtual
memory, whose properties hold for the instances of the runs only (one process
for `ReadsLastWrite`, `UnmappedSaved` and `PagesReturned`), because the races of
section 3 are real.

## 5. Not modelled

* Boot code, segmentation, the 8254 chip, the interrupt controller, the display,
  the speaker and the clock chip: they are set up once, before there is any
  concurrency, or only hold registers.
* The register switch and the stack of a thread, the two-level page tables and
  the TLB: below the level of the models, which take their effect as a step.
* The conversions of `printf` for the types `l`, `ll`, `j`, `z` and `t`, which
  differ from those of `int` in the width of the argument only.
* The dispatch of system call numbers, the reading of arguments from the user
  stack and the comparison of fault addresses with the stack pointer. A user
  program is modelled as any sequence of calls.
* The reset of an ATA channel with its delays, the busy waits of `timer_mdelay`
  and its like.
* Random numbers, hex dumps, backtraces, the command-line utilities of the file
  system, user programs and the test harness: sequential code that keeps no
  state of the kernel's.
* The walk of `list_sort` under a run queue or a lock list that changes
  meanwhile (`synch.c` 326, `thread.c` 498): the models sort in one step.
