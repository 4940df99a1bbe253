-------------------------------- MODULE Disk --------------------------------
(***************************************************************************)
(* Block devices: partitions (devices/partition.c) through the block layer *)
(* (devices/block.c) on the two disks of one ATA channel                   *)
(* (devices/ide.c), driven by programmed I/O and completion interrupts.    *)
(*                                                                         *)
(* A request of thread t goes through pc[t]:                               *)
(*   "lock" "select" "issue", then for a read or an identification         *)
(*   "down" "busy" "input" and for a write "busy" "output" "down",         *)
(*   and "unlock".                                                         *)
(* The disk is one environment action per thing it does.  It may abort a   *)
(* command, and raise an interrupt that nobody asked for.                  *)
(***************************************************************************)
EXTENDS Naturals, Sequences

CONSTANTS Thread, Boot,   \* Boot identifies the disks before the others run
          DiskNo, LargeDisk,        \* disks over 1 GB are ignored
          Partition, disk_of, start_of, size_of,
          Capacity,                 \* sectors of a disk
          Value, NULL,
          MaxSpurious, MaxAborts    \* how often the hardware misbehaves

ASSUME DiskAssumption ==
  /\ Boot \in Thread /\ LargeDisk \subseteq DiskNo
  /\ NULL \notin Thread /\ NULL \notin Value
  /\ disk_of \in [Partition -> DiskNo]
  /\ start_of \in [Partition -> Nat] /\ size_of \in [Partition -> Nat]
  /\ Capacity \in Nat
  /\ \A b \in Partition : start_of[b] + size_of[b] <= Capacity

VARIABLES pc, req,            \* where each thread is, and its request; block is
                              \* the device it was made of
          lock, expecting_interrupt, completion_wait,   \* struct channel
          to_identify,        \* disks whose identity has yet to be read
          is_ata,             \* disks that are in use
          status, command, buffer, irq,   \* the channel's registers
          media,              \* what the disks hold
          spurious, aborts,   \* misbehaviour so far
          panicked,
          written             \* history: the last value written to a sector

vars == <<pc, req, lock, expecting_interrupt, completion_wait, to_identify,
          is_ata, status, command, buffer, irq, media, spurious, aborts,
          panicked, written>>

Sector == 0 .. Capacity - 1
driver == <<lock, expecting_interrupt, completion_wait, to_identify, is_ata>>
device == <<status, command, buffer, irq, media, spurious, aborts>>

Goto(t, next) == pc' = [pc EXCEPT ![t] = next]
At(t, here) == ~panicked /\ pc[t] = here

-----------------------------------------------------------------------------
(* block.c and partition.c *)

\* Mutant: partition_read() and partition_write() forget the start.
request_unshifted(t, kind, b, sector, v) ==
  /\ At(t, "idle")
  /\ to_identify = <<>>
  /\ disk_of[b] \in is_ata
  /\ req' = [req EXCEPT ![t] = [kind |-> kind, block |-> b, disk |-> disk_of[b],
                               sector |-> sector, value |-> v]]
  /\ Goto(t, "lock")
  /\ UNCHANGED <<driver, device, panicked, written>>

\* block_read() and block_write(): check_sector() panics beyond the end; a
\* partition's sector is counted from the partition's start.  Callers write to
\* blocks that have a role only, never to one of type BLOCK_FOREIGN.
request(t, kind, b, sector, v) ==
  /\ At(t, "idle")
  /\ to_identify = <<>>
  /\ disk_of[b] \in is_ata
  /\ IF sector >= size_of[b]
     THEN panicked' = TRUE /\ UNCHANGED <<pc, req>>
     ELSE /\ req' = [req EXCEPT ![t] =
                       [kind |-> kind, block |-> b, disk |-> disk_of[b],
                        sector |-> start_of[b] + sector, value |-> v]]
          /\ Goto(t, "lock")
          /\ UNCHANGED panicked
  /\ UNCHANGED <<driver, device, written>>

block_read(t, b, sector) == request(t, "read", b, sector, NULL)
block_write(t, b, sector, v) == request(t, "write", b, sector, v)

-----------------------------------------------------------------------------
(* ide.c *)

lock_acquire(t) ==
  /\ At(t, "lock")
  /\ lock = NULL
  /\ lock' = t
  /\ Goto(t, "select")
  /\ UNCHANGED <<req, expecting_interrupt, completion_wait, to_identify, is_ata,
                 device, panicked, written>>

\* ide_init() identifies the disks in turn, before there is any other user.
identify_ata_device ==
  /\ At(Boot, "idle")
  /\ to_identify # <<>>
  /\ req' = [req EXCEPT ![Boot] = [kind |-> "identify", block |-> NULL,
                                   disk |-> Head(to_identify), sector |-> 0,
                                   value |-> NULL]]
  /\ Goto(Boot, "select")
  /\ UNCHANGED <<driver, device, panicked, written>>

\* wait_until_idle() reads the status register, which takes back a pending
\* interrupt.
select_sector(t) ==
  /\ At(t, "select")
  /\ status = "idle"
  /\ irq' = FALSE
  /\ Goto(t, "issue")
  /\ UNCHANGED <<req, driver, status, command, buffer, media, spurious, aborts,
                 panicked, written>>

issue_pio_command(t) ==
  /\ At(t, "issue")
  /\ expecting_interrupt' = TRUE
  /\ command' = [kind |-> req[t].kind, block |-> req[t].block,
                 disk |-> req[t].disk, sector |-> req[t].sector]
  /\ status' = "busy"
  /\ Goto(t, IF req[t].kind = "write" THEN "busy" ELSE "down")
  /\ UNCHANGED <<req, lock, completion_wait, to_identify, is_ata, buffer, irq,
                 media, spurious, aborts, panicked, written>>

sema_down(t) ==
  /\ At(t, "down")
  /\ completion_wait > 0
  /\ completion_wait' = completion_wait - 1
  /\ Goto(t, IF req[t].kind = "write" THEN "unlock" ELSE "busy")
  /\ UNCHANGED <<req, lock, expecting_interrupt, to_identify, is_ata, device,
                 panicked, written>>

\* Mutant: a disk that is busy is taken to have its data ready.
wait_while_busy_not(t) ==
  /\ At(t, "busy")
  /\ Goto(t, IF req[t].kind = "write" THEN "output" ELSE "input")
  /\ UNCHANGED <<req, driver, device, panicked, written>>

\* Without DRQ the command has failed: a read or write panics, a disk that
\* cannot be identified is not used.
wait_while_busy(t) ==
  /\ At(t, "busy")
  /\ status # "busy"
  /\ IF status = "drq"
     THEN /\ Goto(t, IF req[t].kind = "write" THEN "output" ELSE "input")
          /\ UNCHANGED <<to_identify, panicked>>
     ELSE IF req[t].kind = "identify"
     THEN /\ to_identify' = Tail(to_identify)
          /\ Goto(t, "idle")
          /\ UNCHANGED panicked
     ELSE panicked' = TRUE /\ UNCHANGED <<pc, to_identify>>
  /\ UNCHANGED <<req, lock, expecting_interrupt, completion_wait, is_ata, device,
                 written>>

input_sector(t) ==
  /\ At(t, "input")
  /\ status' = "idle" /\ buffer' = NULL
  /\ IF req[t].kind = "identify"
     THEN /\ to_identify' = Tail(to_identify)
          /\ is_ata' = IF req[t].disk \in LargeDisk THEN is_ata
                       ELSE is_ata \cup {req[t].disk}
          /\ Goto(t, "idle")
          /\ UNCHANGED req
     ELSE /\ req' = [req EXCEPT ![t].value = buffer]
          /\ Goto(t, "unlock")
          /\ UNCHANGED <<to_identify, is_ata>>
  /\ UNCHANGED <<lock, expecting_interrupt, completion_wait, command, irq, media,
                 spurious, aborts, panicked, written>>

\* Mutant: ide_write() does not wait for the completion.
output_sector_only(t) ==
  /\ At(t, "output")
  /\ buffer' = req[t].value
  /\ status' = "busy"
  /\ written' = [written EXCEPT ![req[t].disk][req[t].sector] = req[t].value]
  /\ Goto(t, "unlock")
  /\ UNCHANGED <<req, driver, command, irq, media, spurious, aborts, panicked>>

output_sector(t) ==
  /\ At(t, "output")
  /\ buffer' = req[t].value
  /\ status' = "busy"
  /\ written' = [written EXCEPT ![req[t].disk][req[t].sector] = req[t].value]
  /\ Goto(t, "down")
  /\ UNCHANGED <<req, driver, command, irq, media, spurious, aborts, panicked>>

lock_release(t) ==
  /\ At(t, "unlock")
  /\ lock' = NULL
  /\ Goto(t, "idle")
  /\ UNCHANGED <<req, expecting_interrupt, completion_wait, to_identify, is_ata,
                 device, panicked, written>>

\* Mutant: the handler does not wake the waiter.
interrupt_handler_quiet ==
  /\ irq /\ ~panicked
  /\ irq' = FALSE
  /\ UNCHANGED <<pc, req, driver, status, command, buffer, media, spurious,
                 aborts, panicked, written>>

\* expecting_interrupt is never reset: after the first command every
\* interrupt counts as a completion.
interrupt_handler ==
  /\ irq /\ ~panicked
  /\ irq' = FALSE
  /\ completion_wait' = IF expecting_interrupt THEN completion_wait + 1
                        ELSE completion_wait
  /\ UNCHANGED <<pc, req, lock, expecting_interrupt, to_identify, is_ata, status,
                 command, buffer, media, spurious, aborts, panicked, written>>

-----------------------------------------------------------------------------
(* The disk *)

\* The data is ready: a read interrupts, a write asks for the data.
ready ==
  /\ status = "busy" /\ (command.kind = "write" => buffer = NULL)
  /\ status' = "drq"
  /\ buffer' = IF command.kind = "read" THEN media[command.disk][command.sector]
               ELSE NULL
  /\ irq' = (irq \/ command.kind # "write")
  /\ UNCHANGED <<pc, req, driver, command, media, spurious, aborts, panicked, written>>

\* The data has reached the medium.
finish ==
  /\ status = "busy" /\ command.kind = "write" /\ buffer # NULL
  /\ media' = [media EXCEPT ![command.disk][command.sector] = buffer]
  /\ status' = "idle" /\ buffer' = NULL /\ irq' = TRUE
  /\ UNCHANGED <<pc, req, driver, command, spurious, aborts, panicked, written>>

\* The device gives up a command.  It does not do so once it has a write's
\* data: ide_write() does not look at the status after that, and an error
\* would go unnoticed.
abort ==
  /\ aborts < MaxAborts
  /\ status = "busy" /\ (command.kind = "write" => buffer = NULL)
  /\ aborts' = aborts + 1
  /\ status' = "idle" /\ irq' = TRUE
  /\ UNCHANGED <<pc, req, driver, command, buffer, media, spurious, panicked, written>>

interfere ==
  /\ spurious < MaxSpurious
  /\ spurious' = spurious + 1
  /\ irq' = TRUE
  /\ UNCHANGED <<pc, req, driver, status, command, buffer, media, aborts,
                 panicked, written>>

Init ==
  /\ pc = [t \in Thread |-> "idle"]
  /\ req = [t \in Thread |-> NULL]
  /\ lock = NULL /\ expecting_interrupt = FALSE /\ completion_wait = 0
  /\ to_identify \in {s \in [1 .. 2 -> DiskNo] : s[1] # s[2]}
  /\ is_ata = {}
  /\ status = "idle" /\ command = NULL /\ buffer = NULL /\ irq = FALSE
  /\ \E v \in Value : media = [d \in DiskNo |-> [s \in Sector |-> v]]
  /\ spurious = 0 /\ aborts = 0 /\ panicked = FALSE
  /\ written = media

Driver(t) == select_sector(t) \/ issue_pio_command(t) \/ sema_down(t)
             \/ wait_while_busy(t) \/ input_sector(t) \/ output_sector(t)
             \/ lock_release(t)

Calls(t) == \E b \in Partition, sector \in Sector :
              block_read(t, b, sector) \/ \E v \in Value : block_write(t, b, sector, v)

Next ==
  \/ \E t \in Thread : Calls(t) \/ lock_acquire(t) \/ Driver(t)
  \/ identify_ata_device \/ interrupt_handler
  \/ ready \/ finish \/ abort \/ interfere

\* Waiters for the lock are served in order; the disk answers every command
\* within the time-outs, and its interrupt is taken.
Fairness == /\ \A t \in Thread : SF_vars(lock_acquire(t)) /\ WF_vars(Driver(t))
            /\ WF_vars(interrupt_handler) /\ WF_vars(ready \/ finish)

Spec == Init /\ [][Next]_vars
FairSpec == Spec /\ Fairness

-----------------------------------------------------------------------------
\* A read returns what was last written to that sector of that disk, by any
\* thread through any partition, with stray interrupts too: BSY and DRQ are
\* looked at, not only the semaphore.
ReadsLastWritten ==
  \A t \in Thread : pc[t] = "unlock" /\ req[t].kind = "read" =>
    req[t].value = written[req[t].disk][req[t].sector]

\* What block_write() stores through a partition lands inside that partition,
\* whatever the threads' requests do to the channel's registers meanwhile: a
\* file never reaches into swap, and sectors of no partition never change.
PartitionsApart ==
  [][\A d \in DiskNo, s \in Sector : media'[d][s] # media[d][s] =>
       LET b == command.block
       IN  /\ b \in Partition
           /\ disk_of[b] = d
           /\ s \in start_of[b] .. start_of[b] + size_of[b] - 1]_vars

\* block_write() returns after the disk has the data on the medium, as long
\* as no stray interrupt has been counted as a completion.
AcknowledgedIfExpected ==
  spurious = 0 =>
    \A t \in Thread : pc[t] = "unlock" /\ req[t].kind = "write" =>
      media[req[t].disk][req[t].sector] = req[t].value

\* Every request is answered, unless the kernel panics: no interrupt is lost
\* between issue_pio_command() and sema_down().
RequestsFinish ==
  \A t \in Thread : (pc[t] # "idle") ~> (pc[t] = "idle" \/ panicked)
=============================================================================
