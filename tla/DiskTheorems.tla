----------------------------- MODULE DiskTheorems -----------------------------
(***************************************************************************)
(* Proofs about Disk, for any number of threads, partitions, sectors,      *)
(* stray interrupts and aborted commands: a read returns the last value    *)
(* written, and no write leaves its partition.                             *)
(*                                                                         *)
(* The inductive invariant IInv says who may be between select_sector ()   *)
(* and lock_release (), that the channel works on that thread's command,   *)
(* and that the medium lacks at most the sector in the channel's buffer.   *)
(***************************************************************************)
EXTENDS Disk, SequenceTheorems, TLAPS

Place == {"idle", "lock", "select", "issue", "down", "busy", "input", "output",
          "unlock"}
Request == [kind : {"read", "write", "identify"}, block : Partition \cup {NULL},
            disk : DiskNo, sector : Nat, value : Value \cup {NULL}]
Command == [kind : {"read", "write", "identify"}, block : Partition \cup {NULL},
            disk : DiskNo, sector : Nat]

InPartition(r) ==
  /\ r.block \in Partition
  /\ r.disk = disk_of[r.block]
  /\ r.sector \in start_of[r.block] .. start_of[r.block] + size_of[r.block] - 1

TypeOK ==
  /\ pc \in [Thread -> Place]
  /\ req \in [Thread -> Request \cup {NULL}]
  /\ lock \in Thread \cup {NULL}
  /\ to_identify \in Seq(DiskNo)
  /\ completion_wait \in Nat /\ spurious \in Nat
  /\ status \in {"idle", "busy", "drq"}
  /\ buffer \in Value \cup {NULL}
  /\ media \in [DiskNo -> [Sector -> Value]]
  /\ written \in [DiskNo -> [Sector -> Value]]

\* A request of a thread that is not idle: one that reads or writes lies in a
\* partition, one that writes has a value.
Requests ==
  \A t \in Thread : pc[t] # "idle" =>
    /\ req[t] \in Request
    /\ req[t].kind # "identify" => InPartition(req[t])
    /\ req[t].kind = "write" => req[t].value \in Value

\* Threads that use the channel hold its lock, and only after Boot, which does
\* not take the lock, has identified the disks.
Exclusive ==
  \A t \in Thread : pc[t] # "idle" =>
    IF req[t].kind = "identify"
    THEN t = Boot /\ pc[t] # "lock" /\ to_identify # <<>>
    ELSE (pc[t] # "lock" => lock = t) /\ to_identify = <<>>

\* The command in the channel is the one of the thread that uses it, and the
\* status register is where the thread's place says.
Issued ==
  \A t \in Thread :
    /\ pc[t] = "issue" => status = "idle"
    /\ pc[t] \in {"down", "busy", "input", "output"} =>
         command = [kind |-> req[t].kind, block |-> req[t].block,
                    disk |-> req[t].disk, sector |-> req[t].sector]
    /\ pc[t] = "input" => status = "drq" /\ req[t].kind # "write"
    /\ pc[t] = "output" => status = "drq" /\ req[t].kind = "write"

Storing == status = "busy" /\ command.kind = "write" /\ buffer # NULL

\* What the channel's registers hold.
Device ==
  /\ status # "idle" =>
       /\ command \in Command
       /\ command.kind # "identify" => InPartition(command)
  /\ buffer # NULL => Storing \/ (status = "drq" /\ command.kind = "read")
  /\ status = "drq" /\ command.kind = "read" =>
       buffer = media[command.disk][command.sector]

\* The medium has every write but the one that is on its way to it.
UpToDate ==
  written = IF Storing THEN [media EXCEPT ![command.disk][command.sector] = buffer]
            ELSE media

Quiet == ~irq /\ completion_wait = 0
Outside(t) == pc[t] \in {"idle", "lock"}

\* Without stray interrupts each command is followed by one interrupt, which its
\* own sema_down () consumes.
Paired ==
  spurious = 0 =>
    /\ (\A t \in Thread : Outside(t)) => Quiet /\ status = "idle"
    /\ \A t \in Thread :
         /\ pc[t] \in {"select", "issue", "unlock"} => Quiet /\ status = "idle"
         /\ pc[t] \in {"input", "output"} => Quiet
         /\ pc[t] = "busy" /\ req[t].kind # "write" => Quiet /\ status # "busy"
         /\ pc[t] = "busy" /\ req[t].kind = "write" /\ status # "idle" =>
              Quiet /\ buffer = NULL
         /\ pc[t] = "down" =>
              /\ status = "busy" => Quiet
              /\ completion_wait <= 1 /\ (irq => completion_wait = 0)
              /\ req[t].kind = "write" =>
                   IF status = "idle"
                   THEN media[req[t].disk][req[t].sector] = req[t].value
                   ELSE Storing /\ buffer = req[t].value

IInv == TypeOK /\ Requests /\ Exclusive /\ Issued /\ Device /\ UpToDate
        /\ ReadsLastWritten /\ Paired /\ AcknowledgedIfExpected

-------------------------------------------------------------------------------
\* No two threads use the channel at once.
LEMMA OneUser ==
    ASSUME IInv, NEW t \in Thread, NEW u \in Thread,
           pc[t] \notin {"idle", "lock"}, pc[u] \notin {"idle", "lock"}
    PROVE  t = u
BY DEF IInv, Exclusive

\* A sector of a partition is a sector of its disk.
LEMMA OnDisk ==
    ASSUME NEW r, r.sector \in Nat, InPartition(r)
    PROVE  r.disk \in DiskNo /\ r.sector \in Sector
<1>1. /\ r.block \in Partition /\ r.disk = disk_of[r.block]
      /\ r.sector \in start_of[r.block] .. start_of[r.block] + size_of[r.block] - 1
    BY DEF InPartition
<1>2. /\ start_of[r.block] \in Nat /\ size_of[r.block] \in Nat
      /\ start_of[r.block] + size_of[r.block] <= Capacity
    BY <1>1, DiskAssumption
<1>3. r.sector \in Sector
    BY <1>1, <1>2, DiskAssumption DEF Sector
<1> QED
    BY <1>1, <1>3, DiskAssumption

\* lock_acquire (): the lock is free, so nobody uses the channel.
LEMMA lock_acquire_OK ==
    ASSUME IInv, NEW t \in Thread, lock_acquire(t)
    PROVE  IInv'
<1> USE DiskAssumption DEF IInv, lock_acquire, At, Goto, driver, device
<1>o. \A u \in Thread : Outside(u)
    BY Zenon DEF Exclusive, Outside, TypeOK
<1>1. TypeOK'
    BY DEF TypeOK, Place
<1>2. Requests'
    BY DEF TypeOK, Requests, InPartition
<1>3. Exclusive'
    BY DEF TypeOK, Exclusive
<1>4. Issued'
    BY DEF TypeOK, Issued
<1>5. Device'
    BY DEF Device, Storing, InPartition
<1>6. UpToDate'
    BY DEF UpToDate, Storing
<1>7. ReadsLastWritten'
    BY DEF TypeOK, ReadsLastWritten
<1>8. Paired'
    BY <1>o DEF TypeOK, Place, Paired, Outside, Quiet, Storing
<1>9. AcknowledgedIfExpected'
    BY DEF TypeOK, AcknowledgedIfExpected
<1> QED
    BY <1>1, <1>2, <1>3, <1>4, <1>5, <1>6, <1>7, <1>8, <1>9

\* ide_init () identifies a disk before there is any other user.
LEMMA identify_ata_device_OK ==
    ASSUME IInv, identify_ata_device
    PROVE  IInv'
<1> USE DiskAssumption DEF IInv, identify_ata_device, At, Goto, driver, device
<1> DEFINE r == [kind |-> "identify", block |-> NULL, disk |-> Head(to_identify),
                 sector |-> 0, value |-> NULL]
<1>r. r \in Request
    BY DEF TypeOK, Request
<1>k. r.kind = "identify"
    OBVIOUS
<1>c. req' = [req EXCEPT ![Boot] = r]
    OBVIOUS
<1>o. \A u \in Thread : Outside(u)
    BY DEF Exclusive, Outside, TypeOK
<1> HIDE DEF r
<1>1. TypeOK'
    BY <1>r, <1>c DEF TypeOK, Place
<1>2. Requests'
    BY <1>r, <1>k, <1>c DEF TypeOK, Requests, InPartition
<1>3. Exclusive'
    BY <1>k, <1>c DEF TypeOK, Exclusive
<1>4. Issued'
    BY <1>c DEF TypeOK, Issued
<1>5. Device'
    BY DEF Device, Storing, InPartition
<1>6. UpToDate'
    BY DEF UpToDate, Storing
<1>7. ReadsLastWritten'
    BY <1>c DEF TypeOK, ReadsLastWritten
<1>8. Paired'
    BY <1>o, <1>c DEF TypeOK, Place, Paired, Outside, Quiet, Storing
<1>9. AcknowledgedIfExpected'
    BY <1>c DEF TypeOK, AcknowledgedIfExpected
<1> QED
    BY <1>1, <1>2, <1>3, <1>4, <1>5, <1>6, <1>7, <1>8, <1>9

\* select_sector (): the channel is idle.
LEMMA select_sector_OK ==
    ASSUME IInv, NEW t \in Thread, select_sector(t)
    PROVE  IInv'
<1> USE DiskAssumption DEF IInv, select_sector, At, Goto, driver, device
<1>1. TypeOK'
    BY DEF TypeOK, Place
<1>2. Requests'
    BY DEF TypeOK, Requests, InPartition
<1>3. Exclusive'
    BY DEF TypeOK, Exclusive
<1>4. Issued'
    BY DEF TypeOK, Issued
<1>5. Device'
    BY DEF Device, Storing, InPartition
<1>6. UpToDate'
    BY DEF UpToDate, Storing
<1>7. ReadsLastWritten'
    BY DEF TypeOK, ReadsLastWritten
<1>8. Paired'
    BY DEF TypeOK, Place, Paired, Outside, Quiet, Storing
<1>9. AcknowledgedIfExpected'
    BY DEF TypeOK, AcknowledgedIfExpected
<1> QED
    BY <1>1, <1>2, <1>3, <1>4, <1>5, <1>6, <1>7, <1>8, <1>9

\* issue_pio_command (): the channel takes the thread's command.
LEMMA issue_pio_command_OK ==
    ASSUME IInv, NEW t \in Thread, issue_pio_command(t)
    PROVE  IInv'
<1> USE DiskAssumption DEF IInv, issue_pio_command, At, Goto, driver, device
<1>u. \A u \in Thread : pc[u] \notin {"idle", "lock"} => u = t
    BY OneUser
<1>1. TypeOK'
    BY DEF TypeOK, Place
<1>2. Requests'
    BY DEF TypeOK, Requests, InPartition
<1>3. Exclusive'
    BY DEF TypeOK, Exclusive
<1>4. Issued'
    BY Zenon, <1>u DEF TypeOK, Issued, Place
<1>5. Device'
    BY DEF TypeOK, Requests, Request, Command, Issued, Device, Storing, InPartition
<1>6. UpToDate'
    BY DEF Issued, Device, UpToDate, Storing
<1>7. ReadsLastWritten'
    BY DEF TypeOK, ReadsLastWritten
<1>8. Paired'
    <2>1. spurious = 0 => Quiet
        BY DEF Paired
    <2>2. \A u \in Thread \ {t} : pc'[u] \in {"idle", "lock"}
        BY <1>u DEF TypeOK
    <2>3. buffer = NULL
        BY DEF Issued, Device, Storing
    <2>4. pc'[t] = IF req[t].kind = "write" THEN "busy" ELSE "down"
        BY DEF TypeOK
    <2> QED
        BY <2>1, <2>2, <2>3, <2>4 DEF Paired, Outside, Quiet
<1>9. AcknowledgedIfExpected'
    BY DEF TypeOK, AcknowledgedIfExpected
<1> QED
    BY <1>1, <1>2, <1>3, <1>4, <1>5, <1>6, <1>7, <1>8, <1>9

\* sema_down (): the thread saw an interrupt, expected or not.
LEMMA sema_down_OK ==
    ASSUME IInv, NEW t \in Thread, sema_down(t)
    PROVE  IInv'
<1> USE DiskAssumption DEF IInv, sema_down, At, Goto, driver, device
<1>1. TypeOK'
    BY DEF TypeOK, Place
<1>2. Requests'
    BY DEF TypeOK, Requests, InPartition
<1>3. Exclusive'
    BY DEF TypeOK, Exclusive
<1>4. Issued'
    BY DEF TypeOK, Issued
<1>5. Device'
    BY DEF Device, Storing, InPartition
<1>6. UpToDate'
    BY DEF UpToDate, Storing
<1>7. ReadsLastWritten'
    BY DEF TypeOK, ReadsLastWritten
<1>8. Paired'
    BY DEF TypeOK, Place, Paired, Outside, Quiet, Storing
<1>9. AcknowledgedIfExpected'
    BY DEF TypeOK, AcknowledgedIfExpected, Paired, Quiet, Storing
<1> QED
    BY <1>1, <1>2, <1>3, <1>4, <1>5, <1>6, <1>7, <1>8, <1>9

\* wait_while_busy (): the status register decides, not the semaphore.
LEMMA wait_while_busy_OK ==
    ASSUME IInv, NEW t \in Thread, wait_while_busy(t)
    PROVE  IInv'
<1> USE DiskAssumption DEF IInv, wait_while_busy, At, Goto, driver, device
<1>q. to_identify' \in Seq(DiskNo)
    <2>1. req[t].kind = "identify" => to_identify # <<>>
        BY DEF Exclusive
    <2>2. to_identify # <<>> => Tail(to_identify) \in Seq(DiskNo)
        BY HeadTailProperties DEF TypeOK
    <2> QED
        BY Zenon, <2>1, <2>2 DEF TypeOK
<1>u. \A u \in Thread : pc[u] \notin {"idle", "lock"} => u = t
    BY Zenon, OneUser
<1>1. TypeOK'
    BY Zenon, <1>q DEF TypeOK, Place
<1>2. Requests'
    BY DEF TypeOK, Requests, InPartition
<1>3. Exclusive'
    BY <1>u DEF TypeOK, Exclusive, Place
<1>4. Issued'
    BY DEF TypeOK, Issued
<1>5. Device'
    BY DEF Device, Storing, InPartition
<1>6. UpToDate'
    BY DEF UpToDate, Storing
<1>7. ReadsLastWritten'
    BY Zenon DEF TypeOK, ReadsLastWritten
<1>8. Paired'
    BY DEF TypeOK, Place, Paired, Outside, Quiet, Storing
<1>9. AcknowledgedIfExpected'
    BY Zenon DEF TypeOK, AcknowledgedIfExpected
<1> QED
    BY <1>1, <1>2, <1>3, <1>4, <1>5, <1>6, <1>7, <1>8, <1>9

\* input_sector (): the buffer holds what the medium has.
LEMMA input_sector_OK ==
    ASSUME IInv, NEW t \in Thread, input_sector(t)
    PROVE  IInv'
<1> USE DiskAssumption DEF IInv, input_sector, At, Goto, driver, device
<1>q. to_identify' \in Seq(DiskNo)
    <2>1. req[t].kind = "identify" => to_identify # <<>>
        BY DEF Exclusive
    <2>2. to_identify # <<>> => Tail(to_identify) \in Seq(DiskNo)
        BY HeadTailProperties DEF TypeOK
    <2> QED
        BY Zenon, <2>1, <2>2 DEF TypeOK
<1>u. \A u \in Thread : pc[u] \notin {"idle", "lock"} => u = t
    BY OneUser
<1> DEFINE r == [req[t] EXCEPT !.value = buffer]
<1>r. /\ r \in Request /\ r.kind = req[t].kind /\ r.block = req[t].block
      /\ r.disk = req[t].disk /\ r.sector = req[t].sector /\ r.value = buffer
    BY Zenon DEF TypeOK, Requests, Request
<1>c. req' = [req EXCEPT ![t] = r] \/ req' = req
    OBVIOUS
<1>p. InPartition(req[t]) => InPartition(r)
    BY <1>r DEF InPartition
<1> HIDE DEF r
<1>1. TypeOK'
    BY ZenonT(30), <1>q, <1>r, <1>c, DiskAssumption DEF TypeOK, Place
<1>2. Requests'
    BY <1>r, <1>c, <1>p DEF TypeOK, Requests, Issued, InPartition
<1>3. Exclusive'
    BY <1>u, <1>r DEF TypeOK, Exclusive, Requests, Request, Place, r
<1>4. Issued'
    BY <1>u DEF TypeOK, Issued, Place, Requests, Request
<1>5. Device'
    BY DEF Device, Storing, InPartition
<1>6. UpToDate'
    BY DEF UpToDate, Storing, Issued
<1>7. ReadsLastWritten'
    <2>1. req[t].kind = "read" => buffer = written[req[t].disk][req[t].sector]
        <3>1. status = "drq" /\ command.kind = req[t].kind
              /\ command.disk = req[t].disk /\ command.sector = req[t].sector
            BY DEF Issued
        <3> QED
            BY <3>1 DEF Device, UpToDate, Storing
    <2>2. CASE req[t].kind = "identify"
        BY Zenon, <2>2 DEF TypeOK, ReadsLastWritten
    <2>3. CASE req[t].kind # "identify"
        <3>1. req' = [req EXCEPT ![t] = r]
            BY <2>3 DEF r
        <3> QED
            BY <2>1, <3>1, <1>r, <1>u DEF TypeOK, ReadsLastWritten
    <2> QED
        BY <2>2, <2>3
<1>8. Paired'
    <2>1. spurious = 0 => Quiet
        BY DEF Paired
    <2>2. \A u \in Thread : pc'[u] \in {"idle", "lock", "unlock"}
        BY Zenon, <1>u DEF TypeOK, Place
    <2> QED
        BY <2>1, <2>2 DEF Paired, Outside, Quiet
<1>9. AcknowledgedIfExpected'
    BY Zenon, <1>c, <1>r, <1>u DEF TypeOK, Issued, AcknowledgedIfExpected
<1> QED
    BY <1>1, <1>2, <1>3, <1>4, <1>5, <1>6, <1>7, <1>8, <1>9

\* output_sector (): the value is in the buffer, on its way to the medium.
LEMMA output_sector_OK ==
    ASSUME IInv, NEW t \in Thread, output_sector(t)
    PROVE  IInv'
<1> USE DiskAssumption DEF IInv, output_sector, At, Goto, driver, device
<1>u. \A u \in Thread : pc[u] \notin {"idle", "lock"} => u = t
    BY OneUser
<1>d. req[t].disk \in DiskNo /\ req[t].sector \in Sector /\ req[t].value \in Value
    BY OnDisk DEF Requests, Request, Issued
<1>e. /\ command.kind = "write" /\ command.disk = req[t].disk
      /\ command.sector = req[t].sector
    BY DEF Issued
<1>f. written = media
    BY DEF Issued, UpToDate, Storing
<1>1. TypeOK'
    BY <1>d DEF TypeOK, Place
<1>2. Requests'
    BY DEF TypeOK, Requests, InPartition
<1>3. Exclusive'
    BY DEF TypeOK, Exclusive
<1>4. Issued'
    BY Zenon, <1>u DEF TypeOK, Issued, Place
<1>5. Device'
    BY <1>d DEF Device, Storing, Issued, InPartition
<1>6. UpToDate'
    BY Zenon, <1>d, <1>e, <1>f DEF UpToDate, Storing
<1>7. ReadsLastWritten'
    BY <1>u DEF TypeOK, ReadsLastWritten, Place, Issued
<1>8. Paired'
    <2>1. spurious = 0 => Quiet
        BY DEF Paired
    <2>2. \A u \in Thread \ {t} : pc'[u] \in {"idle", "lock"}
        BY <1>u DEF TypeOK
    <2>3. pc'[t] = "down" /\ Storing' /\ buffer' = req'[t].value
        BY <1>d, <1>e DEF TypeOK, Storing
    <2> QED
        BY <2>1, <2>2, <2>3 DEF Paired, Outside, Quiet, Storing
<1>9. AcknowledgedIfExpected'
    BY DEF TypeOK, AcknowledgedIfExpected
<1> QED
    BY <1>1, <1>2, <1>3, <1>4, <1>5, <1>6, <1>7, <1>8, <1>9

\* lock_release (): the thread no longer uses the channel.
LEMMA lock_release_OK ==
    ASSUME IInv, NEW t \in Thread, lock_release(t)
    PROVE  IInv'
<1> USE DiskAssumption DEF IInv, lock_release, At, Goto, driver, device
<1>u. \A u \in Thread : pc[u] \notin {"idle", "lock"} => u = t
    BY OneUser
<1>1. TypeOK'
    BY DEF TypeOK, Place
<1>2. Requests'
    BY DEF TypeOK, Requests, InPartition
<1>3. Exclusive'
    BY <1>u DEF TypeOK, Exclusive, Place
<1>4. Issued'
    BY DEF TypeOK, Issued
<1>5. Device'
    BY DEF Device, Storing, InPartition
<1>6. UpToDate'
    BY DEF UpToDate, Storing
<1>7. ReadsLastWritten'
    BY DEF TypeOK, ReadsLastWritten
<1>8. Paired'
    BY DEF TypeOK, Place, Paired, Outside, Quiet, Storing
<1>9. AcknowledgedIfExpected'
    BY DEF TypeOK, AcknowledgedIfExpected
<1> QED
    BY <1>1, <1>2, <1>3, <1>4, <1>5, <1>6, <1>7, <1>8, <1>9

\* interrupt_handler () changes the semaphore only.
LEMMA interrupt_handler_OK ==
    ASSUME IInv, interrupt_handler
    PROVE  IInv'
<1> USE DiskAssumption DEF IInv, interrupt_handler, At, Goto, driver, device
<1>1. TypeOK'
    BY DEF TypeOK, Place
<1>2. Requests'
    BY DEF TypeOK, Requests, InPartition
<1>3. Exclusive'
    BY DEF TypeOK, Exclusive
<1>4. Issued'
    BY DEF TypeOK, Issued
<1>5. Device'
    BY DEF Device, Storing, InPartition
<1>6. UpToDate'
    BY DEF UpToDate, Storing
<1>7. ReadsLastWritten'
    BY DEF TypeOK, ReadsLastWritten
<1>8. Paired'
    BY DEF TypeOK, Place, Paired, Outside, Quiet, Storing
<1>9. AcknowledgedIfExpected'
    BY DEF TypeOK, AcknowledgedIfExpected
<1> QED
    BY <1>1, <1>2, <1>3, <1>4, <1>5, <1>6, <1>7, <1>8, <1>9

\* The disk has the data of a read ready, or asks for that of a write.
LEMMA ready_OK ==
    ASSUME IInv, ready
    PROVE  IInv'
<1> USE DiskAssumption DEF IInv, ready, At, Goto, driver, device
<1>d. command.kind = "read" => media[command.disk][command.sector] \in Value
    <2>1. command.kind = "read" => command.sector \in Nat /\ InPartition(command)
        BY DEF Device, Command
    <2>2. command.kind = "read" => command.disk \in DiskNo /\ command.sector \in Sector
        BY <2>1, OnDisk
    <2> QED
        BY <2>2 DEF TypeOK
<1>e. \A t \in Thread : pc[t] \in {"down", "busy"} =>
         /\ command.kind = req[t].kind /\ command.disk = req[t].disk
         /\ command.sector = req[t].sector
    BY DEF Issued
<1>1. TypeOK'
    BY <1>d DEF TypeOK
<1>2. Requests'
    BY DEF TypeOK, Requests, InPartition
<1>3. Exclusive'
    BY DEF TypeOK, Exclusive
<1>4. Issued'
    BY DEF TypeOK, Issued
<1>5. Device'
    BY DEF Device, Storing, InPartition, Command
<1>6. UpToDate'
    BY DEF UpToDate, Storing
<1>7. ReadsLastWritten'
    BY DEF TypeOK, ReadsLastWritten
<1>8. Paired'
    BY Zenon, <1>e DEF TypeOK, Place, Issued, Paired, Outside, Quiet, Storing
<1>9. AcknowledgedIfExpected'
    BY DEF TypeOK, AcknowledgedIfExpected
<1> QED
    BY <1>1, <1>2, <1>3, <1>4, <1>5, <1>6, <1>7, <1>8, <1>9

\* The data in the buffer reaches the medium.
LEMMA finish_OK ==
    ASSUME IInv, finish
    PROVE  IInv'
<1> USE DiskAssumption DEF IInv, finish, At, Goto, driver, device
<1>d. command.disk \in DiskNo /\ command.sector \in Sector /\ buffer \in Value
    BY Zenon, OnDisk DEF TypeOK, Device, Command
<1>e. \A t \in Thread : pc[t] \in {"down", "busy"} =>
         /\ command.kind = req[t].kind /\ command.disk = req[t].disk
         /\ command.sector = req[t].sector
    BY DEF Issued
<1>1. TypeOK'
    BY <1>d DEF TypeOK
<1>2. Requests'
    BY DEF TypeOK, Requests, InPartition
<1>3. Exclusive'
    BY DEF TypeOK, Exclusive
<1>4. Issued'
    BY DEF TypeOK, Issued
<1>5. Device'
    BY DEF Device, Storing, InPartition
<1>6. UpToDate'
    BY DEF UpToDate, Storing
<1>7. ReadsLastWritten'
    BY DEF TypeOK, ReadsLastWritten
<1>8. Paired'
    BY <1>d, <1>e DEF TypeOK, Place, Issued, Paired, Outside, Quiet, Storing
<1>9. AcknowledgedIfExpected'
    BY DEF AcknowledgedIfExpected, Paired
<1> QED
    BY <1>1, <1>2, <1>3, <1>4, <1>5, <1>6, <1>7, <1>8, <1>9

\* The disk gives a command up.
LEMMA abort_OK ==
    ASSUME IInv, abort
    PROVE  IInv'
<1> USE DiskAssumption DEF IInv, abort, At, Goto, driver, device
<1>e. \A t \in Thread : pc[t] \in {"down", "busy"} =>
         /\ command.kind = req[t].kind /\ command.disk = req[t].disk
         /\ command.sector = req[t].sector
    BY DEF Issued
<1>1. TypeOK'
    BY DEF TypeOK, Place
<1>2. Requests'
    BY DEF TypeOK, Requests, InPartition
<1>3. Exclusive'
    BY DEF TypeOK, Exclusive
<1>4. Issued'
    BY DEF TypeOK, Issued
<1>5. Device'
    BY DEF Device, Storing, InPartition
<1>6. UpToDate'
    BY DEF UpToDate, Storing
<1>7. ReadsLastWritten'
    BY DEF TypeOK, ReadsLastWritten
<1>8. Paired'
    BY <1>e DEF TypeOK, Place, Issued, Paired, Outside, Quiet, Storing
<1>9. AcknowledgedIfExpected'
    BY DEF TypeOK, AcknowledgedIfExpected
<1> QED
    BY <1>1, <1>2, <1>3, <1>4, <1>5, <1>6, <1>7, <1>8, <1>9

\* A stray interrupt touches nothing but the interrupt line.
LEMMA interfere_OK ==
    ASSUME IInv, interfere
    PROVE  IInv'
<1> USE DiskAssumption DEF IInv, interfere, At, Goto, driver, device
<1>1. TypeOK'
    BY DEF TypeOK, Place
<1>2. Requests'
    BY DEF TypeOK, Requests, InPartition
<1>3. Exclusive'
    BY DEF TypeOK, Exclusive
<1>4. Issued'
    BY DEF TypeOK, Issued
<1>5. Device'
    BY DEF Device, Storing, InPartition
<1>6. UpToDate'
    BY DEF UpToDate, Storing
<1>7. ReadsLastWritten'
    BY DEF TypeOK, ReadsLastWritten
<1>8. Paired'
    <2>1. spurious' # 0
        BY DEF TypeOK
    <2> QED
        BY <2>1 DEF Paired
<1>9. AcknowledgedIfExpected'
    BY DEF TypeOK, AcknowledgedIfExpected
<1> QED
    BY <1>1, <1>2, <1>3, <1>4, <1>5, <1>6, <1>7, <1>8, <1>9

\* block_read () and block_write (): check_sector () lets only sectors of the
\* partition through.
LEMMA request_OK ==
    ASSUME IInv, NEW t \in Thread, NEW kind \in {"read", "write"},
           NEW b \in Partition, NEW sector \in Sector, NEW v \in Value \cup {NULL},
           kind = "write" => v \in Value, request(t, kind, b, sector, v)
    PROVE  IInv'
<1> DEFINE r == [kind |-> kind, block |-> b, disk |-> disk_of[b],
                 sector |-> start_of[b] + sector, value |-> v]
<1>n. sector \in Nat /\ start_of[b] \in Nat /\ size_of[b] \in Nat /\ disk_of[b] \in DiskNo
    BY DiskAssumption DEF Sector
<1>r. sector < size_of[b] => r \in Request /\ InPartition(r)
    <2>1. sector < size_of[b] =>
            start_of[b] + sector \in start_of[b] .. start_of[b] + size_of[b] - 1
        BY <1>n
    <2>2. r \in Request
        BY <1>n DEF Request
    <2>3. r.block = b /\ r.disk = disk_of[b] /\ r.sector = start_of[b] + sector
        OBVIOUS
    <2> HIDE DEF r
    <2> QED
        BY <2>1, <2>2, <2>3 DEF InPartition
<1>c. \/ /\ req' = [req EXCEPT ![t] = r] /\ pc' = [pc EXCEPT ![t] = "lock"]
         /\ r \in Request /\ InPartition(r)
      \/ UNCHANGED <<pc, req>>
    <2>1. CASE sector < size_of[b]
        <3>1. ~(sector >= size_of[b])
            BY <2>1, <1>n
        <3> QED
            BY <3>1, <2>1, <1>r DEF request, Goto
    <2>2. CASE sector >= size_of[b]
        BY Zenon, <2>2 DEF request
    <2> QED
        BY <1>n, <2>1, <2>2
<1> HIDE DEF r
<1>k. r.kind = kind /\ r.value = v
    BY DEF r
<1> USE DEF IInv, request, At, driver, device
<1>1. TypeOK'
    BY <1>c DEF TypeOK, Place
<1>2. Requests'
    BY <1>c, <1>k DEF TypeOK, Requests, InPartition
<1>3. Exclusive'
    BY <1>c, <1>k DEF TypeOK, Exclusive
<1>4. Issued'
    BY <1>c DEF TypeOK, Issued
<1>5. Device'
    BY DEF Device, Storing, InPartition
<1>6. UpToDate'
    BY DEF UpToDate, Storing
<1>7. ReadsLastWritten'
    BY <1>c DEF TypeOK, ReadsLastWritten
<1>8. Paired'
    BY <1>c DEF TypeOK, Paired, Outside, Quiet, Storing
<1>9. AcknowledgedIfExpected'
    BY <1>c DEF TypeOK, AcknowledgedIfExpected
<1> QED
    BY <1>1, <1>2, <1>3, <1>4, <1>5, <1>6, <1>7, <1>8, <1>9

\* ide_init () starts with an idle channel and nobody using it.
LEMMA InitOK == Init => IInv
<1> SUFFICES ASSUME Init PROVE IInv
    OBVIOUS
<1>1. TypeOK
    <2>1. to_identify \in Seq(DiskNo)
        <3>1. to_identify \in [1 .. 2 -> DiskNo]
            BY DEF Init
        <3> QED
            BY Zenon, <3>1, SeqDef
    <2>2. media \in [DiskNo -> [Sector -> Value]]
        BY DEF Init
    <2> QED
        BY <2>1, <2>2 DEF Init, TypeOK, Place
<1> QED
    BY <1>1 DEF Init, IInv, Requests, Exclusive, Issued, Device, UpToDate, Storing,
                ReadsLastWritten, Paired, Quiet, AcknowledgedIfExpected

\* Every step of a thread, of the interrupt handler and of the disk keeps IInv.
LEMMA NextOK == IInv /\ [Next]_vars => IInv'
<1> SUFFICES ASSUME IInv, [Next]_vars PROVE IInv'
    OBVIOUS
<1>1. CASE \E t \in Thread : Calls(t)
    <2>1. PICK t \in Thread : Calls(t)
        BY <1>1
    <2>2. PICK b \in Partition, sector \in Sector :
             block_read(t, b, sector) \/ \E v \in Value : block_write(t, b, sector, v)
        BY <2>1 DEF Calls
    <2>3. CASE block_read(t, b, sector)
        BY <2>3, request_OK DEF block_read
    <2>4. CASE \E v \in Value : block_write(t, b, sector, v)
        BY <2>4, request_OK DEF block_write
    <2> QED
        BY <2>2, <2>3, <2>4
<1>2. CASE \E t \in Thread : lock_acquire(t)
    BY <1>2, lock_acquire_OK
<1>3. CASE \E t \in Thread : Driver(t)
    BY <1>3, select_sector_OK, issue_pio_command_OK, sema_down_OK,
       wait_while_busy_OK, input_sector_OK, output_sector_OK, lock_release_OK
       DEF Driver
<1>4. CASE identify_ata_device \/ interrupt_handler
    BY <1>4, identify_ata_device_OK, interrupt_handler_OK
<1>5. CASE ready \/ finish \/ abort \/ interfere
    BY <1>5, ready_OK, finish_OK, abort_OK, interfere_OK
<1>6. CASE UNCHANGED vars
    BY <1>6 DEF vars, IInv, TypeOK, Requests, Exclusive, Issued, Device, UpToDate,
                Storing, InPartition, ReadsLastWritten, Paired, Outside, Quiet,
                AcknowledgedIfExpected
<1> QED
    BY <1>1, <1>2, <1>3, <1>4, <1>5, <1>6 DEF Next

\* The channel and the driver stay in step in every behaviour of the driver.
THEOREM DiskInvariance == Spec => []IInv
BY InitOK, NextOK, PTL DEF Spec

\* Reads through block_read () return the last value written, however many
\* threads share the channel and however many stray interrupts arrive, because
\* ide_read () looks at BSY and DRQ after sema_down () and select_sector () waits
\* for the channel to be idle.
THEOREM ReadsAreCurrent == Spec => []ReadsLastWritten
<1>1. IInv => ReadsLastWritten
    BY DEF IInv
<1> QED
    BY <1>1, DiskInvariance, PTL

\* Without stray interrupts block_write () returns only once the medium has the
\* data: the interrupt that ends its sema_down () is the one of its own command.
THEOREM WritesAreDurable == Spec => []AcknowledgedIfExpected
<1>1. IInv => AcknowledgedIfExpected
    BY DEF IInv
<1> QED
    BY <1>1, DiskInvariance, PTL

\* check_sector () and the shift by the partition's start keep every write of
\* every thread inside the partition it was made through.
THEOREM WritesStayInside == Spec => PartitionsApart
<1> DEFINE A == \A d \in DiskNo, s \in Sector : media'[d][s] # media[d][s] =>
       LET b == command.block
       IN  /\ b \in Partition
           /\ disk_of[b] = d
           /\ s \in start_of[b] .. start_of[b] + size_of[b] - 1
<1>1. IInv /\ [Next]_vars => [A]_vars
    <2> SUFFICES ASSUME IInv, [Next]_vars PROVE A
        OBVIOUS
    <2>1. CASE finish
        <3>1. InPartition(command)
            BY <2>1 DEF finish, IInv, Device
        <3>2. \A d \in DiskNo, s \in Sector : media'[d][s] # media[d][s] =>
                 d = command.disk /\ s = command.sector
            BY <2>1 DEF finish, IInv, TypeOK
        <3> QED
            BY <3>1, <3>2 DEF InPartition
    <2>2. CASE media' = media
        BY <2>2
    <2>3. finish \/ media' = media
        BY ZenonT(30) DEF Next, vars, Calls, block_read, block_write, request, lock_acquire,
               Driver, select_sector, issue_pio_command, sema_down, wait_while_busy,
               input_sector, output_sector, lock_release, identify_ata_device,
               interrupt_handler, ready, abort, interfere, device
    <2> QED
        BY Zenon, <2>1, <2>2, <2>3
<1> QED
    BY <1>1, DiskInvariance, PTL DEF Spec, PartitionsApart
===============================================================================
