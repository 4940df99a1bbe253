------------------------------ MODULE Terminal ------------------------------
(***************************************************************************)
(* Console input and output: the interrupt queues (devices/intq.c) between *)
(* threads and the serial port (devices/serial.c), the keyboard            *)
(* (devices/kbd.c, devices/input.c), the console lock (lib/kernel/         *)
(* console.c), and the polled output of a panic or a shutdown.             *)
(*                                                                         *)
(* Everything below input_getc() and serial_putc() runs with interrupts    *)
(* off, so a step ends where the thread blocks: in lock_acquire() or in    *)
(* wait().  lock_release() does not yield when interrupts are off.         *)
(***************************************************************************)
EXTENDS Naturals, Sequences, FiniteSets

CONSTANTS Reader, Writer, NULL,
          INTQ_BUFSIZE,
          MaxString,   \* length of the string each writer prints
          MaxInput     \* number of bytes that arrive

ASSUME TerminalAssumption ==
  /\ INTQ_BUFSIZE \in Nat /\ INTQ_BUFSIZE > 1
  /\ MaxString \in Nat \ {0} /\ MaxInput \in Nat
  /\ Reader \cap Writer = {} /\ NULL \notin Reader \cup Writer
  /\ "panic" \notin Writer
  /\ NULL \notin (Writer \X (1 .. MaxString)) \cup {<<"panic", 1>>, "key", "serial"}

VARIABLES q,        \* the struct intq "input" and "txq"
          mode, ier, thr, rbr,      \* serial driver and its registers
          console_lock,
          pc, printed,              \* where each thread is; bytes of its string
          down,                     \* how far a shutdown or a panic has got
          sent, line, arrived, got  \* history: what went in and came out

vars == <<q, mode, ier, thr, rbr, console_lock, pc, printed, down,
          sent, line, arrived, got>>

Thread == Reader \cup Writer
Message == <<"panic", 1>>

\* shutdown_power_off() flushes with interrupts off ("flush") and goes on with
\* interrupts on ("flushed"); a panic turns them off for good: it prints
\* ("panic") and flushes ("message").  Then the machine is "off".
Up == down \in {"no", "flushed"}

\* A thread on the processor: also one that is back from thread_block().
Runs(t) == Up /\ pc[t] \in {"ready", "woken"}

-----------------------------------------------------------------------------
(* intq.c *)

next(pos) == (pos + 1) % INTQ_BUFSIZE

intq_init == [lock |-> NULL, not_full |-> NULL, not_empty |-> NULL,
              buf |-> [i \in 0 .. INTQ_BUFSIZE - 1 |-> NULL],
              head |-> 0, tail |-> 0]

intq_empty(r) == r.head = r.tail

\* One place stays unused to tell full from empty.
intq_full(r)  == next(r.head) = r.tail

\* Taking a byte signals not_full, adding one not_empty.
Front(r)    == r.buf[r.tail]
Taken(r)    == [r EXCEPT !.tail = next(@), !.not_full = NULL]
Added(r, b) == [r EXCEPT !.buf[r.head] = b, !.head = next(@), !.not_empty = NULL]

\* Mutant: the waiting thread stays blocked.
signal_none(waiter) == pc

signal(waiter) == IF waiter = NULL THEN pc ELSE [pc EXCEPT ![waiter] = "woken"]

\* What the queue holds, oldest byte first.
Contents(r) == [i \in 1 .. (r.head + INTQ_BUFSIZE - r.tail) % INTQ_BUFSIZE |->
                  r.buf[(r.tail + i - 1) % INTQ_BUFSIZE]]

Queue(t) == IF t \in Reader THEN "input" ELSE "txq"
MustWait(t) == IF t \in Reader THEN intq_empty(q["input"]) ELSE intq_full(q["txq"])

\* wait(): with the queue's lock held, the thread becomes the waiter and
\* blocks.  The assertion that its condition still holds stops the kernel.
wait(t) ==
  /\ IF MustWait(t)
     THEN /\ q' = [q EXCEPT ![Queue(t)] =
                     IF t \in Reader THEN [@ EXCEPT !.lock = t, !.not_empty = t]
                     ELSE [@ EXCEPT !.lock = t, !.not_full = t]]
          /\ pc' = [pc EXCEPT ![t] = "blocked"]
          /\ UNCHANGED down
     ELSE down' = "panic" /\ UNCHANGED <<q, pc>>
  /\ UNCHANGED <<mode, ier, thr, rbr, console_lock, printed, sent, line, arrived, got>>

\* lock_acquire(): a thread that finds the lock taken waits for it.  One that
\* was woken and finds nothing releases the lock and has it again.
intq_wait(t) ==
  /\ Runs(t)
  /\ t \in Writer => console_lock = t /\ mode = "QUEUE"
  /\ MustWait(t)
  /\ IF q[Queue(t)].lock = NULL \/ pc[t] = "woken" THEN wait(t)
     ELSE /\ pc' = [pc EXCEPT ![t] = "locking"]
          /\ UNCHANGED <<q, mode, ier, thr, rbr, console_lock, printed, down,
                         sent, line, arrived, got>>

lock_acquire(t) ==
  /\ Up /\ pc[t] = "locking"
  /\ q[Queue(t)].lock = NULL
  /\ wait(t)

\* Back from thread_block(), the thread gives the queue's lock back and goes
\* on with its byte.
lock_release(r, t) == IF pc[t] = "woken" THEN [r EXCEPT !.lock = NULL] ELSE r

-----------------------------------------------------------------------------
(* serial.c, input.c *)

\* Interrupts are wanted while there is something to send, room to receive.
write_ier(qs) == [xmit |-> ~intq_empty(qs["txq"]), recv |-> ~intq_full(qs["input"])]

serial_notify(qs) == IF mode = "QUEUE" THEN write_ier(qs) ELSE ier

serial_init_queue ==
  /\ Up /\ mode = "POLL"
  /\ mode' = "QUEUE"
  /\ ier' = write_ier(q)
  /\ UNCHANGED <<q, thr, rbr, console_lock, pc, printed, down, sent, line,
                 arrived, got>>

input_getc(t) ==
  /\ Runs(t)
  /\ ~MustWait(t)
  /\ got' = Append(got, Front(q["input"]))
  /\ q' = [q EXCEPT !["input"] = Taken(lock_release(q["input"], t))]
  /\ pc' = [signal(q["input"].not_full) EXCEPT ![t] = "ready"]
  /\ ier' = serial_notify(q')
  /\ UNCHANGED <<mode, thr, rbr, console_lock, printed, down, sent, line, arrived>>

\* input_putc() from an interrupt handler, when there is room.
input_putc(b) ==
  /\ arrived' = Append(arrived, b)
  /\ q' = [q EXCEPT !["input"] = Added(@, b)]
  /\ pc' = signal(q["input"].not_empty)

\* A key that finds the buffer full is dropped.
keyboard_interrupt ==
  /\ Up
  /\ ~intq_full(q["input"])
  /\ Len(arrived) < MaxInput
  /\ input_putc("key")
  /\ ier' = serial_notify(q')
  /\ UNCHANGED <<mode, thr, rbr, console_lock, printed, down, sent, line, got>>

\* acquire_console() and the string's bytes: putbuf(), puts(), vprintf().  The
\* lock is in use (console_init() comes before the second thread), the caller
\* is a thread that does not have it, and no interrupt handler prints.
acquire_console(t) ==
  /\ Up /\ pc[t] = "idle"
  /\ console_lock = NULL
  /\ printed[t] < MaxString
  /\ console_lock' = t
  /\ pc' = [pc EXCEPT ![t] = "ready"]
  /\ UNCHANGED <<q, mode, ier, thr, rbr, printed, down, sent, line, arrived, got>>

Byte(t) == <<t, printed[t] + 1>>

putchar_have_lock(t) ==
  /\ Runs(t)
  /\ printed[t] < MaxString
  /\ sent' = Append(sent, Byte(t))
  /\ printed' = [printed EXCEPT ![t] = @ + 1]
  /\ UNCHANGED <<mode, rbr, console_lock, down, line, arrived, got>>

\* Before the queue is set up: putc_poll() spins until the port is free.
serial_putc_poll(t) ==
  /\ mode = "POLL"
  /\ thr = NULL
  /\ putchar_have_lock(t)
  /\ thr' = Byte(t)
  /\ UNCHANGED <<q, ier, pc>>

serial_putc(t) ==
  /\ mode = "QUEUE"
  /\ ~MustWait(t)
  /\ putchar_have_lock(t)
  /\ q' = [q EXCEPT !["txq"] = Added(lock_release(q["txq"], t), Byte(t))]
  /\ pc' = [signal(q["txq"].not_empty) EXCEPT ![t] = "ready"]
  /\ ier' = write_ier(q')
  /\ UNCHANGED thr

release_console(t) ==
  /\ Runs(t)
  /\ printed[t] = MaxString
  /\ console_lock' = NULL
  /\ pc' = [pc EXCEPT ![t] = "idle"]
  /\ UNCHANGED <<q, mode, ier, thr, rbr, printed, down, sent, line, arrived, got>>

\* The handler receives while there is room and a byte, then transmits while
\* there is a byte and the port is free: at most one each without a FIFO.
serial_interrupt ==
  /\ Up /\ mode = "QUEUE"
  /\ (ier.recv /\ rbr # NULL) \/ (ier.xmit /\ thr = NULL)
  /\ LET in == q["input"]
         rx == rbr # NULL /\ ~intq_full(in)
         tx == thr = NULL /\ ~intq_empty(q["txq"])
     IN  /\ arrived' = IF rx THEN Append(arrived, rbr) ELSE arrived
         /\ q' = [input |-> IF rx THEN Added(in, rbr) ELSE in,
                  txq   |-> IF tx THEN Taken(q["txq"]) ELSE q["txq"]]
         /\ rbr' = IF rx THEN NULL ELSE rbr
         /\ thr' = IF tx THEN Front(q["txq"]) ELSE thr
         /\ pc' = [t \in Thread |->
                     IF (rx /\ t = in.not_empty) \/ (tx /\ t = q["txq"].not_full)
                     THEN signal(t)[t] ELSE pc[t]]
  /\ ier' = write_ier(q')
  /\ UNCHANGED <<mode, console_lock, printed, down, sent, line, got>>

-----------------------------------------------------------------------------
(* The end: debug_panic() or shutdown_power_off() *)

\* "Powering off..." needs the console; serial_flush() turns interrupts off.
shutdown_power_off ==
  /\ down = "no" /\ console_lock = NULL
  /\ down' = "flush"
  /\ UNCHANGED <<q, mode, ier, thr, rbr, console_lock, pc, printed, sent, line,
                 arrived, got>>

\* Mutant: the newest byte is polled out when the queue is full.
poll_newest ==
  /\ thr = NULL /\ ~intq_empty(q["txq"])
  /\ down \in {"flush", "message"} \/ (down = "panic" /\ intq_full(q["txq"]))
  /\ thr' = Contents(q["txq"])[Len(Contents(q["txq"]))]
  /\ q' = [q EXCEPT !["txq"] = Taken(@)]
  /\ pc' = signal(q["txq"].not_full)
  /\ UNCHANGED <<mode, ier, rbr, console_lock, printed, down, sent, line,
                 arrived, got>>

\* putc_poll() of the oldest byte, to make room for the message or to flush.
poll ==
  /\ thr = NULL /\ ~intq_empty(q["txq"])
  /\ down \in {"flush", "message"} \/ (down = "panic" /\ intq_full(q["txq"]))
  /\ thr' = Front(q["txq"])
  /\ q' = [q EXCEPT !["txq"] = Taken(@)]
  /\ pc' = signal(q["txq"].not_full)
  /\ UNCHANGED <<mode, ier, rbr, console_lock, printed, down, sent, line,
                 arrived, got>>

debug_panic ==
  /\ down = "panic"
  /\ IF mode = "QUEUE"
     THEN /\ ~intq_full(q["txq"])
          /\ q' = [q EXCEPT !["txq"] = Added(@, Message)]
          /\ ier' = write_ier(q')
          /\ UNCHANGED thr
     ELSE thr = NULL /\ thr' = Message /\ UNCHANGED <<q, ier>>
  /\ sent' = Append(sent, Message)
  /\ down' = "message"
  /\ UNCHANGED <<mode, rbr, console_lock, pc, printed, line, arrived, got>>

\* serial_flush() is over: the thread that shuts down goes on with interrupts
\* as they were, and the others run until the machine is off.
serial_flushed ==
  /\ down = "flush" /\ intq_empty(q["txq"])
  /\ down' = "flushed"
  /\ UNCHANGED <<q, mode, ier, thr, rbr, console_lock, pc, printed, sent, line,
                 arrived, got>>

\* What was queued after the flush is lost; after a panic nothing is.
power_off ==
  /\ down = "flushed" \/ (down = "message" /\ intq_empty(q["txq"]))
  /\ down' = "off"
  /\ UNCHANGED <<q, mode, ier, thr, rbr, console_lock, pc, printed, sent, line,
                 arrived, got>>

\* The port: a byte leaves the holding register, a byte comes in.
transmit ==
  /\ thr # NULL
  /\ line' = Append(line, thr)
  /\ thr' = NULL
  /\ UNCHANGED <<q, mode, ier, rbr, console_lock, pc, printed, down, sent,
                 arrived, got>>

receive ==
  /\ rbr = NULL
  /\ Len(arrived) < MaxInput
  /\ rbr' = "serial"
  /\ UNCHANGED <<q, mode, ier, thr, console_lock, pc, printed, down, sent, line,
                 arrived, got>>

Init ==
  /\ q = [k \in {"input", "txq"} |-> intq_init]
  /\ mode = "POLL" /\ ier = [xmit |-> FALSE, recv |-> FALSE]
  /\ thr = NULL /\ rbr = NULL
  /\ console_lock = NULL
  /\ pc = [t \in Thread |-> IF t \in Reader THEN "ready" ELSE "idle"]
  /\ printed = [t \in Writer |-> 0]
  /\ down = "no"
  /\ sent = <<>> /\ line = <<>> /\ arrived = <<>> /\ got = <<>>

Threads(t) == intq_wait(t) \/ lock_acquire(t)
Reading(t) == input_getc(t)
Writing(t) == acquire_console(t) \/ serial_putc_poll(t) \/ serial_putc(t)
              \/ release_console(t)
Ending     == poll \/ debug_panic \/ serial_flushed \/ power_off
Hardware   == transmit \/ receive

Next ==
  \/ \E t \in Thread : Threads(t)
  \/ \E t \in Reader : Reading(t)
  \/ \E t \in Writer : Writing(t)
  \/ serial_init_queue \/ keyboard_interrupt \/ serial_interrupt
  \/ shutdown_power_off \/ Ending \/ Hardware

\* Threads are scheduled round robin, an asserted interrupt is taken as soon
\* as interrupts are on, and the port transmits what it is given.
Fairness == /\ \A t \in Reader : WF_vars(Threads(t)) /\ WF_vars(Reading(t))
            /\ \A t \in Writer : WF_vars(Threads(t)) /\ WF_vars(Writing(t))
            /\ WF_vars(serial_init_queue) /\ WF_vars(serial_interrupt)
            /\ WF_vars(Ending) /\ WF_vars(transmit)

Spec == Init /\ [][Next]_vars
FairSpec == Spec /\ Fairness

-----------------------------------------------------------------------------
\* The shape of the state.
TypeOK ==
  /\ pc \in [Thread -> {"idle", "ready", "locking", "blocked", "woken"}]
  /\ \A k \in DOMAIN q : /\ {q[k].head, q[k].tail} \subseteq 0 .. INTQ_BUFSIZE - 1
                         /\ q[k].lock \in Thread \cup {NULL}
  /\ console_lock \in Writer \cup {NULL}

\* Bytes leave the port in the order they were handed to serial_putc(), none
\* lost or doubled, whether the interrupt handler, the boot-time polling, the
\* polling of a panic with a full queue or serial_flush() moves them; and
\* readers get keys and serial bytes in the order of arrival.  The console
\* lock keeps the string of a thread in one piece, across all the waits for
\* room in the queue; only a panic, which ignores the lock, cuts in.
BytesInOrder ==
  /\ TypeOK
  /\ line \o (IF thr = NULL THEN <<>> ELSE <<thr>>) \o Contents(q["txq"]) = sent
  /\ got \o Contents(q["input"]) = arrived
  /\ \A i \in 1 .. Len(sent) - 1 :
       /\ sent[i][2] < MaxString => sent[i + 1] \in {<<sent[i][1], sent[i][2] + 1>>, Message}
       /\ sent[i] # Message

\* The machine has neither got past the flush of a shutdown nor been stopped.
NotFlushed == down \in {"no", "flush", "panic", "message"}

\* What is handed to serial_putc() is transmitted in the end, the message of a
\* panic and everything before it included, unless it comes after the flush of
\* shutdown_power_off(), when the machine may be off before the handler gets
\* to it.  Every byte that arrives is read by one of the readers, in a machine
\* that stays up: signal() misses no waiter, with two readers at the queue
\* too, as long as wait()'s assertion (intq.c 86) does not stop the kernel,
\* which it can do to the second of them.
EverythingArrives ==
  /\ \A n \in 1 .. Cardinality(Writer) * MaxString + 1 :
       NotFlushed /\ Len(sent) >= n ~> Len(line) >= n
  /\ []<>((got = arrived /\ rbr = NULL) \/ down \in {"panic", "message", "off"})
=============================================================================
