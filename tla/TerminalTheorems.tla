------------------------- MODULE TerminalTheorems -------------------------
(***************************************************************************)
(* BytesInOrder, for queues of any size, any number of readers and writers *)
(* and strings of any length.                                              *)
(***************************************************************************)
EXTENDS Terminal, SequenceTheorems, TLAPS

\* Zenon proves the leaves that name no prover.
USE Zenon

OutByte == (Writer \X (1 .. MaxString)) \cup {Message}
InByte == {"key", "serial"}

QueueType(B) ==
  [lock : Thread \cup {NULL}, not_full : Thread \cup {NULL},
   not_empty : Thread \cup {NULL}, buf : [0 .. INTQ_BUFSIZE - 1 -> B \cup {NULL}],
   head : 0 .. INTQ_BUFSIZE - 1, tail : 0 .. INTQ_BUFSIZE - 1]

Types ==
  /\ q \in [{"input", "txq"} -> QueueType(OutByte \cup InByte)]
  /\ mode \in {"POLL", "QUEUE"}
  /\ thr \in OutByte \cup {NULL} /\ rbr \in {"serial", NULL}
  /\ console_lock \in Writer \cup {NULL}
  /\ pc \in [Thread -> {"idle", "ready", "locking", "blocked", "woken"}]
  /\ printed \in [Writer -> 0 .. MaxString]
  /\ down \in {"no", "flush", "flushed", "panic", "message", "off"}
  /\ sent \in Seq(OutByte) /\ line \in Seq(OutByte)
  /\ arrived \in Seq(InByte) /\ got \in Seq(InByte)

\* Who may be woken by a queue, and that a writer under way has the console.
Waits ==
  /\ q["input"].not_full = NULL /\ q["txq"].not_empty = NULL
  /\ q["input"].not_empty \in Reader \cup {NULL}
  /\ q["txq"].not_full \in Writer => pc[q["txq"].not_full] = "blocked"
  /\ q["txq"].not_full \in Writer \cup {NULL}
  /\ \A t \in Writer : pc[t] # "idle" => console_lock = t

\* What was handed to the port is on the line, in the port or in the queue.
Output ==
  /\ (line \o (IF thr = NULL THEN <<>> ELSE <<thr>>)) \o Contents(q["txq"]) = sent
  /\ mode = "POLL" => intq_empty(q["txq"])

Input == got \o Contents(q["input"]) = arrived

Follows(a, b) == /\ a # Message
                 /\ a[2] < MaxString => b \in {<<a[1], a[2] + 1>>, Message}

\* A string that is not finished is the one of the console's owner.
WholeStrings ==
  /\ \A i \in 1 .. Len(sent) - 1 : Follows(sent[i], sent[i + 1])
  /\ sent # <<>> /\ sent[Len(sent)] = Message => down \in {"message", "off"}
  /\ sent # <<>> /\ sent[Len(sent)] # Message /\ sent[Len(sent)][2] < MaxString =>
       /\ console_lock = sent[Len(sent)][1]
       /\ printed[console_lock] = sent[Len(sent)][2]

IInv == Types /\ Waits /\ Output /\ Input /\ WholeStrings

-----------------------------------------------------------------------------
(* The queue *)

\* The positions of a queue, without the modulus.
Place(pos) == IF pos < INTQ_BUFSIZE THEN pos ELSE pos - INTQ_BUFSIZE
Count(r) == Place(r.head + INTQ_BUFSIZE - r.tail)

\* A position modulo the size, for the sums that occur.
LEMMA Wrap ==
  ASSUME NEW x \in Nat, x < 2 * INTQ_BUFSIZE
  PROVE  x % INTQ_BUFSIZE = Place(x)
<1>1. INTQ_BUFSIZE \in Nat /\ INTQ_BUFSIZE > 0
  BY SMT, TerminalAssumption
<1>2. CASE x < INTQ_BUFSIZE
  BY SMT, <1>1, <1>2 DEF Place
<1>3. CASE x >= INTQ_BUFSIZE
  BY SMT, <1>1, <1>3 DEF Place
<1> QED
  BY SMT, <1>1, <1>2, <1>3

\* How many bytes a queue holds and where they are.
LEMMA ContentsAre ==
  ASSUME NEW B, NEW r \in QueueType(B)
  PROVE  /\ Count(r) \in 0 .. INTQ_BUFSIZE - 1
         /\ Contents(r) \in Seq(B \cup {NULL})
         /\ Len(Contents(r)) = Count(r)
         /\ \A i \in 1 .. Count(r) : Contents(r)[i] = r.buf[Place(r.tail + i - 1)]
<1>1. /\ INTQ_BUFSIZE \in Nat /\ INTQ_BUFSIZE > 1
      /\ r.head \in 0 .. INTQ_BUFSIZE - 1 /\ r.tail \in 0 .. INTQ_BUFSIZE - 1
      /\ r.buf \in [0 .. INTQ_BUFSIZE - 1 -> B \cup {NULL}]
  BY TerminalAssumption DEF QueueType
<1>2. Count(r) \in 0 .. INTQ_BUFSIZE - 1
  BY SMT, <1>1 DEF Count, Place
<1>3. (r.head + INTQ_BUFSIZE - r.tail) % INTQ_BUFSIZE = Count(r)
  <2>1. /\ r.head + INTQ_BUFSIZE - r.tail \in Nat
        /\ r.head + INTQ_BUFSIZE - r.tail < 2 * INTQ_BUFSIZE
    BY SMT, <1>1
  <2> QED
    BY <2>1, Wrap DEF Count
<1>4. \A i \in 1 .. Count(r) :
         /\ (r.tail + i - 1) % INTQ_BUFSIZE = Place(r.tail + i - 1)
         /\ Place(r.tail + i - 1) \in 0 .. INTQ_BUFSIZE - 1
  <2> SUFFICES ASSUME NEW i \in 1 .. Count(r)
               PROVE  /\ (r.tail + i - 1) % INTQ_BUFSIZE = Place(r.tail + i - 1)
                      /\ Place(r.tail + i - 1) \in 0 .. INTQ_BUFSIZE - 1
    OBVIOUS
  <2>1. r.tail + i - 1 \in Nat /\ r.tail + i - 1 < 2 * INTQ_BUFSIZE
    BY SMT, <1>1, <1>2
  <2>2. Place(r.tail + i - 1) \in 0 .. INTQ_BUFSIZE - 1
    BY SMT, <1>1, <2>1 DEF Place
  <2> QED
    BY <2>1, <2>2, Wrap
<1>5. Contents(r) = [i \in 1 .. Count(r) |-> r.buf[Place(r.tail + i - 1)]]
  BY <1>3, <1>4 DEF Contents
<1> HIDE DEF Count, Place
<1>6. \A i \in 1 .. Count(r) : r.buf[Place(r.tail + i - 1)] \in B \cup {NULL}
  BY <1>1, <1>4
<1> QED
  BY SMT, <1>2, <1>5, <1>6

\* next() is the following place.
LEMMA NextIs ==
  ASSUME NEW pos \in 0 .. INTQ_BUFSIZE - 1
  PROVE  next(pos) = Place(pos + 1) /\ next(pos) \in 0 .. INTQ_BUFSIZE - 1
<1>1. INTQ_BUFSIZE \in Nat /\ INTQ_BUFSIZE > 1
  BY TerminalAssumption
<1>2. pos + 1 \in Nat /\ pos + 1 < 2 * INTQ_BUFSIZE
  BY SMT, <1>1
<1>3. Place(pos + 1) \in 0 .. INTQ_BUFSIZE - 1
  BY SMT, <1>1 DEF Place
<1> QED
  BY <1>2, <1>3, Wrap DEF next

\* Contents depends on the buffer and the two positions alone.
LEMMA ContentsSame ==
  ASSUME NEW r, NEW s, s.buf = r.buf, s.head = r.head, s.tail = r.tail
  PROVE  Contents(s) = Contents(r)
BY DEF Contents

\* intq_getc() takes the oldest byte.
LEMMA TakenIs ==
  ASSUME NEW B, NEW r \in QueueType(B), ~intq_empty(r)
  PROVE  /\ Taken(r) \in QueueType(B)
         /\ Contents(r) = <<Front(r)>> \o Contents(Taken(r))
         /\ Contents(r)[1] = Front(r) /\ Len(Contents(r)) > 0
<1> DEFINE s == Taken(r)
<1>1. /\ INTQ_BUFSIZE \in Nat /\ INTQ_BUFSIZE > 1
      /\ r.head \in 0 .. INTQ_BUFSIZE - 1 /\ r.tail \in 0 .. INTQ_BUFSIZE - 1
      /\ r.buf \in [0 .. INTQ_BUFSIZE - 1 -> B \cup {NULL}] /\ r.head # r.tail
  BY TerminalAssumption DEF QueueType, intq_empty
<1>2. next(r.tail) = Place(r.tail + 1) /\ next(r.tail) \in 0 .. INTQ_BUFSIZE - 1
  BY <1>1, NextIs
<1>3. /\ s.head = r.head /\ s.tail = Place(r.tail + 1) /\ s.buf = r.buf
      /\ s \in QueueType(B)
  BY <1>1, <1>2 DEF Taken, QueueType
<1>4. Count(r) = Count(s) + 1
  BY SMTT(40), <1>1, <1>3 DEF Count, Place
<1> HIDE DEF s
<1>5. /\ Count(s) \in Nat
      /\ Contents(r) \in Seq(B \cup {NULL}) /\ Contents(s) \in Seq(B \cup {NULL})
      /\ Len(Contents(r)) = Count(r) /\ Len(Contents(s)) = Count(s)
      /\ \A i \in 1 .. Count(r) : Contents(r)[i] = r.buf[Place(r.tail + i - 1)]
      /\ \A i \in 1 .. Count(s) : Contents(s)[i] = r.buf[Place(Place(r.tail + 1) + i - 1)]
  <2>1. /\ Count(s) \in 0 .. INTQ_BUFSIZE - 1
        /\ Contents(s) \in Seq(B \cup {NULL}) /\ Len(Contents(s)) = Count(s)
        /\ \A i \in 1 .. Count(s) : Contents(s)[i] = s.buf[Place(s.tail + i - 1)]
    BY <1>3, ContentsAre
  <2>2. /\ Contents(r) \in Seq(B \cup {NULL}) /\ Len(Contents(r)) = Count(r)
        /\ \A i \in 1 .. Count(r) : Contents(r)[i] = r.buf[Place(r.tail + i - 1)]
    BY ContentsAre
  <2> QED
    BY SMT, <1>1, <1>3, <2>1, <2>2
<1>6. Contents(r)[1] = Front(r) /\ Front(r) \in B \cup {NULL}
  <2>1. Place(r.tail + 1 - 1) = r.tail
    BY SMT, <1>1 DEF Place
  <2> QED
    BY SMT, <1>1, <1>4, <1>5, <2>1 DEF Front
<1>7. \A i \in 1 .. Count(s) : Place(Place(r.tail + 1) + i - 1) = Place(r.tail + (i + 1) - 1)
  <2>1. Count(s) \in 0 .. INTQ_BUFSIZE - 1
    BY <1>3, ContentsAre
  <2> QED
    BY SMTT(40), <1>1, <2>1 DEF Place
<1>8. \A i \in 1 .. Count(s) : Contents(r)[i + 1] = Contents(s)[i]
  BY SMTT(40), <1>4, <1>5, <1>7
<1> DEFINE a == <<Front(r)>> \o Contents(s)
<1>9. /\ a \in Seq(B \cup {NULL}) /\ Len(a) = Count(r)
      /\ \A i \in 1 .. Count(r) : a[i] = IF i = 1 THEN Front(r) ELSE Contents(s)[i - 1]
  <2>1. <<Front(r)>> \in Seq(B \cup {NULL}) /\ Len(<<Front(r)>>) = 1 /\ <<Front(r)>>[1] = Front(r)
    BY SMT, <1>6
  <2> HIDE DEF Front
  <2>2. /\ a \in Seq(B \cup {NULL}) /\ Len(a) = 1 + Count(s)
        /\ \A i \in 1 .. 1 + Count(s) :
             a[i] = IF i <= 1 THEN <<Front(r)>>[i] ELSE Contents(s)[i - 1]
    BY SMT, <1>5, <2>1, ConcatProperties
  <2> QED
    BY SMT, <1>4, <1>5, <2>1, <2>2
<1>10. \A i \in 1 .. Count(r) : Contents(r)[i] = a[i]
  <2> SUFFICES ASSUME NEW i \in 1 .. Count(r) PROVE Contents(r)[i] = a[i]
    OBVIOUS
  <2>1. CASE i = 1
    BY <1>6, <1>9, <2>1
  <2>2. CASE i # 1
    <3>1. i - 1 \in 1 .. Count(s) /\ (i - 1) + 1 = i
      BY SMT, <1>4, <1>5, <2>2
    <3> QED
      BY <1>8, <1>9, <2>2, <3>1
  <2> QED
    BY <2>1, <2>2
<1>11. Contents(r) = a
  <2> HIDE DEF a
  <2> QED
    BY SMT, <1>5, <1>9, <1>10, SeqEqual
<1> QED
  BY SMT, <1>3, <1>4, <1>5, <1>6, <1>11 DEF s

\* intq_putc() adds the newest byte, and moves none.
LEMMA AddedIs ==
  ASSUME NEW B, NEW r \in QueueType(B), NEW b \in B, ~intq_full(r)
  PROVE  /\ Added(r, b) \in QueueType(B)
         /\ Contents(Added(r, b)) = Append(Contents(r), b)
<1> DEFINE s == Added(r, b)
<1>1. /\ INTQ_BUFSIZE \in Nat /\ INTQ_BUFSIZE > 1
      /\ r.head \in 0 .. INTQ_BUFSIZE - 1 /\ r.tail \in 0 .. INTQ_BUFSIZE - 1
      /\ r.buf \in [0 .. INTQ_BUFSIZE - 1 -> B \cup {NULL}]
  BY TerminalAssumption DEF QueueType
<1>2. /\ next(r.head) = Place(r.head + 1) /\ next(r.head) \in 0 .. INTQ_BUFSIZE - 1
      /\ Place(r.head + 1) # r.tail
  BY <1>1, NextIs DEF intq_full
<1>3. /\ s.head = Place(r.head + 1) /\ s.tail = r.tail
      /\ s.buf = [r.buf EXCEPT ![r.head] = b]
      /\ s \in QueueType(B)
  BY <1>1, <1>2 DEF Added, QueueType
<1> HIDE DEF s
<1>4. Count(s) = Count(r) + 1
  <2>1. CASE r.head + 1 < INTQ_BUFSIZE
    <3>1. s.head = r.head + 1 /\ r.head + 1 # r.tail
      BY <1>1, <1>2, <1>3, <2>1 DEF Place
    <3> QED
      BY SMTT(40), <1>1, <1>3, <3>1 DEF Count, Place
  <2>2. CASE r.head + 1 >= INTQ_BUFSIZE
    <3>1. s.head = 0 /\ r.head = INTQ_BUFSIZE - 1 /\ r.tail > 0
      BY SMT, <1>1, <1>2, <1>3, <2>2 DEF Place
    <3> QED
      BY SMT, <1>1, <1>3, <3>1 DEF Count, Place
  <2> QED
    BY SMT, <1>1, <2>1, <2>2
<1>5. /\ Count(s) \in 0 .. INTQ_BUFSIZE - 1
      /\ Contents(s) \in Seq(B \cup {NULL}) /\ Len(Contents(s)) = Count(s)
      /\ \A i \in 1 .. Count(s) : Contents(s)[i] = s.buf[Place(s.tail + i - 1)]
  BY <1>3, ContentsAre
<1>6. /\ Count(r) \in 0 .. INTQ_BUFSIZE - 1
      /\ Contents(r) \in Seq(B \cup {NULL}) /\ Len(Contents(r)) = Count(r)
      /\ \A i \in 1 .. Count(r) : Contents(r)[i] = r.buf[Place(r.tail + i - 1)]
  BY ContentsAre
<1>7. ASSUME NEW i \in 1 .. Count(s)
      PROVE  /\ Place(r.tail + i - 1) \in 0 .. INTQ_BUFSIZE - 1
             /\ Place(r.tail + i - 1) = r.head <=> i = Count(r) + 1
  <2>1. i \in 1 .. Count(r) + 1 /\ Count(r) + 1 < INTQ_BUFSIZE
    BY SMT, <1>1, <1>4, <1>5
  <2>2. CASE r.tail <= r.head
    <3>1. Count(r) = r.head - r.tail
      BY SMT, <1>1, <2>2 DEF Count, Place
    <3> QED
      BY SMTT(40), <1>1, <1>6, <2>1, <2>2, <3>1 DEF Place
  <2>3. CASE r.tail > r.head
    <3>1. Count(r) = r.head + INTQ_BUFSIZE - r.tail
      BY SMT, <1>1, <2>3 DEF Count, Place
    <3> QED
      BY SMTT(40), <1>1, <1>6, <2>1, <2>3, <3>1 DEF Place
  <2> QED
    BY SMT, <1>1, <2>2, <2>3
<1>8. \A i \in 1 .. Count(s) :
        Contents(s)[i] = IF i = Count(r) + 1 THEN b ELSE Contents(r)[i]
  <2> SUFFICES ASSUME NEW i \in 1 .. Count(s)
               PROVE  Contents(s)[i] = IF i = Count(r) + 1 THEN b ELSE Contents(r)[i]
    OBVIOUS
  <2>1. Contents(s)[i] = [r.buf EXCEPT ![r.head] = b][Place(r.tail + i - 1)]
    BY <1>3, <1>5
  <2>2. CASE i = Count(r) + 1
    BY <1>1, <1>7, <2>1, <2>2
  <2>3. CASE i # Count(r) + 1
    <3>1. i \in 1 .. Count(r)
      BY SMT, <1>4, <1>6, <2>3
    <3> QED
      BY <1>1, <1>6, <1>7, <2>1, <2>3, <3>1
  <2> QED
    BY <2>2, <2>3
<1> DEFINE a == Append(Contents(r), b)
<1>9. /\ a \in Seq(B \cup {NULL}) /\ Len(a) = Count(r) + 1
      /\ \A i \in 1 .. Count(r) + 1 : a[i] = IF i = Count(r) + 1 THEN b ELSE Contents(r)[i]
  BY SMT, <1>6
<1> HIDE DEF a
<1>10. Contents(s) = a
  BY SMT, <1>4, <1>5, <1>8, <1>9, SeqEqual
<1> QED
  BY <1>3, <1>10 DEF s, a

-----------------------------------------------------------------------------
(* Sequences of bytes *)

\* A byte handed over at the end of the last part.
LEMMA HandedOver ==
  ASSUME NEW S, NEW a \in Seq(S), NEW c \in Seq(S), NEW b \in S
  PROVE  a \o Append(c, b) = Append(a \o c, b)
<1>1. /\ a \o c \in Seq(S) /\ Len(a \o c) = Len(a) + Len(c)
      /\ \A i \in 1 .. Len(a) + Len(c) :
           (a \o c)[i] = IF i <= Len(a) THEN a[i] ELSE c[i - Len(a)]
  BY ConcatProperties
<1>2. /\ Append(c, b) \in Seq(S) /\ Len(Append(c, b)) = Len(c) + 1
      /\ \A i \in 1 .. Len(c) + 1 : Append(c, b)[i] = IF i <= Len(c) THEN c[i] ELSE b
  BY SMT
<1> DEFINE d == Append(c, b)
           e == a \o c
<1> HIDE DEF d, e
<1>3. /\ a \o d \in Seq(S) /\ Len(a \o d) = Len(a) + Len(c) + 1
      /\ \A i \in 1 .. Len(a) + Len(c) + 1 :
           (a \o d)[i] = IF i <= Len(a) THEN a[i] ELSE d[i - Len(a)]
  BY SMT, <1>2, ConcatProperties DEF d
<1>4. /\ Append(e, b) \in Seq(S) /\ Len(Append(e, b)) = Len(a) + Len(c) + 1
      /\ \A i \in 1 .. Len(a) + Len(c) + 1 :
           Append(e, b)[i] = IF i <= Len(a) + Len(c) THEN e[i] ELSE b
  BY SMT, <1>1 DEF e
<1>5. ASSUME NEW i \in 1 .. Len(a) + Len(c) + 1 PROVE (a \o d)[i] = Append(e, b)[i]
  <2>1. CASE i <= Len(a)
    BY SMT, <1>1, <1>3, <1>4, <2>1 DEF e
  <2>2. CASE i > Len(a) /\ i <= Len(a) + Len(c)
    <3>1. i - Len(a) \in 1 .. Len(c)
      BY SMT, <2>2
    <3> QED
      BY SMT, <1>1, <1>2, <1>3, <1>4, <2>2, <3>1 DEF d, e
  <2>3. CASE i = Len(a) + Len(c) + 1
    <3>1. i - Len(a) = Len(c) + 1 /\ ~ (i <= Len(a))
      BY SMT, <2>3
    <3> QED
      BY SMT, <1>2, <1>3, <1>4, <2>3, <3>1 DEF d
  <2>4. Len(a) \in Nat /\ Len(c) \in Nat
    BY SMT
  <2>5. i <= Len(a) \/ (i > Len(a) /\ i <= Len(a) + Len(c)) \/ i = Len(a) + Len(c) + 1
    BY SMT, <2>4
  <2> QED
    BY <2>1, <2>2, <2>3, <2>5
<1>6. a \o d = Append(e, b)
  BY <1>3, <1>4, <1>5, SeqEqual
<1> QED
  BY <1>6 DEF d, e

\* The oldest byte of the last part passes to the part before.
LEMMA PassedOn ==
  ASSUME NEW S, NEW a \in Seq(S), NEW c \in Seq(S), NEW b \in S
  PROVE  a \o (<<b>> \o c) = Append(a, b) \o c
<1>1. <<b>> \in Seq(S)
  BY SMT
<1>2. (a \o <<b>>) \o c = a \o (<<b>> \o c)
  BY SMT, <1>1, ConcatAssociative
<1>3. a \o <<b>> = Append(a, b)
  BY AppendIsConcat
<1> QED
  BY <1>2, <1>3

-----------------------------------------------------------------------------
(* What a step leaves alone *)

AnyByte == OutByte \cup InByte

\* No byte is NULL, and a writer's byte is not the message.
LEMMA ByteFacts ==
  /\ NULL \notin AnyByte
  /\ Reader \cap Writer = {} /\ NULL \notin Thread
  /\ \A t \in Writer, n \in Nat : <<t, n>> # Message
BY TerminalAssumption DEF AnyByte, OutByte, InByte, Thread, Message

\* The serial output is not touched.
LEMMA OutputKept ==
  ASSUME Output, UNCHANGED <<line, thr, sent>>, mode' \in {mode, "QUEUE"},
         q'["txq"].buf = q["txq"].buf, q'["txq"].head = q["txq"].head,
         q'["txq"].tail = q["txq"].tail
  PROVE  Output'
<1>1. Contents(q'["txq"]) = Contents(q["txq"])
  BY ContentsSame
<1>2. mode' = "POLL" => intq_empty(q'["txq"])
  BY DEF Output, intq_empty
<1> QED
  BY <1>1, <1>2 DEF Output

\* The input is not touched.
LEMMA InputKept ==
  ASSUME Input, UNCHANGED <<got, arrived>>,
         q'["input"].buf = q["input"].buf, q'["input"].head = q["input"].head,
         q'["input"].tail = q["input"].tail
  PROVE  Input'
<1>1. Contents(q'["input"]) = Contents(q["input"])
  BY ContentsSame
<1> QED
  BY <1>1 DEF Input

\* Nothing is sent, and the console keeps its owner.
LEMMA StringsKept ==
  ASSUME WholeStrings, UNCHANGED <<sent, console_lock, printed>>,
         down' = down \/ down \notin {"message", "off"} \/ down' \in {"message", "off"}
  PROVE  WholeStrings'
BY DEF WholeStrings

\* A thread that waits, or is woken, or lets the queue's lock go.
LEMMA WaitsKept ==
  ASSUME Types, Waits, UNCHANGED console_lock,
         q'["input"].not_full = NULL, q'["txq"].not_empty = NULL,
         q'["input"].not_empty \in Reader \cup {NULL},
         q'["txq"].not_full \in Writer \cup {NULL},
         q'["txq"].not_full \in Writer => pc'[q'["txq"].not_full] = "blocked",
         \A t \in Writer : pc'[t] # "idle" => pc[t] # "idle"
  PROVE  Waits'
BY DEF Waits

\* A byte joins the output: the port's or the queue's part grows.
LEMMA OutputGrows ==
  ASSUME Types, Output, NEW b \in OutByte, sent' = Append(sent, b), UNCHANGED line,
         \/ /\ UNCHANGED thr /\ Contents(q'["txq"]) = Append(Contents(q["txq"]), b)
            /\ mode' = "QUEUE"
         \/ /\ thr = NULL /\ thr' = b /\ intq_empty(q["txq"]) /\ UNCHANGED <<q, mode>>
  PROVE  Output'
<1> DEFINE port == IF thr = NULL THEN <<>> ELSE <<thr>>
<1>1. /\ q["txq"] \in QueueType(AnyByte) /\ thr \in OutByte \cup {NULL}
      /\ line \in Seq(OutByte) /\ sent \in Seq(OutByte)
  BY DEF Types, AnyByte
<1>2. Contents(q["txq"]) \in Seq(AnyByte \cup {NULL})
  BY <1>1, ContentsAre
<1>3. port \in Seq(AnyByte \cup {NULL}) /\ line \in Seq(AnyByte \cup {NULL}) /\ b \in AnyByte
  <2>1. CASE thr = NULL
    BY SMT, <1>1, <2>1 DEF AnyByte
  <2>2. CASE thr # NULL
    BY SMT, <1>1, <2>2 DEF AnyByte
  <2> QED
    BY <2>1, <2>2
<1>4. line \o port \in Seq(AnyByte \cup {NULL})
  BY <1>3, ConcatProperties
<1>5. (line \o port) \o Contents(q["txq"]) = sent
  BY DEF Output
<1> HIDE DEF port
<1>6. CASE UNCHANGED thr /\ Contents(q'["txq"]) = Append(Contents(q["txq"]), b) /\ mode' = "QUEUE"
  <2>1. (line \o port) \o Append(Contents(q["txq"]), b) = Append(sent, b)
    BY SMTT(40), <1>2, <1>3, <1>4, <1>5, HandedOver
  <2> QED
    BY <1>6, <2>1 DEF Output, port
<1>7. CASE thr = NULL /\ thr' = b /\ intq_empty(q["txq"]) /\ UNCHANGED <<q, mode>>
  <2>1. Contents(q["txq"]) = <<>>
    <3>1. Count(q["txq"]) = 0
      BY SMT, <1>1, <1>7, TerminalAssumption DEF intq_empty, Count, Place, QueueType
    <3> QED
      BY SMT, <1>1, <1>2, <3>1, ContentsAre
  <2>2. line \o <<>> = line /\ (line \o <<>>) \o <<>> = line \o <<>>
    BY <1>1, ConcatEmptySeq
  <2>3. sent = line
    BY <1>5, <1>7, <2>1, <2>2 DEF port
  <2>4. line \o <<b>> = Append(line, b)
    BY <1>1, AppendIsConcat
  <2>5. (line \o <<b>>) \o <<>> = line \o <<b>>
    BY SMT, <1>1, <2>4, ConcatEmptySeq
  <2>6. thr' # NULL
    BY <1>3, <1>7, ByteFacts
  <2> QED
    BY <1>7, <2>1, <2>3, <2>4, <2>5, <2>6 DEF Output
<1> QED
  BY <1>6, <1>7

\* The oldest byte of the queue is moved to the port.
LEMMA OutputMoves ==
  ASSUME Types, Output, thr = NULL, ~intq_empty(q["txq"]), thr' = Front(q["txq"]),
         q'["txq"] = Taken(q["txq"]), UNCHANGED <<line, sent, mode>>
  PROVE  Output' /\ thr' \in OutByte
<1> DEFINE r == q["txq"]
           rest == Contents(Taken(r))
<1>1. r \in QueueType(AnyByte) /\ line \in Seq(OutByte) /\ sent \in Seq(OutByte)
  BY DEF Types, AnyByte
<1> HIDE DEF r
<1>2. /\ Taken(r) \in QueueType(AnyByte)
      /\ Contents(r) = <<Front(r)>> \o rest
      /\ Contents(r)[1] = Front(r) /\ Len(Contents(r)) > 0
  BY <1>1, TakenIs DEF r
<1>3. Contents(r) \in Seq(AnyByte \cup {NULL}) /\ rest \in Seq(AnyByte \cup {NULL})
  BY <1>1, <1>2, ContentsAre
<1>4. line \in Seq(AnyByte \cup {NULL})
  BY SMT, <1>1 DEF AnyByte
<1>5. line \o Contents(r) = sent
  <2>1. line \o <<>> = line
    BY <1>1, ConcatEmptySeq
  <2> QED
    BY <2>1 DEF Output, r
<1>6. Front(r) \in OutByte
  <2>1. /\ Len(line) \in Nat /\ Len(Contents(r)) \in Nat
        /\ Len(sent) = Len(line) + Len(Contents(r))
        /\ \A i \in 1 .. Len(line) + Len(Contents(r)) :
             sent[i] = IF i <= Len(line) THEN line[i] ELSE Contents(r)[i - Len(line)]
    BY SMT, <1>3, <1>4, <1>5, ConcatProperties
  <2>2. Len(line) + 1 \in 1 .. Len(sent) /\ (Len(line) + 1) - Len(line) = 1
    BY SMT, <1>2, <2>1
  <2>3. sent[Len(line) + 1] = Contents(r)[1]
    BY SMT, <2>1, <2>2
  <2> QED
    BY <1>1, <1>2, <2>2, <2>3, ElementOfSeq
<1>7. thr' # NULL
  BY <1>6, ByteFacts DEF r, AnyByte
<1> HIDE DEF rest
<1>8. (line \o <<Front(r)>>) \o rest = sent
  <2>1. <<Front(r)>> \in Seq(AnyByte \cup {NULL})
    BY SMT, <1>6 DEF AnyByte
  <2>2. (line \o <<Front(r)>>) \o rest = line \o (<<Front(r)>> \o rest)
    BY SMT, <1>3, <1>4, <2>1, ConcatAssociative
  <2> QED
    BY <1>2, <1>5, <2>2
<1>9. mode' # "POLL"
  BY DEF Output
<1> QED
  BY <1>6, <1>7, <1>8, <1>9 DEF Output, r, rest

\* A byte leaves the port.
LEMMA OutputLeaves ==
  ASSUME Types, Output, thr # NULL, thr' = NULL, line' = Append(line, thr),
         UNCHANGED <<q, sent, mode>>
  PROVE  Output'
<1>1. line \in Seq(OutByte) /\ thr \in OutByte
  BY DEF Types
<1>2. line \o <<thr>> = Append(line, thr) /\ Append(line, thr) \in Seq(OutByte)
  BY SMT, <1>1, AppendIsConcat
<1>3. Append(line, thr) \o <<>> = Append(line, thr)
  BY <1>2, ConcatEmptySeq
<1>4. (line \o <<thr>>) \o Contents(q["txq"]) = sent
  BY DEF Output
<1>5. (line' \o <<>>) \o Contents(q'["txq"]) = sent'
  BY <1>2, <1>3, <1>4
<1>6. mode' = "POLL" => intq_empty(q'["txq"])
  BY DEF Output
<1> QED
  BY <1>5, <1>6 DEF Output

\* A byte arrives.
LEMMA InputGrows ==
  ASSUME Types, Input, NEW b \in InByte, ~intq_full(q["input"]),
         arrived' = Append(arrived, b), q'["input"] = Added(q["input"], b), UNCHANGED got
  PROVE  Input' /\ q'["input"] \in QueueType(AnyByte)
<1>1. /\ q["input"] \in QueueType(AnyByte) /\ b \in AnyByte /\ got \in Seq(InByte)
      /\ got \in Seq(AnyByte \cup {NULL})
  BY SMT DEF Types, AnyByte
<1>2. /\ q'["input"] \in QueueType(AnyByte)
      /\ Contents(q'["input"]) = Append(Contents(q["input"]), b)
  BY <1>1, AddedIs
<1>3. Contents(q["input"]) \in Seq(AnyByte \cup {NULL})
  BY <1>1, ContentsAre
<1>4. got \o Append(Contents(q["input"]), b) = Append(got \o Contents(q["input"]), b)
  BY SMT, <1>1, <1>3, HandedOver
<1> QED
  BY <1>2, <1>4 DEF Input

\* A queue whose lock may have been given back.
Released(r, r1) == /\ r1.buf = r.buf /\ r1.head = r.head /\ r1.tail = r.tail
                   /\ r1.not_full = r.not_full /\ r1.not_empty = r.not_empty

\* Giving the lock back leaves the bytes and the waiters alone.
LEMMA ReleaseIs ==
  ASSUME NEW r \in QueueType(AnyByte), NEW t \in Thread
  PROVE  lock_release(r, t) \in QueueType(AnyByte) /\ Released(r, lock_release(r, t))
BY DEF lock_release, Released, QueueType

\* What the lock has to do with the bytes: nothing.
LEMMA ReleasedSame ==
  ASSUME NEW r, NEW r1, Released(r, r1)
  PROVE  /\ Front(r1) = Front(r) /\ Contents(r1) = Contents(r)
         /\ intq_empty(r1) = intq_empty(r) /\ intq_full(r1) = intq_full(r)
BY DEF Released, Front, Contents, intq_empty, intq_full

\* A reader takes the oldest byte.
LEMMA InputRead ==
  ASSUME Types, Input, ~intq_empty(q["input"]), got' = Append(got, Front(q["input"])),
         NEW r0 \in QueueType(AnyByte), Released(q["input"], r0),
         q'["input"] = Taken(r0), UNCHANGED arrived
  PROVE  Input' /\ q'["input"] \in QueueType(AnyByte) /\ Front(q["input"]) \in InByte
<1> DEFINE r == r0
           rest == Contents(Taken(r))
<1>0. /\ Front(r) = Front(q["input"]) /\ Contents(r) = Contents(q["input"])
      /\ ~intq_empty(r)
  BY ReleasedSame
<1>1. /\ r \in QueueType(AnyByte) /\ got \in Seq(InByte) /\ arrived \in Seq(InByte)
      /\ got \in Seq(AnyByte \cup {NULL})
  BY SMT DEF Types, AnyByte
<1> HIDE DEF r
<1>2. /\ Taken(r) \in QueueType(AnyByte)
      /\ Contents(r) = <<Front(r)>> \o rest
      /\ Contents(r)[1] = Front(r) /\ Len(Contents(r)) > 0
  BY <1>0, <1>1, TakenIs
<1>3. Contents(r) \in Seq(AnyByte \cup {NULL}) /\ rest \in Seq(AnyByte \cup {NULL})
  BY <1>1, <1>2, ContentsAre
<1>4. got \o Contents(r) = arrived
  BY <1>0 DEF Input
<1>5. Front(r) \in InByte
  <2>1. /\ Len(got) \in Nat /\ Len(Contents(r)) \in Nat
        /\ Len(arrived) = Len(got) + Len(Contents(r))
        /\ \A i \in 1 .. Len(got) + Len(Contents(r)) :
             arrived[i] = IF i <= Len(got) THEN got[i] ELSE Contents(r)[i - Len(got)]
    BY SMT, <1>1, <1>3, <1>4, ConcatProperties
  <2>2. Len(got) + 1 \in 1 .. Len(arrived) /\ (Len(got) + 1) - Len(got) = 1
    BY SMT, <1>2, <2>1
  <2>3. arrived[Len(got) + 1] = Contents(r)[1]
    BY SMT, <2>1, <2>2
  <2> QED
    BY <1>1, <1>2, <2>2, <2>3, ElementOfSeq
<1> HIDE DEF rest
<1>6. Append(got, Front(r)) \o rest = got \o (<<Front(r)>> \o rest)
  BY SMT, <1>1, <1>3, <1>5, PassedOn DEF AnyByte
<1> QED
  BY <1>0, <1>2, <1>4, <1>5, <1>6 DEF Input, r, rest

\* The owner of the console sends the next byte of its string.
LEMMA StringsGrow ==
  ASSUME Types, Waits, WholeStrings, NEW t \in Writer, Runs(t),
         printed[t] < MaxString, sent' = Append(sent, Byte(t)),
         printed' = [printed EXCEPT ![t] = @ + 1], UNCHANGED <<console_lock, down>>
  PROVE  WholeStrings' /\ Byte(t) \in OutByte
<1>1. /\ console_lock = t /\ printed \in [Writer -> 0 .. MaxString] /\ MaxString \in Nat
      /\ sent \in Seq(OutByte) /\ Len(sent) \in Nat /\ down \in {"no", "flushed"}
  BY SMT, TerminalAssumption DEF Types, Waits, Runs, Up
<1>2. /\ Byte(t) = <<t, printed[t] + 1>> /\ Byte(t) \in OutByte /\ Byte(t) # Message
      /\ Byte(t)[1] = t /\ Byte(t)[2] = printed[t] + 1
  BY SMT, <1>1, ByteFacts DEF Byte, OutByte
<1>3. /\ Len(sent') = Len(sent) + 1 /\ sent'[Len(sent')] = Byte(t)
      /\ \A i \in 1 .. Len(sent) : sent'[i] = sent[i]
  BY SMT, <1>1, <1>2
<1>4. ASSUME NEW i \in 1 .. Len(sent') - 1 PROVE Follows(sent'[i], sent'[i + 1])
  <2>1. i \in 1 .. Len(sent)
    BY SMT, <1>1, <1>3
  <2>2. CASE i < Len(sent)
    <3>1. i \in 1 .. Len(sent) - 1 /\ i + 1 \in 1 .. Len(sent)
      BY SMT, <1>1, <2>1, <2>2
    <3> QED
      BY <1>3, <2>1, <3>1 DEF WholeStrings
  <2>3. CASE i = Len(sent)
    <3>1. sent # <<>> /\ sent'[i] = sent[Len(sent)] /\ sent'[i + 1] = Byte(t)
      BY SMT, <1>1, <1>3, <2>1, <2>3
    <3>2. sent[Len(sent)] # Message
      BY <1>1, <3>1 DEF WholeStrings
    <3>3. sent[Len(sent)][2] < MaxString =>
            t = sent[Len(sent)][1] /\ printed[t] = sent[Len(sent)][2]
      BY <1>1, <3>1, <3>2 DEF WholeStrings
    <3> QED
      BY <1>2, <3>1, <3>2, <3>3 DEF Follows
  <2> QED
    BY SMT, <1>1, <2>1, <2>2, <2>3
<1>5. printed'[t] = printed[t] + 1
  BY <1>1
<1> QED
  BY <1>1, <1>2, <1>3, <1>4, <1>5 DEF WholeStrings

\* A panic's message cuts in, once.
LEMMA StringsEnd ==
  ASSUME Types, WholeStrings, down = "panic", sent' = Append(sent, Message),
         down' = "message", UNCHANGED <<console_lock, printed>>
  PROVE  WholeStrings'
<1>1. sent \in Seq(OutByte) /\ Len(sent) \in Nat /\ Message \in OutByte
  BY SMT DEF Types, OutByte
<1>2. /\ Len(sent') = Len(sent) + 1 /\ sent'[Len(sent')] = Message
      /\ \A i \in 1 .. Len(sent) : sent'[i] = sent[i]
  BY SMT, <1>1
<1>3. ASSUME NEW i \in 1 .. Len(sent') - 1 PROVE Follows(sent'[i], sent'[i + 1])
  <2>1. i \in 1 .. Len(sent)
    BY SMT, <1>1, <1>2
  <2>2. CASE i < Len(sent)
    <3>1. i \in 1 .. Len(sent) - 1 /\ i + 1 \in 1 .. Len(sent)
      BY SMT, <1>1, <2>1, <2>2
    <3> QED
      BY <1>2, <2>1, <3>1 DEF WholeStrings
  <2>3. CASE i = Len(sent)
    <3>1. sent # <<>> /\ sent'[i] = sent[Len(sent)] /\ sent'[i + 1] = Message
      BY SMT, <1>1, <1>2, <2>1, <2>3
    <3>2. sent[Len(sent)] # Message
      BY <3>1 DEF WholeStrings
    <3> QED
      BY <3>1, <3>2 DEF Follows
  <2> QED
    BY SMT, <1>1, <2>1, <2>2, <2>3
<1> QED
  BY <1>2, <1>3 DEF WholeStrings

-----------------------------------------------------------------------------
(* The steps *)

\* A thread becomes its queue's waiter, or finds that it need not wait.
LEMMA WaitStep ==
  ASSUME IInv, NEW t \in Thread, Up, wait(t),
         pc[t] \in {"ready", "locking", "woken"}
  PROVE  IInv'
<1>1. /\ Types /\ Waits /\ Output /\ Input /\ WholeStrings
      /\ q \in [{"input", "txq"} -> QueueType(AnyByte)]
      /\ pc \in [Thread -> {"idle", "ready", "locking", "blocked", "woken"}]
      /\ q["input"] \in QueueType(AnyByte) /\ q["txq"] \in QueueType(AnyByte)
      /\ Thread = Reader \cup Writer /\ Reader \cap Writer = {}
      /\ down \in {"no", "flushed"}
  BY ByteFacts DEF IInv, Types, AnyByte, Thread, Up
<1>2. UNCHANGED <<mode, ier, thr, rbr, console_lock, printed, sent, line, arrived, got>>
  BY DEF wait
<1>3. CASE ~MustWait(t)
  <2>1. UNCHANGED <<q, pc>> /\ down' = "panic"
    BY <1>3 DEF wait
  <2>2. Types' /\ Waits'
    BY <1>1, <1>2, <2>1 DEF Types, Waits
  <2>3. Output' /\ Input' /\ WholeStrings'
    BY <1>1, <1>2, <2>1, OutputKept, InputKept, StringsKept
  <2> QED
    BY <2>2, <2>3 DEF IInv
<1>4. CASE MustWait(t) /\ t \in Reader
  <2> DEFINE r == [q["input"] EXCEPT !.lock = t, !.not_empty = t]
  <2>1. /\ q' = [q EXCEPT !["input"] = r] /\ pc' = [pc EXCEPT ![t] = "blocked"]
        /\ UNCHANGED down
    BY <1>4 DEF wait, Queue
  <2>2. /\ r \in QueueType(AnyByte) /\ r.buf = q["input"].buf /\ r.head = q["input"].head
        /\ r.tail = q["input"].tail /\ r.not_empty = t /\ r.not_full = q["input"].not_full
    BY <1>1 DEF QueueType
  <2> HIDE DEF r
  <2>3. q'["input"] = r /\ q'["txq"] = q["txq"] /\ q' \in [{"input", "txq"} -> QueueType(AnyByte)]
    BY <1>1, <2>1, <2>2
  <2>4. Types'
    BY <1>1, <1>2, <2>1, <2>3 DEF Types, AnyByte
  <2>5. Waits'
    BY <1>1, <1>2, <1>4, <2>1, <2>2, <2>3, WaitsKept DEF Waits
  <2>6. Output' /\ Input' /\ WholeStrings'
    BY <1>1, <1>2, <2>1, <2>2, <2>3, OutputKept, InputKept, StringsKept
  <2> QED
    BY <2>4, <2>5, <2>6 DEF IInv
<1>5. CASE MustWait(t) /\ t \in Writer
  <2> DEFINE r == [q["txq"] EXCEPT !.lock = t, !.not_full = t]
  <2>1. /\ q' = [q EXCEPT !["txq"] = r] /\ pc' = [pc EXCEPT ![t] = "blocked"]
        /\ UNCHANGED down
    BY <1>1, <1>5 DEF wait, Queue
  <2>2. /\ r \in QueueType(AnyByte) /\ r.buf = q["txq"].buf /\ r.head = q["txq"].head
        /\ r.tail = q["txq"].tail /\ r.not_full = t /\ r.not_empty = q["txq"].not_empty
    BY <1>1 DEF QueueType
  <2> HIDE DEF r
  <2>3. q'["txq"] = r /\ q'["input"] = q["input"] /\ q' \in [{"input", "txq"} -> QueueType(AnyByte)]
    BY <1>1, <2>1, <2>2
  <2>4. Types'
    BY <1>1, <1>2, <2>1, <2>3 DEF Types, AnyByte
  <2>5. Waits'
    BY <1>1, <1>2, <1>5, <2>1, <2>2, <2>3, WaitsKept DEF Waits
  <2>6. Output' /\ Input' /\ WholeStrings'
    BY <1>1, <1>2, <2>1, <2>2, <2>3, OutputKept, InputKept, StringsKept
  <2> QED
    BY <2>4, <2>5, <2>6 DEF IInv
<1> QED
  BY <1>1, <1>3, <1>4, <1>5

\* Waking a reader, or the writer that waits for room.
LEMMA SignalIs ==
  ASSUME Types, Waits, NEW w \in Thread \cup {NULL}
  PROVE  /\ signal(w) \in [Thread -> {"idle", "ready", "locking", "blocked", "woken"}]
         /\ \A t \in Thread : signal(w)[t] = IF t = w THEN "woken" ELSE pc[t]
BY ByteFacts DEF signal, Types

\* Every step keeps IInv.
LEMMA StepOK ==
  ASSUME IInv, Next
  PROVE  IInv'
<1> DEFINE PCs == {"idle", "ready", "locking", "blocked", "woken"}
<1>1. /\ Types /\ Waits /\ Output /\ Input /\ WholeStrings
      /\ q \in [{"input", "txq"} -> QueueType(AnyByte)] /\ pc \in [Thread -> PCs]
      /\ q["input"] \in QueueType(AnyByte) /\ q["txq"] \in QueueType(AnyByte)
      /\ Thread = Reader \cup Writer /\ Reader \cap Writer = {} /\ NULL \notin Thread
      /\ sent \in Seq(OutByte) /\ line \in Seq(OutByte)
      /\ arrived \in Seq(InByte) /\ got \in Seq(InByte)
      /\ printed \in [Writer -> 0 .. MaxString] /\ MaxString \in Nat
  BY ByteFacts, TerminalAssumption DEF IInv, Types, AnyByte, Thread
<1>2. ASSUME NEW t \in Thread, intq_wait(t) PROVE IInv'
  <2>1. Up /\ pc[t] \in {"ready", "woken"}
    BY <1>2 DEF intq_wait, Runs
  <2>2. CASE q[Queue(t)].lock = NULL \/ pc[t] = "woken"
    BY <1>2, <2>1, <2>2, WaitStep DEF intq_wait
  <2>3. CASE ~ (q[Queue(t)].lock = NULL \/ pc[t] = "woken")
    <3>1. /\ pc[t] = "ready" /\ pc' = [pc EXCEPT ![t] = "locking"]
          /\ UNCHANGED <<q, mode, ier, thr, rbr, console_lock, printed, down,
                         sent, line, arrived, got>>
      BY <1>2, <2>1, <2>3 DEF intq_wait
    <3>2. Types'
      BY <1>1, <3>1 DEF Types
    <3>3. Waits'
      BY <1>1, <3>1, WaitsKept DEF Waits
    <3>4. Output' /\ Input' /\ WholeStrings'
      BY <1>1, <3>1, OutputKept, InputKept, StringsKept
    <3> QED
      BY <3>2, <3>3, <3>4 DEF IInv
  <2> QED
    BY <2>2, <2>3
<1>3. ASSUME NEW t \in Thread, lock_acquire(t) PROVE IInv'
  BY <1>3, WaitStep DEF lock_acquire
<1>4. ASSUME NEW k \in {"input", "txq"}, NEW t \in Thread
      PROVE  /\ lock_release(q[k], t) \in QueueType(AnyByte)
             /\ Released(q[k], lock_release(q[k], t))
  <2>1. q[k] \in QueueType(AnyByte)
    BY <1>1
  <2> QED
    BY <2>1, ReleaseIs
<1>5. ASSUME NEW t \in Reader, input_getc(t) PROVE IInv'
  <2>1. PICK r : r = lock_release(q["input"], t)
    OBVIOUS
  <2>2. /\ r \in QueueType(AnyByte) /\ Released(q["input"], r) /\ t \in Thread
        /\ pc[t] \in {"ready", "woken"}
    BY <1>1, <1>4, <1>5, <2>1 DEF input_getc, Runs
  <2>3. /\ ~intq_empty(q["input"]) /\ got' = Append(got, Front(q["input"]))
        /\ q' = [q EXCEPT !["input"] = Taken(r)]
        /\ pc' = [signal(q["input"].not_full) EXCEPT ![t] = "ready"]
        /\ UNCHANGED <<mode, thr, rbr, console_lock, printed, down, sent, line, arrived>>
    BY <1>5, <2>1 DEF input_getc, MustWait
  <2>4. /\ q'["input"] = Taken(r) /\ q'["txq"] = q["txq"] /\ pc' = [pc EXCEPT ![t] = "ready"]
    BY <1>1, <2>3 DEF Waits, signal
  <2>5. Input' /\ q'["input"] \in QueueType(AnyByte) /\ Front(q["input"]) \in InByte
    BY <1>1, <2>2, <2>3, <2>4, InputRead
  <2>6. q' \in [{"input", "txq"} -> QueueType(AnyByte)] /\ got' \in Seq(InByte)
    BY SMT, <1>1, <2>3, <2>4, <2>5
  <2>7. Types'
    BY <1>1, <2>3, <2>4, <2>6 DEF Types, AnyByte
  <2>8. q'["input"].not_full = NULL /\ q'["input"].not_empty = q["input"].not_empty
    BY <2>2, <2>4 DEF Taken, QueueType, Released
  <2>9. Waits'
    BY <1>1, <2>2, <2>3, <2>4, <2>8, WaitsKept DEF Waits
  <2>10. Output' /\ WholeStrings'
    BY <1>1, <2>3, <2>4, OutputKept, StringsKept
  <2> QED
    BY <2>5, <2>7, <2>9, <2>10 DEF IInv
<1>6. ASSUME keyboard_interrupt PROVE IInv'
  <2>1. /\ ~intq_full(q["input"]) /\ arrived' = Append(arrived, "key")
        /\ q' = [q EXCEPT !["input"] = Added(@, "key")]
        /\ pc' = signal(q["input"].not_empty)
        /\ UNCHANGED <<mode, thr, rbr, console_lock, printed, down, sent, line, got>>
    BY <1>6 DEF keyboard_interrupt, input_putc
  <2>2. q'["input"] = Added(q["input"], "key") /\ q'["txq"] = q["txq"] /\ "key" \in InByte
    BY <1>1, <2>1 DEF InByte
  <2>3. Input' /\ q'["input"] \in QueueType(AnyByte)
    BY <1>1, <2>1, <2>2, InputGrows
  <2>4. /\ q' \in [{"input", "txq"} -> QueueType(AnyByte)] /\ arrived' \in Seq(InByte)
        /\ pc' \in [Thread -> PCs]
        /\ \A t \in Writer : pc'[t] = pc[t]
    <3>1. q["input"].not_empty \in Reader \cup {NULL}
      BY <1>1 DEF Waits
    <3>2. q["input"].not_empty \in Thread \cup {NULL} /\ q["input"].not_empty \notin Writer
      BY <1>1, <3>1
    <3>3. /\ pc' \in [Thread -> PCs]
          /\ \A t \in Thread : pc'[t] = IF t = q["input"].not_empty THEN "woken" ELSE pc[t]
      BY ZenonT(40), <1>1, <2>1, <3>2, SignalIs
    <3>4. \A t \in Writer : pc'[t] = pc[t]
      BY <1>1, <3>2, <3>3
    <3> QED
      BY SMT, <1>1, <2>1, <2>2, <2>3, <3>3, <3>4
  <2>5. Types'
    BY <1>1, <2>1, <2>2, <2>4 DEF Types, AnyByte
  <2>6. q'["input"].not_full = q["input"].not_full /\ q'["input"].not_empty = NULL
    BY <1>1, <2>2 DEF Added, QueueType
  <2>7. Waits'
    BY <1>1, <2>1, <2>2, <2>4, <2>6, WaitsKept DEF Waits
  <2>8. Output' /\ WholeStrings'
    BY <1>1, <2>1, <2>2, OutputKept, StringsKept
  <2> QED
    BY <2>3, <2>5, <2>7, <2>8 DEF IInv
<1>7. ASSUME NEW t \in Writer, acquire_console(t) PROVE IInv'
  <2>1. /\ pc[t] = "idle" /\ console_lock = NULL /\ console_lock' = t
        /\ pc' = [pc EXCEPT ![t] = "ready"]
        /\ UNCHANGED <<q, mode, ier, thr, rbr, printed, down, sent, line, arrived, got>>
    BY <1>7 DEF acquire_console
  <2>2. Types'
    BY <1>1, <2>1 DEF Types
  <2>3. Waits'
    BY <1>1, <2>1 DEF Waits
  <2>4. Output' /\ Input'
    BY <1>1, <2>1, OutputKept, InputKept
  <2>5. WholeStrings'
    <3>1. ~ (sent # <<>> /\ sent[Len(sent)] # Message /\ sent[Len(sent)][2] < MaxString)
      <4> SUFFICES ASSUME sent # <<>>, sent[Len(sent)] # Message
                   PROVE  ~ (sent[Len(sent)][2] < MaxString)
        OBVIOUS
      <4>1. Len(sent) \in 1 .. Len(sent)
        BY SMT, <1>1, EmptySeq
      <4>2. sent[Len(sent)] \in Writer \X (1 .. MaxString)
        BY SMT, <1>1, <4>1, ElementOfSeq DEF OutByte
      <4>3. sent[Len(sent)][1] \in Writer
        BY <4>2
      <4> QED
        BY <1>1, <2>1, <4>3 DEF WholeStrings
    <3> QED
      BY <1>1, <2>1, <3>1 DEF WholeStrings
  <2> QED
    BY <2>2, <2>3, <2>4, <2>5 DEF IInv
<1>8. ASSUME NEW t \in Writer, serial_putc_poll(t) PROVE IInv'
  <2>1. /\ mode = "POLL" /\ thr = NULL /\ thr' = Byte(t) /\ UNCHANGED <<q, ier, pc>>
        /\ Runs(t) /\ printed[t] < MaxString
        /\ sent' = Append(sent, Byte(t)) /\ printed' = [printed EXCEPT ![t] = @ + 1]
        /\ UNCHANGED <<mode, rbr, console_lock, down, line, arrived, got>>
    BY <1>8 DEF serial_putc_poll, putchar_have_lock
  <2>2. WholeStrings' /\ Byte(t) \in OutByte
    BY <1>1, <2>1, StringsGrow
  <2>3. sent' \in Seq(OutByte) /\ printed' \in [Writer -> 0 .. MaxString]
    BY SMT, <1>1, <2>1, <2>2
  <2>4. Types'
    BY <1>1, <2>1, <2>2, <2>3 DEF Types
  <2>5. Waits'
    BY <1>1, <2>1 DEF Waits
  <2>6. intq_empty(q["txq"])
    BY <1>1, <2>1 DEF Output
  <2>7. Output'
    BY <1>1, <2>1, <2>2, <2>6, OutputGrows
  <2>8. Input'
    BY <1>1, <2>1, InputKept
  <2> QED
    BY <2>2, <2>4, <2>5, <2>7, <2>8 DEF IInv
<1>9. ASSUME NEW t \in Writer, serial_putc(t) PROVE IInv'
  <2>1. PICK r : r = lock_release(q["txq"], t)
    OBVIOUS
  <2>2. /\ r \in QueueType(AnyByte) /\ Released(q["txq"], r) /\ t \in Thread
    BY <1>1, <1>4, <2>1
  <2>3. /\ mode = "QUEUE" /\ ~intq_full(q["txq"])
        /\ q' = [q EXCEPT !["txq"] = Added(r, Byte(t))]
        /\ pc' = [signal(q["txq"].not_empty) EXCEPT ![t] = "ready"] /\ UNCHANGED thr
        /\ Runs(t) /\ printed[t] < MaxString
        /\ sent' = Append(sent, Byte(t)) /\ printed' = [printed EXCEPT ![t] = @ + 1]
        /\ UNCHANGED <<mode, rbr, console_lock, down, line, arrived, got>>
    BY <1>1, <1>9, <2>1 DEF serial_putc, putchar_have_lock, MustWait
  <2>4. /\ q'["txq"] = Added(r, Byte(t)) /\ q'["input"] = q["input"]
        /\ pc' = [pc EXCEPT ![t] = "ready"] /\ pc[t] \in {"ready", "woken"}
    BY <1>1, <2>3 DEF Waits, signal, Runs
  <2>5. WholeStrings' /\ Byte(t) \in OutByte
    BY <1>1, <2>3, StringsGrow
  <2>6. sent' \in Seq(OutByte) /\ printed' \in [Writer -> 0 .. MaxString]
    BY SMT, <1>1, <2>3, <2>5
  <2>7. /\ q'["txq"] \in QueueType(AnyByte)
        /\ Contents(q'["txq"]) = Append(Contents(q["txq"]), Byte(t))
    <3>1. ~intq_full(r) /\ Contents(r) = Contents(q["txq"])
      BY <2>2, <2>3, ReleasedSame
    <3> QED
      BY SMT, <2>2, <2>4, <2>5, <3>1, AddedIs DEF AnyByte
  <2>8. q' \in [{"input", "txq"} -> QueueType(AnyByte)]
    BY <1>1, <2>3, <2>4, <2>7
  <2>9. Types'
    BY <1>1, <2>2, <2>3, <2>4, <2>5, <2>6, <2>8 DEF Types, AnyByte
  <2>10. q'["txq"].not_full = q["txq"].not_full /\ q'["txq"].not_empty = NULL
    BY <2>2, <2>4 DEF Added, QueueType, Released
  <2>11. Waits'
    BY <1>1, <2>2, <2>3, <2>4, <2>10, WaitsKept DEF Waits
  <2>12. Output'
    BY <1>1, <2>3, <2>5, <2>7, OutputGrows
  <2>13. Input'
    BY <1>1, <2>3, <2>4, InputKept
  <2> QED
    BY <2>5, <2>9, <2>11, <2>12, <2>13 DEF IInv
<1>10. ASSUME NEW t \in Writer, release_console(t) PROVE IInv'
  <2>1. /\ pc[t] \in {"ready", "woken"} /\ printed[t] = MaxString /\ console_lock' = NULL
        /\ pc' = [pc EXCEPT ![t] = "idle"]
        /\ UNCHANGED <<q, mode, ier, thr, rbr, printed, down, sent, line, arrived, got>>
    BY <1>10 DEF release_console, Runs
  <2>2. Types'
    BY <1>1, <2>1 DEF Types
  <2>3. console_lock = t
    BY <1>1, <2>1 DEF Waits
  <2>4. Waits'
    BY <1>1, <2>1, <2>3 DEF Waits
  <2>5. Output' /\ Input'
    BY <1>1, <2>1, OutputKept, InputKept
  <2>6. WholeStrings'
    BY SMT, <1>1, <2>1, <2>3 DEF WholeStrings
  <2> QED
    BY <2>2, <2>4, <2>5, <2>6 DEF IInv
<1>11. ASSUME serial_init_queue PROVE IInv'
  <2>1. /\ mode' = "QUEUE"
        /\ UNCHANGED <<q, thr, rbr, console_lock, pc, printed, down, sent, line, arrived, got>>
    BY <1>11 DEF serial_init_queue
  <2>2. Types' /\ Waits'
    BY <1>1, <2>1 DEF Types, Waits
  <2>3. Output' /\ Input' /\ WholeStrings'
    BY <1>1, <2>1, OutputKept, InputKept, StringsKept
  <2> QED
    BY <2>2, <2>3 DEF IInv
<1>12. ASSUME serial_interrupt PROVE IInv'
  <2> DEFINE in == q["input"]
             out == q["txq"]
             rx == rbr # NULL /\ ~intq_full(in)
             tx == thr = NULL /\ ~intq_empty(out)
  <2>1. /\ mode = "QUEUE"
        /\ arrived' = IF rx THEN Append(arrived, rbr) ELSE arrived
        /\ q' = [input |-> IF rx THEN Added(in, rbr) ELSE in,
                 txq   |-> IF tx THEN Taken(out) ELSE out]
        /\ rbr' = IF rx THEN NULL ELSE rbr
        /\ thr' = IF tx THEN Front(out) ELSE thr
        /\ pc' = [t \in Thread |->
                    IF (rx /\ t = in.not_empty) \/ (tx /\ t = out.not_full)
                    THEN signal(t)[t] ELSE pc[t]]
        /\ UNCHANGED <<mode, console_lock, printed, down, sent, line, got>>
    BY <1>12 DEF serial_interrupt
  <2>2. /\ q'["input"] = IF rx THEN Added(in, rbr) ELSE in
        /\ q'["txq"] = IF tx THEN Taken(out) ELSE out
        /\ DOMAIN q' = {"input", "txq"}
    BY <2>1
  <2>3. /\ rbr \in {"serial", NULL} /\ rbr \in InByte \cup {NULL}
        /\ \A t \in Thread : signal(t)[t] = "woken"
    BY <1>1, SignalIs DEF Types, InByte
  <2>4. /\ Input' /\ q'["input"] \in QueueType(AnyByte) /\ arrived' \in Seq(InByte)
        /\ rbr' \in {"serial", NULL}
    <3>1. CASE rx
      <4>1. rbr \in InByte
        BY <2>3, <3>1
      <4>2. Input' /\ q'["input"] \in QueueType(AnyByte)
        BY <1>1, <2>1, <2>2, <3>1, <4>1, InputGrows
      <4> QED
        BY SMT, <1>1, <2>1, <3>1, <4>1, <4>2
    <3>2. CASE ~rx
      BY <1>1, <2>1, <2>2, <2>3, <3>2, InputKept
    <3> QED
      BY <3>1, <3>2
  <2>5. Output' /\ q'["txq"] \in QueueType(AnyByte) /\ thr' \in OutByte \cup {NULL}
    <3>1. CASE tx
      <4>1. Output' /\ thr' \in OutByte
        BY <1>1, <2>1, <2>2, <3>1, OutputMoves
      <4>2. Taken(out) \in QueueType(AnyByte)
        BY <1>1, <3>1, TakenIs
      <4>3. q'["txq"] = Taken(out)
        BY <2>2, <3>1
      <4> QED
        BY <4>1, <4>2, <4>3
    <3>2. CASE ~tx
      BY <1>1, <2>1, <2>2, <3>2, OutputKept DEF Types
    <3> QED
      BY <3>1, <3>2
  <2>6. /\ pc' \in [Thread -> PCs]
        /\ \A t \in Thread : pc'[t] = IF (rx /\ t = in.not_empty) \/ (tx /\ t = out.not_full)
                                      THEN "woken" ELSE pc[t]
    <3> HIDE DEF rx, tx, in, out
    <3> QED
      BY <1>1, <2>1, <2>3
  <2>7. q' \in [{"input", "txq"} -> QueueType(AnyByte)]
    <3>1. q' = [k \in {"input", "txq"} |-> q'[k]]
      BY <2>1
    <3> QED
      BY <2>4, <2>5, <3>1
  <2>8. Types'
    BY <1>1, <2>1, <2>4, <2>5, <2>6, <2>7 DEF Types, AnyByte
  <2>9. /\ q'["input"].not_full = in.not_full
        /\ q'["input"].not_empty = IF rx THEN NULL ELSE in.not_empty
        /\ q'["txq"].not_full = IF tx THEN NULL ELSE out.not_full
        /\ q'["txq"].not_empty = out.not_empty
    BY SMT, <1>1, <2>2 DEF Added, Taken, QueueType
  <2>10. Waits'
    <3>1. /\ in.not_full = NULL /\ out.not_empty = NULL
          /\ in.not_empty \in Reader \cup {NULL} /\ out.not_full \in Writer \cup {NULL}
          /\ out.not_full \in Writer => pc[out.not_full] = "blocked"
      BY <1>1 DEF Waits
    <3> HIDE DEF rx, tx, in, out
    <3>2. \A t \in Writer : pc'[t] # "idle" => pc[t] # "idle"
      BY SMT, <1>1, <2>6, <3>1
    <3>3. q'["txq"].not_full \in Writer => pc'[q'["txq"].not_full] = "blocked"
      BY SMTT(40), <1>1, <2>6, <2>9, <3>1
    <3> QED
      BY <1>1, <2>1, <2>9, <3>1, <3>2, <3>3, WaitsKept
  <2>11. WholeStrings'
    BY <1>1, <2>1, StringsKept
  <2> QED
    BY <2>4, <2>5, <2>8, <2>10, <2>11 DEF IInv
<1>13. ASSUME shutdown_power_off \/ serial_flushed \/ power_off PROVE IInv'
  <2>1. /\ down' \in {"flush", "flushed", "off"}
        /\ down \notin {"message", "off"} \/ down' = "off"
        /\ UNCHANGED <<q, mode, thr, rbr, console_lock, pc, printed, sent, line, arrived, got>>
    BY <1>13 DEF shutdown_power_off, serial_flushed, power_off
  <2>2. Types' /\ Waits'
    BY <1>1, <2>1 DEF Types, Waits
  <2>3. Output' /\ Input' /\ WholeStrings'
    BY <1>1, <2>1, OutputKept, InputKept, StringsKept
  <2> QED
    BY <2>2, <2>3 DEF IInv
<1>14. ASSUME poll PROVE IInv'
  <2>1. /\ thr = NULL /\ ~intq_empty(q["txq"]) /\ thr' = Front(q["txq"])
        /\ q' = [q EXCEPT !["txq"] = Taken(@)] /\ pc' = signal(q["txq"].not_full)
        /\ UNCHANGED <<mode, ier, rbr, console_lock, printed, down, sent, line, arrived, got>>
    BY <1>14 DEF poll
  <2>2. q'["txq"] = Taken(q["txq"]) /\ q'["input"] = q["input"]
    BY <1>1, <2>1
  <2>3. Output' /\ thr' \in OutByte
    BY <1>1, <2>1, <2>2, OutputMoves
  <2>4. q' \in [{"input", "txq"} -> QueueType(AnyByte)]
    <3>1. Taken(q["txq"]) \in QueueType(AnyByte)
      BY <1>1, <2>1, TakenIs
    <3> QED
      BY <1>1, <2>1, <3>1
  <2>5. /\ pc' \in [Thread -> PCs]
        /\ \A t \in Thread : pc'[t] = IF t = q["txq"].not_full THEN "woken" ELSE pc[t]
    BY SMT, <1>1, <2>1, SignalIs DEF Waits
  <2>6. Types'
    BY <1>1, <2>1, <2>3, <2>4, <2>5 DEF Types, AnyByte
  <2>7. q'["txq"].not_full = NULL /\ q'["txq"].not_empty = q["txq"].not_empty
    BY <1>1, <2>2 DEF Taken, QueueType
  <2>8. Waits'
    <3>1. NULL \notin Writer
      BY <1>1
    <3>2. \A t \in Writer : pc'[t] # "idle" => pc[t] # "idle"
      BY <1>1, <2>5 DEF Waits
    <3> QED
      BY <1>1, <2>1, <2>2, <2>7, <3>1, <3>2, WaitsKept DEF Waits
  <2>9. Input' /\ WholeStrings'
    BY <1>1, <2>1, <2>2, InputKept, StringsKept
  <2> QED
    BY <2>3, <2>6, <2>8, <2>9 DEF IInv
<1>15. ASSUME debug_panic PROVE IInv'
  <2>1. /\ down = "panic" /\ sent' = Append(sent, Message) /\ down' = "message"
        /\ UNCHANGED <<mode, rbr, console_lock, pc, printed, line, arrived, got>>
    BY <1>15 DEF debug_panic
  <2>2. Message \in OutByte /\ sent' \in Seq(OutByte)
    BY SMT, <1>1, <2>1 DEF OutByte
  <2>3. WholeStrings'
    BY <1>1, <2>1, StringsEnd
  <2>4. CASE mode = "QUEUE"
    <3>1. ~intq_full(q["txq"]) /\ q' = [q EXCEPT !["txq"] = Added(@, Message)] /\ UNCHANGED thr
      BY <1>15, <2>4 DEF debug_panic
    <3>2. q'["txq"] = Added(q["txq"], Message) /\ q'["input"] = q["input"]
      BY <1>1, <3>1
    <3>3. /\ q'["txq"] \in QueueType(AnyByte)
          /\ Contents(q'["txq"]) = Append(Contents(q["txq"]), Message)
      BY SMT, <1>1, <2>2, <3>1, <3>2, AddedIs DEF AnyByte
    <3>4. q' \in [{"input", "txq"} -> QueueType(AnyByte)]
      BY <1>1, <3>1, <3>2, <3>3
    <3>5. Types'
      BY <1>1, <2>1, <2>2, <3>1, <3>4 DEF Types, AnyByte
    <3>6. q'["txq"].not_full = q["txq"].not_full /\ q'["txq"].not_empty = NULL
      BY <1>1, <3>2 DEF Added, QueueType
    <3>7. Waits'
      BY <1>1, <2>1, <3>2, <3>6, WaitsKept DEF Waits
    <3>8. Output'
      BY <1>1, <2>1, <2>2, <2>4, <3>1, <3>3, OutputGrows
    <3>9. Input'
      BY <1>1, <2>1, <3>2, InputKept
    <3> QED
      BY <2>3, <3>5, <3>7, <3>8, <3>9 DEF IInv
  <2>5. CASE mode # "QUEUE"
    <3>1. thr = NULL /\ thr' = Message /\ UNCHANGED <<q, ier>> /\ mode = "POLL"
      BY <1>1, <1>15, <2>5 DEF debug_panic, Types
    <3>2. Types' /\ Waits'
      BY <1>1, <2>1, <2>2, <3>1 DEF Types, Waits
    <3>3. intq_empty(q["txq"])
      BY <1>1, <3>1 DEF Output
    <3>4. Output'
      BY <1>1, <2>1, <2>2, <3>1, <3>3, OutputGrows
    <3>5. Input'
      BY <1>1, <2>1, <3>1, InputKept
    <3> QED
      BY <2>3, <3>2, <3>4, <3>5 DEF IInv
  <2> QED
    BY <2>4, <2>5
<1>16. ASSUME transmit PROVE IInv'
  <2>1. /\ thr # NULL /\ line' = Append(line, thr) /\ thr' = NULL
        /\ UNCHANGED <<q, mode, ier, rbr, console_lock, pc, printed, down, sent, arrived, got>>
    BY <1>16 DEF transmit
  <2>2. line' \in Seq(OutByte)
    BY SMT, <1>1, <2>1 DEF Types
  <2>3. Types' /\ Waits'
    BY <1>1, <2>1, <2>2 DEF Types, Waits
  <2>4. Output' /\ Input' /\ WholeStrings'
    BY <1>1, <2>1, OutputLeaves, InputKept, StringsKept
  <2> QED
    BY <2>3, <2>4 DEF IInv
<1>17. ASSUME receive PROVE IInv'
  <2>1. /\ rbr' = "serial"
        /\ UNCHANGED <<q, mode, ier, thr, console_lock, pc, printed, down, sent, line,
                       arrived, got>>
    BY <1>17 DEF receive
  <2>2. Types' /\ Waits'
    BY <1>1, <2>1 DEF Types, Waits
  <2>3. Output' /\ Input' /\ WholeStrings'
    BY <1>1, <2>1, OutputKept, InputKept, StringsKept
  <2> QED
    BY <2>2, <2>3 DEF IInv
<1> QED
  BY <1>2, <1>3, <1>5, <1>6, <1>7, <1>8, <1>9, <1>10, <1>11, <1>12, <1>13, <1>14,
     <1>15, <1>16, <1>17
  DEF Next, Threads, Reading, Writing, Ending, Hardware

\* The state after initialization.
LEMMA InitOK == Init => IInv
<1> SUFFICES ASSUME Init PROVE IInv
  OBVIOUS
<1>1. /\ intq_init \in QueueType(AnyByte) /\ intq_init.head = 0 /\ intq_init.tail = 0
      /\ intq_init.not_full = NULL /\ intq_init.not_empty = NULL
  BY SMT, TerminalAssumption DEF intq_init, QueueType
<1>2. /\ q = [k \in {"input", "txq"} |-> intq_init] /\ mode = "POLL"
      /\ thr = NULL /\ rbr = NULL /\ console_lock = NULL /\ down = "no"
      /\ pc = [t \in Thread |-> IF t \in Reader THEN "ready" ELSE "idle"]
      /\ printed = [t \in Writer |-> 0]
      /\ sent = <<>> /\ line = <<>> /\ arrived = <<>> /\ got = <<>>
  BY DEF Init
<1> HIDE DEF intq_init
<1>3. Types
  BY SMT, <1>1, <1>2, TerminalAssumption DEF Types, AnyByte
<1>4. Waits
  BY <1>1, <1>2, ByteFacts DEF Waits, Thread
<1>5. Contents(intq_init) = <<>>
  <2>1. Count(intq_init) = 0
    BY SMT, <1>1, TerminalAssumption DEF Count, Place
  <2>2. /\ Contents(intq_init) \in Seq(AnyByte \cup {NULL})
        /\ Len(Contents(intq_init)) = Count(intq_init)
    BY <1>1, ContentsAre
  <2> QED
    BY <2>1, <2>2, EmptySeq
<1>6. Output /\ Input
  <2>1. (<<>> \o <<>>) \o <<>> = <<>> /\ <<>> \o <<>> = <<>>
    BY SMT
  <2> QED
    BY <1>1, <1>2, <1>5, <2>1 DEF Output, Input, intq_empty
<1>7. WholeStrings
  BY SMT, <1>2 DEF WholeStrings
<1> QED
  BY <1>3, <1>4, <1>6, <1>7 DEF IInv

(***************************************************************************)
(* The bytes handed to the serial port leave it in that order, none lost   *)
(* or doubled, and the readers get every key and serial byte in the order  *)
(* of arrival: intq.c's two positions and one unused place keep the        *)
(* contents whole for every INTQ_BUFSIZE, whoever moves the bytes, and the *)
(* console lock keeps each string in one piece for any number of writers.  *)
(***************************************************************************)
THEOREM BytesKeepOrder == Spec => []BytesInOrder
<1>1. IInv /\ [Next]_vars => IInv'
  <2> SUFFICES ASSUME IInv, [Next]_vars PROVE IInv'
    OBVIOUS
  <2>1. CASE UNCHANGED vars
    <3>1. /\ Types /\ Waits /\ Output /\ Input /\ WholeStrings
          /\ UNCHANGED <<q, mode, thr, rbr, console_lock, pc, printed, down, sent, line,
                         arrived, got>>
      BY <2>1 DEF vars, IInv
    <3>2. Types' /\ Waits'
      BY <3>1 DEF Types, Waits
    <3>3. Output' /\ Input' /\ WholeStrings'
      BY <3>1, OutputKept, InputKept, StringsKept
    <3> QED
      BY <3>2, <3>3 DEF IInv
  <2>2. CASE Next
    BY <2>2, StepOK
  <2> QED
    BY <2>1, <2>2
<1>2. IInv => BytesInOrder
  <2> SUFFICES ASSUME IInv PROVE BytesInOrder
    OBVIOUS
  <2>1. TypeOK
    <3>1. \A k \in DOMAIN q : q[k] \in QueueType(AnyByte)
      BY DEF IInv, Types, AnyByte
    <3>2. \A k \in DOMAIN q : /\ q[k].head \in 0 .. INTQ_BUFSIZE - 1
                              /\ q[k].tail \in 0 .. INTQ_BUFSIZE - 1
                              /\ q[k].lock \in Thread \cup {NULL}
      BY <3>1 DEF QueueType
    <3> QED
      BY <3>2 DEF IInv, Types, TypeOK
  <2>2. \A i \in 1 .. Len(sent) - 1 :
          /\ sent[i][2] < MaxString => sent[i + 1] \in {<<sent[i][1], sent[i][2] + 1>>, Message}
          /\ sent[i] # Message
    BY DEF IInv, WholeStrings, Follows
  <2> QED
    BY <2>1, <2>2 DEF IInv, Output, Input, BytesInOrder
<1> QED
  BY <1>1, <1>2, InitOK, PTL DEF Spec
=============================================================================
