------------------------------- MODULE Library -------------------------------
(***************************************************************************)
(* The library under the kernel: lists, hash tables, bitmaps, strings,     *)
(* numbers and how they are printed, the layout of a new process's memory, *)
(* the keys of the keyboard and the partitions of a disk.  They share no   *)
(* state, so one behaviour exercises one of them: a list, a hash table, a  *)
(* bitmap or the keyboard is worked on by any sequence of calls; a         *)
(* function without state is called once, with any of the arguments that   *)
(* the constants give it.                                                  *)
(***************************************************************************)
EXTENDS PointerList, HashTable, Bitmap, Strings, Arithmetic, LoadImage, Keyboard, Partitions,
        Printf, FiniteSetsExt

CONSTANTS
  Char, SPACE,          \* the characters of strings, as numbers; SPACE is one
  MaxString,            \* bound: length of a string
  MaxLine,              \* bound: length of a command line
  StackSize, POINTER,   \* size of the stack page and of a pointer
  KernelRoom,           \* pointers that a kernel stack has room for
  Number,               \* what arrays that are sorted hold
  MaxArray,             \* bound: length of an array
  Segments,             \* program headers of executables with two segments
  FileLength,
  Entries,              \* entries of partition tables
  Printed,              \* integers to print, none of them too long for sizeof_buf
  Field,                \* widths of fields, negative ones included
  Precision,            \* precisions, negative (none) ones included
  NotYet                \* a call that was not made yet, an idle part

VARIABLES unit, args, result

callVars == <<args, result>>
vars == <<unit, listVars, hashVars, bitmapVars, keyboardVars, callVars>>

-----------------------------------------------------------------------------
(* Arguments *)

Texts(n) == UNION {[1 .. len -> Char] : len \in 0 .. n}

\* A memory of n bytes; memory with string s at address a.
Bytes(n) == [i \in 0 .. n - 1 |-> 100 + i]
Holding(mem, a, s) ==
  [i \in DOMAIN mem |-> IF i \in a .. a + Len(s) - 1 THEN s[i - a + 1]
                        ELSE IF i = a + Len(s) THEN NUL ELSE mem[i]]

\* Two strings, the first in a buffer of MaxString + 1 bytes, a byte apart.
Other == MaxString + 2
TwoStrings(s, t) == Holding(Holding(Bytes(2 * Other - 1), 0, s), Other, t)

\* Command lines: short ones, some with as many words as there may be, or
\* more, or as many as a kernel stack stands, and one that is cut off in its
\* only word.  The copy's page comes first in memory, then the stack's, then
\* the line.
Letter == CHOOSE c \in Char : c # SPACE
Room == StackSize \div POINTER
Lines == Texts(MaxLine)
         \cup {[i \in 1 .. 2 * n |-> IF i % 2 = 0 THEN SPACE ELSE Letter] : n \in {KernelRoom - 1, KernelRoom, Room, Room + 1}}
         \cup {[i \in 1 .. StackSize + 2 |-> IF i < StackSize - 1 THEN SPACE ELSE Letter]}
StackBottom == StackSize
StackTop == StackBottom + StackSize

Arrays == UNION {[1 .. n -> Number] : n \in 0 .. MaxArray}

\* The integers of two words, unsigned and signed.
Half == (Base * Base) \div 2
Unsigned == 0 .. Base * Base - 1
TwoWords == -Half .. Half - 1

RECURSIVE Decimal(_)
Decimal(n) == IF n < 10 THEN <<n>> ELSE Append(Decimal(n \div 10), n % 10)
Magnitude(n) == IF n < 0 THEN -n ELSE n

\* Number n as it may be written.
Written(n, before, plus, zeros, after) ==
  before \o (IF n < 0 THEN <<DASH>> ELSE IF plus THEN <<CROSS>> ELSE <<>>)
    \o zeros \o Decimal(Magnitude(n)) \o after

\* What a conversion may be given, with its type.
Convertible(letter) ==
  CASE letter = "s" -> Texts(2) \X {"INT"}
    [] letter = "d" -> Printed \X {"CHAR", "SHORT", "INT"}
    [] letter = "p" -> {n \in Printed : n >= 0} \X {"INT"}
    [] OTHER -> {<<n, type>> \in Printed \X {"CHAR", "INT"} : type = "INT" => n >= 0}

Header(offset, vaddr, filesz, memsz) ==
  [type |-> "load", offset |-> offset, vaddr |-> vaddr, filesz |-> filesz, memsz |-> memsz,
   writable |-> TRUE]

CallInit ==
  /\ result = NotYet
  /\ \/ unit = "memmove" /\ args \in [dst : 0 .. MaxString, src : 0 .. MaxString]
     \/ unit = "strlcpy" /\ args \in [src : Texts(MaxString), size : 0 .. MaxString + 1]
     \/ unit = "strlcat" /\ args \in [dst : Texts(MaxString), src : Texts(MaxString),
                                      size : 0 .. MaxString + 1]
     \/ unit = "search" /\ args \in [text : Texts(MaxString), other : Texts(MaxString)]
     \/ unit = "execute" /\ args \in Lines
     \/ unit = "udiv64" /\ args \in Unsigned \ {0}
     \/ unit = "sdiv64" /\ args \in TwoWords \ {0}
     \/ unit = "atoi" /\ args \in [n : Int_min .. Int_max, before : {<<>>, <<BLANK, BLANK>>},
                                   plus : BOOLEAN, zeros : {<<>>, <<0>>},
                                   after : {<<>>, <<BLANK, 1>>, <<DASH>>}]
     \/ unit = "sort" /\ args \in Arrays
     \/ unit = "load" /\ args \in [offset : 0 .. FileLength + 1, vaddr : 0 .. AddressSpace - 1,
                                   filesz : 0 .. 2 * PGSIZE + 1]
     \/ unit = "partitions" /\ args \in [table : (Entries \X Entries) \cup {<<>>},
                                         disk : 1 .. SECTORS - 1]
     \/ unit = "printf" /\ args \in [flags : SUBSET {"-", "+", " ", "#", "0", "'"}, width : Field,
                                     precision : Precision,
                                     letter : {"d", "u", "o", "x", "p", "s"}]
     \/ unit = "load_two" /\ args \in [headers : Segments \X Segments, room : {2, 9}]

\* The parts of the library that a behaviour does not use.
ListIdle == heap = NotYet /\ key = NotYet /\ lists = NotYet
HashIdle == table = NotYet /\ hash = NotYet /\ contents = NotYet
BitmapIdle == bit_cnt = NotYet /\ bits = NotYet /\ members = NotYet
KeyboardIdle == /\ state_var = NotYet /\ caps_lock = NotYet
                /\ input = NotYet /\ held = NotYet /\ last = NotYet
CallIdle == args = NotYet /\ result = NotYet

Init ==
  \/ unit = "list" /\ ListInit /\ HashIdle /\ BitmapIdle /\ KeyboardIdle /\ CallIdle
  \/ unit = "hash" /\ HashInit /\ ListIdle /\ BitmapIdle /\ KeyboardIdle /\ CallIdle
  \/ unit = "bitmap" /\ BitmapInit /\ ListIdle /\ HashIdle /\ KeyboardIdle /\ CallIdle
  \/ unit = "keyboard" /\ KeyboardInit /\ ListIdle /\ HashIdle /\ BitmapIdle /\ CallIdle
  \/ CallInit /\ ListIdle /\ HashIdle /\ BitmapIdle /\ KeyboardIdle

-----------------------------------------------------------------------------
(* Calls *)

\* Copies of every size that fits.
CallMove ==
  /\ unit = "memmove"
  /\ result' = [size \in 0 .. MaxString + 1 - Max({args.dst, args.src}) |->
                  memmove(Bytes(MaxString + 1), args.dst, args.src, size)]

CallCopy ==
  /\ unit = "strlcpy"
  /\ result' = strlcpy(TwoStrings(<<>>, args.src), 0, Other, args.size)

CallCat ==
  /\ unit = "strlcat"
  /\ result' = strlcat(TwoStrings(args.dst, args.src), 0, Other, args.size)

CallSearch ==
  /\ unit = "search"
  /\ LET mem == TwoStrings(args.text, args.other)
         stop == ToSet(args.other)
     IN result' = [strchr |-> [c \in Char \cup {NUL} |-> strchr(mem, 0, c)],
                   strrchr |-> [c \in Char \cup {NUL} |-> strrchr(mem, 0, c, Nowhere)],
                   strspn |-> strspn(mem, 0, stop),
                   strcspn |-> strcspn(mem, 0, stop),
                   memchr |-> [c \in Char |-> memchr(mem, 0, c, Len(args.text))],
                   strpbrk |-> strpbrk(mem, 0, stop),
                   strstr |-> strstr(mem, 0, Other),
                   strcmp |-> strcmp(mem, 0, Other),
                   strnlen |-> [n \in 0 .. MaxString |-> strnlen(mem, 0, n)]]

\* process_execute () takes a copy of the line apart, as much of it as a page
\* holds; argv[argc] = NULL is behind argv's page when all of that is used.
\* The thread's name is the first word, which thread_create () insists on;
\* setup_stack () runs in the child, whose kernel stack its array may overrun
\* and where a fault below the stack page ends in process_exit (-1).
CallExecute ==
  /\ unit = "execute"
  /\ LET mem == Holding(Bytes(StackTop + Len(args) + 1), StackTop, args)
         parsed == ParseTokens(strlcpy(mem, 0, StackTop, StackSize)[1], 0, <<>>, {SPACE}, Room)
         stack == setup_stack(parsed[2], parsed[1], StackTop, POINTER)
         outcome == CASE parsed[1] = Nowhere -> "TID_ERROR"
                      [] parsed[1] = <<>> -> "PANIC"
                      [] Len(parsed[1]) = Room \/ Overruns(parsed[1], KernelRoom) -> "overrun"
                      [] stack[2] < StackBottom -> "page fault"
                      [] OTHER -> "started"
     IN result' = [outcome |-> outcome, memory |-> IF outcome = "started" THEN stack[1] ELSE NotYet,
                   esp |-> IF outcome = "started" THEN stack[2] ELSE NotYet]

CallUnsigned ==
  /\ unit = "udiv64"
  /\ result' = [n \in Unsigned |-> <<udiv64(n, args), umod64(n, args)>>]

CallSigned ==
  /\ unit = "sdiv64"
  /\ result' = [n \in TwoWords |-> <<sdiv64(n, args), smod64(n, args)>>]

CallAtoi ==
  /\ unit = "atoi"
  /\ result' = atoi(Written(args.n, args.before, args.plus, args.zeros, args.after))

CallSort ==
  /\ unit = "sort"
  /\ LET sorted == sort(args)
     IN result' = [sorted |-> sorted, found |-> [n \in Number |-> binary_search(sorted, n)]]

CallLoad ==
  /\ unit = "load"
  /\ result' = [memsz \in 0 .. AddressSpace - 1 |->
                  load(<<Header(args.offset, args.vaddr, args.filesz, memsz)>>, 9, FileLength)]

CallLoadTwo ==
  /\ unit = "load_two"
  /\ result' = load(args.headers, args.room, FileLength)

CallScan ==
  /\ unit = "partitions"
  /\ result' = partition_scan(args.table, args.disk)

\* The output, and what snprintf () makes of it in buffers of some sizes.
BufferSizes == {0, 1, 4}
CallPrintf ==
  /\ unit = "printf"
  /\ LET c == parse_conversion(args.flags, args.width, args.precision)
     IN result' = [v \in Convertible(args.letter) |->
                     LET out == vprintf(args.letter, v[1], v[2], c)
                     IN [out |-> out,
                         bare |-> vprintf(args.letter, v[1], v[2], [c EXCEPT !.width = 0]),
                         snprintf |-> [n \in BufferSizes |-> vsnprintf(out, n)]]]

Call ==
  /\ result = NotYet
  /\ \/ CallMove \/ CallCopy \/ CallCat \/ CallSearch \/ CallExecute \/ CallUnsigned
     \/ CallSigned \/ CallAtoi \/ CallSort \/ CallLoad \/ CallLoadTwo \/ CallScan
     \/ CallPrintf
  /\ UNCHANGED <<unit, args, listVars, hashVars, bitmapVars, keyboardVars>>

Next ==
  \/ Call
  \/ /\ unit = "list" /\ ListNext
     /\ UNCHANGED <<unit, hashVars, bitmapVars, keyboardVars, callVars>>
  \/ /\ unit = "hash" /\ HashNext
     /\ UNCHANGED <<unit, listVars, bitmapVars, keyboardVars, callVars>>
  \/ /\ unit = "bitmap" /\ BitmapNext
     /\ UNCHANGED <<unit, listVars, hashVars, keyboardVars, callVars>>
  \/ /\ unit = "keyboard" /\ KeyboardNext
     /\ UNCHANGED <<unit, listVars, hashVars, bitmapVars, callVars>>

Spec == Init /\ [][Next]_vars

-----------------------------------------------------------------------------
(* Properties *)

Done(u) == unit = u /\ result # NotYet

(***************************************************************************)
(* ListsAsSequences while lists are worked on: whatever the sequence of    *)
(* list.c's operations on two lists, the pointers form the sequences they  *)
(* should, forwards and backwards, and the sort is stable.                 *)
(***************************************************************************)
ListsStaySequences == unit = "list" => ListsAsSequences

(***************************************************************************)
(* TableIsSet while a hash table is worked on: whatever the sequence of    *)
(* hash.c's operations, and wherever rehash () finds no memory, the table  *)
(* finds and iterates over exactly the elements it should hold.            *)
(***************************************************************************)
TablesStaySets == unit = "hash" => TableIsSet

(***************************************************************************)
(* BitmapIsSet while a bitmap is worked on: whatever the calls of bitmap.c *)
(* and the file that bitmap_read () read, the words stand for the set of   *)
(* bits that should be on, and scans and counts are those of the set.      *)
(***************************************************************************)
BitmapsStaySets == unit = "bitmap" => BitmapIsSet

(***************************************************************************)
(* KeysAsHeld while the keyboard is worked: whatever keys keyboard_        *)
(* interrupt () has seen, a key gives the character that the shift keys    *)
(* held with it call for.                                                  *)
(***************************************************************************)
KeysGiveCharacters == unit = "keyboard" => KeysAsHeld

(***************************************************************************)
(* memmove () copies what was there before it started, however source and  *)
(* destination overlap, and touches nothing else.  It returns DST when it  *)
(* copies from the end; nothing is said of the pointer otherwise, which    *)
(* string.c 21-22 would have be DST too.                                   *)
(***************************************************************************)
MovesWhatWasThere ==
  Done("memmove") =>
    \A size \in DOMAIN result :
      /\ \A i \in 0 .. MaxString :
           result[size][1][i] = IF i \in args.dst .. args.dst + size - 1
                                THEN Bytes(MaxString + 1)[i - args.dst + args.src]
                                ELSE Bytes(MaxString + 1)[i]
      /\ args.dst >= args.src => result[size][2] = args.dst

Fitting(before, s, size) ==
  LET whole == before \o s
  IN IF Len(before) >= size THEN before
     ELSE SubSeq(whole, 1, IF Len(whole) < size THEN Len(whole) ELSE size - 1)

(***************************************************************************)
(* strlcpy () and strlcat () leave in the buffer as much of the string as  *)
(* fits with its terminator, write nowhere else (not at all if the buffer  *)
(* has no size), and return the length they wanted.  What strlcat ()       *)
(* leaves in a buffer that its first string overfills is left open:        *)
(* string.c 345-347 promises a terminator that line 365 does not write.    *)
(***************************************************************************)
StringsFit ==
  /\ Done("strlcpy") =>
       /\ result[2] = Len(args.src)
       /\ LET start == TwoStrings(<<>>, args.src)
          IN result[1] = IF args.size = 0 THEN start
                         ELSE Holding(start, 0, Fitting(<<>>, args.src, args.size))
  /\ Done("strlcat") =>
       /\ result[2] = Len(args.dst) + Len(args.src)
       /\ LET start == TwoStrings(args.dst, args.src)
              wanted == IF args.size = 0 THEN start
                        ELSE Holding(start, 0, Fitting(args.dst, args.src, args.size))
              open == IF Len(args.dst) < args.size THEN {} ELSE 0 .. args.size - 1
          IN \A i \in DOMAIN start \ open : result[1][i] = wanted[i]

(***************************************************************************)
(* The searches of string.c agree with one another and with what they      *)
(* search: strchr (), memchr () and strpbrk () find the first match,       *)
(* strchr () the terminator too, and strrchr () the last match of any      *)
(* character but the terminator, strstr () the first place where the other *)
(* string starts, strspn () and strcspn () stop where they must, and       *)
(* strcmp () is zero on equal strings only, and the sign of the first      *)
(* difference otherwise.                                                   *)
(***************************************************************************)
SearchesFind ==
  Done("search") =>
    LET s == args.text
        t == args.other
        StartsAt(i) == i + Len(t) <= Len(s) /\ SubSeq(s, i + 1, i + Len(t)) = t
        Least(A) == IF A = {} THEN Nowhere ELSE Min(A)
        Run(n, P(_)) == /\ \A i \in 1 .. n : P(s[i])
                        /\ n < Len(s) => ~P(s[n + 1])
        Differ == {i \in 1 .. Min({Len(s), Len(t)}) : s[i] # t[i]}
    IN /\ \A c \in Char :
            LET matches == {i - 1 : i \in {j \in DOMAIN s : s[j] = c}}
            IN /\ result.strchr[c] = Least(matches) /\ result.memchr[c] = Least(matches)
               /\ result.strrchr[c] = IF matches = {} THEN Nowhere ELSE Max(matches)
       /\ result.strchr[NUL] = Len(s)
       /\ result.strstr = Least({i \in 0 .. Len(s) : StartsAt(i)})
       /\ result.strpbrk = Least({i - 1 : i \in {j \in DOMAIN s : s[j] \in ToSet(t)}})
       /\ Run(result.strspn, LAMBDA c : c \in ToSet(t))
       /\ Run(result.strcspn, LAMBDA c : c \notin ToSet(t))
       /\ result.strcmp = IF s = t THEN 0
                          ELSE IF Differ = {} THEN (IF Len(s) < Len(t) THEN -1 ELSE 1)
                          ELSE IF s[Min(Differ)] < t[Min(Differ)] THEN -1 ELSE 1
       /\ \A n \in 0 .. MaxString : result.strnlen[n] = Min({n, Len(s)})

Words(s) ==
  LET starts == {i \in DOMAIN s : s[i] # SPACE /\ (i = 1 \/ s[i - 1] = SPACE)}
      end(i) == Min({j \in i .. Len(s) : j = Len(s) \/ s[j + 1] = SPACE})
      nth(n) == CHOOSE i \in starts : Cardinality({j \in starts : j <= i}) = n
  IN [n \in 1 .. Cardinality(starts) |-> SubSeq(s, nth(n), end(nth(n)))]

StackNeeded(words) ==
  LET bytes == FoldLeft(LAMBDA n, w : n + Len(w) + 1, 0, words)
  IN ((bytes + POINTER - 1) \div POINTER) * POINTER + (Len(words) + 4) * POINTER

(***************************************************************************)
(* A program gets the words of its command line, of which a page is read:  *)
(* argc counts them, each of argv's pointers leads to its word on the      *)
(* stack, argv ends with a null pointer, and the stack pointer is aligned  *)
(* and inside the stack's page.  The new process dies of a page fault only *)
(* when the words need more than the page, and exec fails when argv's page *)
(* has no room for them (process_execute (), strtok_r (), setup_stack ()). *)
(* That is so of lines of at least one word and of no more words than the  *)
(* kernel stack has room for; a blank line, and the lengths between the    *)
(* kernel stack's limit and argv's, end in a panic or an overrun, and      *)
(* nothing is claimed of them.                                             *)
(***************************************************************************)
ArgumentsArrive ==
  Done("execute") =>
    LET words == Words(SubSeq(args, 1, Min({Len(args), StackSize - 1})))
        mem == result.memory
        esp == result.esp
        argv == esp + 3 * POINTER
    IN /\ Len(words) > Room => result.outcome = "TID_ERROR"
       /\ Len(words) \in 1 .. KernelRoom - 1 =>
            result.outcome = IF StackNeeded(words) > StackSize THEN "page fault" ELSE "started"
       /\ result.outcome = "started" =>
            /\ esp % POINTER = 0 /\ StackNeeded(words) <= StackSize
            /\ mem[esp] = Nowhere
            /\ mem[esp + POINTER] = Len(words)
            /\ mem[esp + 2 * POINTER] = argv
            /\ \A i \in DOMAIN words : /\ mem[argv + (i - 1) * POINTER] \in esp .. StackTop - 1
                                      /\ StringAt(mem, mem[argv + (i - 1) * POINTER]) = words[i]
            /\ mem[argv + Len(words) * POINTER] = Nowhere

(***************************************************************************)
(* 64-bit division made of 32-bit divisions is exact, and its DIVL never   *)
(* traps: udiv64 () and sdiv64 () return the quotient, truncated towards   *)
(* zero, unless it is the one that no int64_t holds, and umod64 () and     *)
(* smod64 () the remainder if it fits one word, which is what their result *)
(* type has (their comments promise it of every remainder).                *)
(***************************************************************************)
DivisionExact ==
  /\ Done("udiv64") =>
       \A n \in Unsigned :
         /\ result[n][1] = n \div args
         /\ n % args \in Word => result[n][2] = n % args
  /\ Done("sdiv64") =>
       \A n \in TwoWords :
         LET q == Quotient(n, args)
             r == n - q * args
         IN /\ q \in TwoWords => result[n][1] = q
            /\ r \in -(Base \div 2) .. Base \div 2 - 1 => result[n][2] = r

(***************************************************************************)
(* atoi () reads every number that an int can hold, the most negative one  *)
(* included, whatever blanks, plus sign or zeros come before its digits    *)
(* and whatever follows them, and no step of it overflows.                 *)
(***************************************************************************)
NumbersRead == Done("atoi") => result = args.n

(***************************************************************************)
(* sort () (heap sort) leaves a sorted permutation of its array, in which  *)
(* binary_search () finds a number exactly if it is there.                 *)
(***************************************************************************)
SortedAndFound ==
  Done("sort") =>
    LET a == result.sorted
        Count(s, n) == Cardinality({i \in DOMAIN s : s[i] = n})
    IN /\ Len(a) = Len(args) /\ \A n \in Number : Count(a, n) = Count(args, n)
       /\ \A i, j \in DOMAIN a : i < j => a[i] <= a[j]
       /\ \A n \in Number : IF Count(a, n) = 0 THEN result.found[n] = 0
                            ELSE a[result.found[n]] = n

Placed(headers, loaded) ==
  LET spt == loaded[2]
      loads == {headers[i] : i \in {j \in DOMAIN headers : headers[j].type = "load"}}
      bytes(h) == h.vaddr .. h.vaddr + h.memsz - 1
  IN loaded[1] =>
       /\ DOMAIN spt \ {StackPage} = UNION {{pg_round_down(a) : a \in bytes(h)} : h \in loads}
       /\ \A p \in DOMAIN spt : p >= PGSIZE /\ p + PGSIZE <= PHYS_BASE
       /\ \A a \in StackPage .. PHYS_BASE - 1 : ByteAt(spt, a, FileLength) = Zeroed
       /\ \A h \in loads : \A a \in bytes(h) :
            LET byte == ByteAt(spt, a, FileLength)
            IN /\ IF byte = Killed THEN h.offset + h.filesz > FileLength
                  ELSE byte = IF a < h.vaddr + h.filesz THEN h.offset + (a - h.vaddr) ELSE Zeroed
               /\ spt[pg_round_down(a)].writable = h.writable

(***************************************************************************)
(* Once load () has accepted an executable, each byte of each segment will *)
(* come from its place in the file, or be zero behind the bytes that the   *)
(* segment has in the file, whatever pages it starts and ends in; only a   *)
(* file that is too short for its segment gets the process killed instead. *)
(* The stack's page is zero and no segment's; the pages are in user space, *)
(* page 0 is not among them, and there are no others.                      *)
(***************************************************************************)
SegmentsPlaced ==
  /\ Done("load") =>
       \A memsz \in DOMAIN result :
         Placed(<<Header(args.offset, args.vaddr, args.filesz, memsz)>>, result[memsz])
  /\ Done("load_two") => Placed(args.headers, result)

Primary(e) == e.size > 0 /\ e.type = "primary"
Numbered(t) ==
  {[nr |-> Cardinality({j \in 1 .. i : Primary(t[j])}), start |-> t[i].offset, size |-> t[i].size] :
      i \in {j \in DOMAIN t : Primary(t[j])}}

(***************************************************************************)
(* partition_scan () registers exactly the primary partitions that are on  *)
(* the disk to their last sector, although start + size may wrap around,   *)
(* numbered as they come in the table, skipped ones included.  What is     *)
(* registered stays on the disk with extended partitions too, and only     *)
(* they can keep the scan from ending (it reads sector 0 at every level).  *)
(***************************************************************************)
PartitionsOnDisk ==
  Done("partitions") =>
    LET extended == \E i \in DOMAIN args.table : /\ args.table[i].type = "extended"
                                                /\ args.table[i].size > 0
    IN IF result = Endless THEN extended
       ELSE /\ \A p \in result.registered : p.start + p.size <= args.disk
            /\ \A p, q \in result.registered : p.nr = q.nr => p = q
            /\ ~extended => result.registered =
                  {p \in Numbered(args.table) : p.start + p.size <= args.disk}

\* The number that digits stand for, commas left out.
Read(digits, base) ==
  FoldLeft(LAMBDA n, d : IF d >= 0 THEN n * base + d ELSE n, 0, digits)

\* Bare output, without padding: its sign, its 0x, and the rest.
SignOf(bare) == IF bare # <<>> /\ bare[1] \in {DASH, CROSS, BLANK} THEN <<bare[1]>> ELSE <<>>
HexMark(bare) == IF \E i \in DOMAIN bare : bare[i] = EX THEN <<0, EX>> ELSE <<>>
DigitsIn(bare) == SubSeq(bare, Len(SignOf(bare)) + Len(HexMark(bare)) + 1, Len(bare))

IntegerPrinted(n, letter, flags, precision, bare) ==
  LET digits == DigitsIn(bare)
      base == CASE letter \in {"d", "u"} -> 10 [] letter = "o" -> 8 [] OTHER -> 16
      group == IF base = 16 THEN 4 ELSE 3
      wanted == IF precision < 0 THEN 1 ELSE precision
      significant == {i \in DOMAIN digits : \E j \in 1 .. i : digits[j] > 0}
  IN /\ Read(digits, base) = Magnitude(n) /\ (n < 0 <=> SignOf(bare) = <<DASH>>)
     /\ SignOf(bare) # <<>> => letter = "d"
     /\ HexMark(bare) # <<>> <=> base = 16 /\ n # 0 /\ ("#" \in flags \/ letter = "p")
     /\ Len(digits) <= sizeof_buf
     /\ Len(digits) >= Min({wanted, sizeof_buf - 1})
     /\ letter = "o" /\ "#" \in flags => digits # <<>> /\ digits[1] = 0
     /\ \A i \in significant :
          digits[i] = COMMA <=> "'" \in flags /\ letter # "p" /\ (Len(digits) - i + 1) % (group + 1) = 0

\* Both - and 0 are in force: in parse_conversion () a - overrides a 0 only if
\* it is written out.
PaddedTwice == /\ args.width < 0 /\ "0" \in args.flags /\ "-" \notin args.flags
               /\ args.precision < 0 /\ args.letter \notin {"p", "s"}

(***************************************************************************)
(* What printf () prints of an integer reads back as the integer that its  *)
(* type holds, with sign, 0x, commas and leading zeros just where the      *)
(* flags and the precision ask for them, and never outgrows                *)
(* format_integer ()'s buffer; a field is exactly as wide as asked, or as  *)
(* its contents if they are wider (nothing is said of a zero-padded field  *)
(* with a negative width from the arguments), and nothing but blanks or    *)
(* leading zeros fills it up.  snprintf () cuts that off at the buffer's   *)
(* end, terminates it, and returns the length it wanted.                   *)
(***************************************************************************)
PrintsWhatIsHeld ==
  Done("printf") =>
    \A v \in DOMAIN result :
      LET r == result[v]
          width == Magnitude(args.width)
          pad == IF Len(r.bare) < width THEN width - Len(r.bare) ELSE 0
      IN /\ IF args.letter = "s"
            THEN r.bare = IF args.precision < 0 THEN v[1]
                          ELSE SubSeq(v[1], 1, Min({args.precision, Len(v[1])}))
            ELSE IntegerPrinted(IF args.letter = "p" THEN v[1]
                                ELSE Argument(v[1], v[2], args.letter = "d"),
                                args.letter, args.flags, args.precision, r.bare)
         /\ ~PaddedTwice => Len(r.out) = Len(r.bare) + pad
         /\ args.letter # "s" =>
              SelectSeq(r.out, LAMBDA ch : ch \in {DASH, CROSS, EX}) =
                SelectSeq(r.bare, LAMBDA ch : ch \in {DASH, CROSS, EX})
         /\ \A n \in BufferSizes :
              /\ r.snprintf[n].length = Len(r.out)
              /\ Len(r.snprintf[n].buffer) = Min({n, Len(r.out) + 1})
              /\ n > 0 => LET kept == r.snprintf[n].buffer
                         IN /\ kept[Len(kept)] = TERMINATOR
                            /\ IsPrefix(SubSeq(kept, 1, Len(kept) - 1), r.out)

(***************************************************************************)
(* The kernel's containers hold what was put into them: list.c's lists are *)
(* sequences, hash.c's tables and bitmap.c's bitmaps sets, whatever the    *)
(* sequence of calls, and a sorted array is a permutation that             *)
(* binary_search () can rely on.                                           *)
(***************************************************************************)
ContainersHold ==
  /\ ListsStaySequences
  /\ TablesStaySets
  /\ BitmapsStaySets
  /\ SortedAndFound

(***************************************************************************)
(* The functions of string.c stay inside the memory they are given, and    *)
(* leave in it, or find in it, what their comments promise, but for the    *)
(* three cases that the parts of this property leave open.                 *)
(***************************************************************************)
StringsAsPromised ==
  /\ MovesWhatWasThere
  /\ StringsFit
  /\ SearchesFind

(***************************************************************************)
(* Numbers survive the kernel's own arithmetic and conversions: division   *)
(* by arithmetic.c, reading by atoi () and printing by printf ().          *)
(***************************************************************************)
NumbersKept ==
  /\ DivisionExact
  /\ NumbersRead
  /\ PrintsWhatIsHeld

(***************************************************************************)
(* A program that process_execute () and load () accept starts with its    *)
(* segments in their places and the words of its command line in argv,     *)
(* within the limits that ArgumentsArrive states.                          *)
(***************************************************************************)
ProgramsStart == SegmentsPlaced /\ ArgumentsArrive
=============================================================================
