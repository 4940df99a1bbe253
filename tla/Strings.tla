------------------------------- MODULE Strings -------------------------------
(***************************************************************************)
(* The string functions of lib/string.c that the kernel relies on, on a    *)
(* memory mem: a function from addresses to characters in which NUL ends a *)
(* string.  An address that a function may not touch is one outside of     *)
(* mem's domain.                                                           *)
(***************************************************************************)
EXTENDS Integers, Sequences, SequencesExt

CONSTANTS NUL, Nowhere      \* the null character and the null pointer

\* The characters of the string at s.
RECURSIVE StringAt(_, _)
StringAt(mem, s) == IF mem[s] = NUL THEN <<>> ELSE <<mem[s]>> \o StringAt(mem, s + 1)

strlen(mem, s) == Len(StringAt(mem, s))

RECURSIVE strnlen(_, _, _)
strnlen(mem, s, maxlen) ==
  IF maxlen = 0 \/ mem[s] = NUL THEN 0 ELSE 1 + strnlen(mem, s + 1, maxlen - 1)

RECURSIVE strchr(_, _, _)
strchr(mem, s, c) ==
  IF mem[s] = c THEN s ELSE IF mem[s] = NUL THEN Nowhere ELSE strchr(mem, s + 1, c)

RECURSIVE memchr(_, _, _, _)
memchr(mem, block, c, size) ==
  IF size = 0 THEN Nowhere
  ELSE IF mem[block] = c THEN block ELSE memchr(mem, block + 1, c, size - 1)

\* A set of characters stands for the string of them here.
RECURSIVE strpbrk(_, _, _)
strpbrk(mem, s, stop) ==
  IF mem[s] = NUL THEN Nowhere
  ELSE IF mem[s] \in stop THEN s ELSE strpbrk(mem, s + 1, stop)

\* A set of delimiters stands for the string of them: strchr (delimiters, c)
\* finds NUL, which ends every string, as well.
InString(delimiters, c) == c = NUL \/ c \in delimiters

RECURSIVE strspn(_, _, _)
strspn(mem, s, skip) ==
  IF mem[s] # NUL /\ mem[s] \in skip THEN 1 + strspn(mem, s + 1, skip) ELSE 0

RECURSIVE strcspn(_, _, _)
strcspn(mem, s, stop) ==
  IF mem[s] # NUL /\ mem[s] \notin stop THEN 1 + strcspn(mem, s + 1, stop) ELSE 0

RECURSIVE strrchr(_, _, _, _)
strrchr(mem, s, c, p) ==
  IF mem[s] = NUL THEN p ELSE strrchr(mem, s + 1, c, IF mem[s] = c THEN s ELSE p)

RECURSIVE memcmp(_, _, _, _)
memcmp(mem, a, b, size) ==
  IF size = 0 THEN 0
  ELSE IF mem[a] # mem[b] THEN (IF mem[a] > mem[b] THEN 1 ELSE -1)
  ELSE memcmp(mem, a + 1, b + 1, size - 1)

RECURSIVE strcmp(_, _, _)
strcmp(mem, a, b) ==
  IF mem[a] # NUL /\ mem[a] = mem[b] THEN strcmp(mem, a + 1, b + 1)
  ELSE IF mem[a] < mem[b] THEN -1 ELSE IF mem[a] > mem[b] THEN 1 ELSE 0

RECURSIVE MatchFrom(_, _, _, _, _)
MatchFrom(mem, hay, needle, i, last) ==
  IF i > last THEN Nowhere
  ELSE IF memcmp(mem, hay + i, needle, strlen(mem, needle)) = 0 THEN hay + i
  ELSE MatchFrom(mem, hay, needle, i + 1, last)

LastPlace(hay_len, needle_len) == hay_len - needle_len

strstr(mem, hay, needle) ==
  MatchFrom(mem, hay, needle, 0, LastPlace(strlen(mem, hay), strlen(mem, needle)))

RECURSIVE memcpy(_, _, _, _)
memcpy(mem, dst, src, size) ==
  IF size = 0 THEN mem
  ELSE memcpy([mem EXCEPT ![dst] = mem[src]], dst + 1, src + 1, size - 1)

RECURSIVE CopyDown(_, _, _, _)
CopyDown(mem, dst, src, size) ==
  IF size = 0 THEN mem
  ELSE CopyDown([mem EXCEPT ![dst + size - 1] = mem[src + size - 1]], dst, src, size - 1)

\* Mutant: always from the front.
memmove_forward(mem, dst, src, size) == <<memcpy(mem, dst, src, size), dst + size>>

\* From the end that the copy does not overwrite first.  <<memory, the pointer
\* returned>>: dst as the copy leaves it.
memmove(mem, dst, src, size) ==
  IF dst < src THEN <<memcpy(mem, dst, src, size), dst + size>>
  ELSE <<CopyDown(mem, dst, src, size), dst>>

\* How many characters fit before the terminator.
CopyLength(src_len, room) == IF src_len < room THEN src_len ELSE room

strlcpy(mem, dst, src, size) ==
  LET n == CopyLength(strlen(mem, src), size - 1)
  IN <<IF size > 0 THEN [memcpy(mem, dst, src, n) EXCEPT ![dst + n] = NUL] ELSE mem,
       strlen(mem, src)>>

strlcat(mem, dst, src, size) ==
  LET dst_len == strlen(mem, dst)
      n == CopyLength(strlen(mem, src), size - dst_len - 1)
  IN <<IF size > 0 /\ dst_len < size
       THEN [memcpy(mem, dst + dst_len, src, n) EXCEPT ![dst + dst_len + n] = NUL]
       ELSE mem,
       strlen(mem, src) + dst_len>>

-----------------------------------------------------------------------------
(* strtok_r () and process_execute () 's use of it *)

RECURSIVE SkipDelimiters(_, _, _)
SkipDelimiters(mem, s, delimiters) ==
  IF mem[s] # NUL /\ InString(delimiters, mem[s]) THEN SkipDelimiters(mem, s + 1, delimiters)
  ELSE s

RECURSIVE TokenEnd(_, _, _)
TokenEnd(mem, s, delimiters) ==
  IF InString(delimiters, mem[s]) THEN s ELSE TokenEnd(mem, s + 1, delimiters)

\* Where the next call goes on: behind the delimiter that was overwritten.
SavePtr(mem, end) == IF mem[end] # NUL THEN end + 1 ELSE end

\* <<token, memory, *save_ptr>>.
strtok_r(mem, s, delimiters) ==
  LET token == SkipDelimiters(mem, s, delimiters)
      end == TokenEnd(mem, token, delimiters)
  IN IF mem[token] = NUL THEN <<Nowhere, mem, token>>
     ELSE <<token, [mem EXCEPT ![end] = NUL], SavePtr(mem, end)>>

\* process_execute (): <<argv, memory>>, or no argv when there are more
\* tokens than its page has room for.
RECURSIVE ParseTokens(_, _, _, _, _)
ParseTokens(mem, s, argv, delimiters, room) ==
  LET next == strtok_r(mem, s, delimiters)
  IN IF next[1] = Nowhere THEN <<argv, next[2]>>
     ELSE IF Len(argv) >= room THEN <<Nowhere, next[2]>>
     ELSE ParseTokens(next[2], next[3], Append(argv, next[1]), delimiters, room)

-----------------------------------------------------------------------------
(* setup_stack () : the arguments on the new process's stack *)

\* Pushes argv[i], ..., argv[1]; <<memory, esp, where each one is>>.
RECURSIVE PushStrings(_, _, _, _, _)
PushStrings(mem, argv, i, esp, ptrs) ==
  IF i = 0 THEN <<mem, esp, ptrs>> ELSE
  LET len == strlen(mem, argv[i]) + 1
  IN PushStrings(memcpy(mem, esp - len, argv[i], len), argv, i - 1, esp - len,
                 <<esp - len>> \o ptrs)

\* The bytes of the word at a hold its value.
StoreWord(mem, a, size, value) ==
  [i \in DOMAIN mem |-> IF i \in a .. a + size - 1 THEN value ELSE mem[i]]

RECURSIVE PushWords(_, _, _, _)
PushWords(mem, words, esp, size) ==
  IF words = <<>> THEN <<mem, esp>>
  ELSE PushWords(StoreWord(mem, esp - size, size, Last(words)), Front(words), esp - size, size)

Aligned(esp, word) == esp - (esp % word)

\* The array argc_ptrs is on the kernel stack, where there is room for so many
\* pointers: with more the stack grows into the struct thread below it.
Overruns(argv, kernel_room) == Len(argv) + 1 > kernel_room

\* Words of `word' bytes: the pointers and the terminating NULL, then argv,
\* argc and the fake return address.  <<memory, esp>>.
setup_stack(mem, argv, top, word) ==
  LET strings == PushStrings(mem, argv, Len(argv), top, <<>>)
      ptrs == PushWords(strings[1], strings[3] \o <<Nowhere>>, Aligned(strings[2], word), word)
  IN PushWords(ptrs[1], <<Nowhere, Len(argv), ptrs[2]>>, ptrs[2], word)
=============================================================================
