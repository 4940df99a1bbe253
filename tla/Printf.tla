-------------------------------- MODULE Printf --------------------------------
(***************************************************************************)
(* The conversions of printf (), lib/stdio.c.  A conversion is what        *)
(* parse_conversion () finds between the % and its letter: a set of flags, *)
(* a width and a precision (which are negative only if they come from the  *)
(* arguments), and the type of the argument: char, short or int (l, ll, j, *)
(* z and t are left out).  Output is a sequence of characters, as numbers  *)
(* are written in Arithmetic.                                              *)
(***************************************************************************)
EXTENDS Integers, Sequences, SequencesExt, Arithmetic

CONSTANT sizeof_buf     \* size of format_integer ()'s buffer, 64 in the code

EX == -5
TERMINATOR == -6

\* struct integer_base.
base_d == [base |-> 10, x |-> FALSE, group |-> 3]
base_o == [base |-> 8, x |-> FALSE, group |-> 3]
base_x == [base |-> 16, x |-> TRUE, group |-> 4]

Overridden(flags) ==
  flags \ ((IF "-" \in flags THEN {"0"} ELSE {}) \cup (IF "+" \in flags THEN {" "} ELSE {}))

\* A negative width is a dash, after the flags have been looked at.
parse_conversion(flags, width, precision) ==
  [flags |-> (Overridden(flags) \cup (IF width < 0 THEN {"-"} ELSE {}))
               \ (IF precision >= 0 THEN {"0"} ELSE {}),
   width |-> IF width < 0 THEN -width ELSE width,
   precision |-> IF precision < 0 THEN -1 ELSE precision]

\* The argument as its type holds it: hh and h cut it off, an int is whole.
TypeBits(type) == IF type = "CHAR" THEN 8 ELSE 16
Argument(value, type, is_signed) ==
  LET cut == value % (2 ^ TypeBits(type))
  IN IF type \notin {"CHAR", "SHORT"} THEN value
     ELSE IF is_signed /\ cut >= 2 ^ (TypeBits(type) - 1) THEN cut - 2 ^ TypeBits(type)
     ELSE cut

output_dup(ch, cnt) == [i \in 1 .. cnt |-> ch]

\* The digits of value, the last one first, and commas between groups.
RECURSIVE DigitsOf(_, _, _, _)
DigitsOf(value, b, group, digit_cnt) ==
  IF value = 0 THEN <<>>
  ELSE (IF group /\ digit_cnt > 0 /\ digit_cnt % b.group = 0 THEN <<COMMA>> ELSE <<>>)
         \o <<value % b.base>> \o DigitsOf(value \div b.base, b, group, digit_cnt + 1)

\* With the zeros that the precision asks for, as far as the buffer allows,
\* and the leading zero of an octal number.
Rendered(value, b, c) ==
  LET digits == DigitsOf(value, b, "'" \in c.flags, 0)
      precision == IF c.precision < 0 THEN 1 ELSE c.precision
      room == IF precision < sizeof_buf - 1 THEN precision ELSE sizeof_buf - 1
      zeros == digits \o output_dup(0, room - Len(digits))
  IN IF "#" \in c.flags /\ b.base = 8 /\ (zeros = <<>> \/ zeros[Len(zeros)] # 0)
     THEN Append(zeros, 0) ELSE zeros

format_integer(value, is_signed, negative, b, c) ==
  LET sign == IF ~is_signed THEN <<>>
              ELSE IF negative THEN <<DASH>>
              ELSE IF "+" \in c.flags THEN <<CROSS>>
              ELSE IF " " \in c.flags THEN <<BLANK>> ELSE <<>>
      x == IF "#" \in c.flags /\ value # 0 /\ b.x THEN <<0, EX>> ELSE <<>>
      digits == Rendered(value, b, c)
      pad_cnt == c.width - Len(digits) - Len(x) - Len(sign)
  IN (IF c.flags \cap {"-", "0"} = {} THEN output_dup(BLANK, pad_cnt) ELSE <<>>)
       \o sign \o x
       \o (IF "0" \in c.flags THEN output_dup(0, pad_cnt) ELSE <<>>)
       \o Reverse(digits)
       \o (IF "-" \in c.flags THEN output_dup(BLANK, pad_cnt) ELSE <<>>)

format_string(string, c) ==
  LET length == IF c.precision \in 0 .. Len(string) THEN c.precision ELSE Len(string)
      pad == output_dup(BLANK, c.width - length)
  IN (IF "-" \in c.flags THEN <<>> ELSE pad) \o SubSeq(string, 1, length)
       \o (IF "-" \in c.flags THEN pad ELSE <<>>)

\* One conversion of __vprintf ().  A pointer keeps its width, not its flags.
vprintf(letter, value, type, c) ==
  CASE letter = "d" ->
         LET v == Argument(value, type, TRUE)
         IN format_integer(IF v < 0 THEN -v ELSE v, TRUE, v < 0, base_d, c)
    [] letter = "u" -> format_integer(Argument(value, type, FALSE), FALSE, FALSE, base_d, c)
    [] letter = "o" -> format_integer(Argument(value, type, FALSE), FALSE, FALSE, base_o, c)
    [] letter = "x" -> format_integer(Argument(value, type, FALSE), FALSE, FALSE, base_x, c)
    [] letter = "p" -> format_integer(value, FALSE, FALSE, base_x, [c EXCEPT !.flags = {"#"}])
    [] letter = "s" -> format_string(value, c)

\* vsnprintf () of output out into a buffer of buf_size bytes: the buffer's
\* characters, their terminator, and the length returned.
vsnprintf_helper(aux, ch) ==
  [aux EXCEPT !.buffer = IF aux.length < aux.max_length THEN Append(@, ch) ELSE @,
              !.length = @ + 1]
vsnprintf(out, buf_size) ==
  LET aux == FoldLeft(vsnprintf_helper,
                      [buffer |-> <<>>, length |-> 0,
                       max_length |-> IF buf_size > 0 THEN buf_size - 1 ELSE 0], out)
  IN [buffer |-> IF buf_size > 0 THEN Append(aux.buffer, TERMINATOR) ELSE aux.buffer,
      length |-> aux.length]
===============================================================================
