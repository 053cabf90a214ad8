------------------------------- MODULE Format -------------------------------
(***************************************************************************)
(* The two formatters: ulib_printf, which composes one message in a buffer *)
(* of ULIB_LINE_MAX bytes, and the kernel's uart_printf, which emits each  *)
(* character as it goes.                                                   *)
(*                                                                         *)
(* A text is a sequence of characters.  The arguments of one kind in one   *)
(* call are taken to be equal: v for the numeric conversions, s (never     *)
(* NULL) for %s, c for %c.                                                 *)
(***************************************************************************)
EXTENDS Integers, Sequences

CONSTANTS
  UINT,           \* 2^32 in the code: values of an unsigned int
  RADIX,          \* 10 in the code
  DEC_DIGITS,     \* 10 in the code: size of the array the digits go through
  NIBBLE,         \* 16 in the code
  NIBBLES,        \* 8 in the code
  ULIB_LINE_MAX   \* 192 in the code

\* What k divisions leave of v; for a power of two, v shifted right.
Quotient(v, base, k) ==
  LET q[i \in 0 .. k] == IF i = 0 THEN v ELSE q[i - 1] \div base
  IN q[k]

\* Ten digits, or eight nibbles, are enough for every unsigned int.
ASSUME FormatAssumption ==
  /\ UINT \in Nat \ {0} /\ UINT % 2 = 0
  /\ RADIX \in 2 .. 10 /\ DEC_DIGITS \in Nat /\ Quotient(UINT - 1, RADIX, DEC_DIGITS) = 0
  /\ NIBBLE \in 2 .. 16 /\ NIBBLES \in Nat \ {0} /\ Quotient(UINT - 1, NIBBLE, NIBBLES) = 0
  /\ ULIB_LINE_MAX \in Nat

\* A character is a string of length one.
Characters == STRING

UInts == 0 .. UINT - 1

\* How a signed int shows in an unsigned one, and back.
AsUnsigned(i) == i % UINT

AsSigned(u) == IF 2 * u >= UINT THEN u - UINT ELSE u

-----------------------------------------------------------------------------
(* Numerals. *)

\* The table of digits, and '0' + n.
digit ==
  [n \in 0 .. 15 |->
     <<"0", "1", "2", "3", "4", "5", "6", "7", "8", "9", "a", "b", "c", "d", "e", "f">>[n + 1]]

\* put_dec and uart_print_dec: tmp is filled, last digit first, until nothing
\* is left of v, and read backwards.
Dec(v) ==
  LET i == CHOOSE i \in 0 .. v :
             /\ Quotient(v, RADIX, i) = 0
             /\ \A j \in 0 .. i - 1 : Quotient(v, RADIX, j) # 0
      tmp == [j \in 0 .. i - 1 |-> digit[Quotient(v, RADIX, j) % RADIX]]
  IN IF v = 0 THEN <<"0">> ELSE [j \in 1 .. i |-> tmp[i - j]]

\* uart_print_int; val + 1 keeps the negation inside an int.
Int32(i) == IF i < 0 THEN <<"-">> \o Dec(AsUnsigned(AsUnsigned(-(i + 1)) + 1)) ELSE Dec(AsUnsigned(i))

NibbleAt(v, k) == Quotient(v, NIBBLE, k) % NIBBLE

\* Every nibble, most significant first.
Hex8(v) == [k \in 1 .. NIBBLES |-> digit[NibbleAt(v, NIBBLES - k)]]

\* put_hex: a nibble is put once one has been, or when it is not zero, or when
\* it is the last.
put_hex(v, pad8) ==
  LET put[k \in 0 .. NIBBLES] ==
        IF k = 0 THEN << >>
        ELSE IF pad8 \/ NibbleAt(v, NIBBLES - k) # 0 \/ put[k - 1] # << >> \/ k = NIBBLES
        THEN Append(put[k - 1], Hex8(v)[k])
        ELSE put[k - 1]
  IN put[NIBBLES]

\* Mutant: the search for the first digit stops at the second nibble.
MutantHexTrimKeepsTwo(v) ==
  LET i == CHOOSE i \in 0 .. NIBBLES - 1 :
             /\ NibbleAt(v, i) # 0 \/ i = 1
             /\ \A j \in i + 1 .. NIBBLES - 1 : NibbleAt(v, j) = 0
  IN SubSeq(Hex8(v), NIBBLES - i, NIBBLES)

\* %x of uart_printf: look for the first nibble to show, then show the rest.
UartHex(v) ==
  LET i == CHOOSE i \in 0 .. NIBBLES - 1 :
             /\ NibbleAt(v, i) # 0 \/ i = 0
             /\ \A j \in i + 1 .. NIBBLES - 1 : NibbleAt(v, j) = 0
  IN SubSeq(Hex8(v), NIBBLES - i, NIBBLES)

-----------------------------------------------------------------------------
(* ulib_printf. *)

\* put_ch: a character past the buffer's end is dropped.
put_ch(buf, c) == IF Len(buf) < ULIB_LINE_MAX THEN Append(buf, c) ELSE buf

\* Mutant: a buffer that is full is emptied, as if the line were split.
MutantPutStrSplits(buf, s) ==
  LET put[i \in 0 .. Len(s)] ==
        IF i = 0 THEN buf
        ELSE IF Len(put[i - 1]) < ULIB_LINE_MAX THEN Append(put[i - 1], s[i])
        ELSE <<s[i]>>
  IN put[Len(s)]

put_str(buf, s) ==
  LET put[i \in 0 .. Len(s)] == IF i = 0 THEN buf ELSE put_ch(put[i - 1], s[i])
  IN put[Len(s)]

\* What one conversion puts.
UlibConversion(conv, v, s, c) ==
  CASE conv = "u" -> Dec(v)
    [] conv = "x" -> put_hex(v, FALSE)
    [] conv = "p" -> <<"0", "x">> \o put_hex(v, TRUE)
    [] conv = "s" -> s
    [] conv = "c" -> <<c>>
    [] conv = "%" -> <<"%">>
    [] OTHER      -> <<"%", conv>>

\* The loop over the format; a '%' at its very end stops it.  Everything goes
\* through put_ch, and the buffer leaves in one sys_write.
ulib_printf(fmt, v, s, c) ==
  LET rest[p \in 1 .. Len(fmt) + 2] ==
        IF p > Len(fmt) THEN << >>
        ELSE IF fmt[p] # "%" THEN <<fmt[p]>> \o rest[p + 1]
        ELSE IF p = Len(fmt) THEN << >>
        ELSE UlibConversion(fmt[p + 1], v, s, c) \o rest[p + 2]
  IN put_str(<< >>, rest[1])

-----------------------------------------------------------------------------
(* uart_printf. *)

\* Stands for what lies beyond the end of a format.
BEYOND == "beyond the terminator"

\* %-Ns: the string, then blanks up to the width.
PadRight(s, width) == s \o [i \in 1 .. width - Len(s) |-> " "]

UartConversion(conv, v, s, c) ==
  CASE conv = "c" -> <<c>>
    [] conv = "s" -> s
    [] conv = "d" -> Int32(AsSigned(v))
    [] conv = "u" -> Dec(v)
    [] conv = "x" -> UartHex(v)
    [] conv = "p" -> <<"0", "x">> \o Hex8(v)
    [] conv = "%" -> <<"%">>
    [] OTHER      -> <<"%", conv>>

\* Three-character conversions first; a '%' at the very end is taken with the
\* terminator as its conversion, and the loop goes on behind it.
uart_printf(fmt, v, s, c) ==
  LET At(p) == IF p <= Len(fmt) THEN fmt[p] ELSE BEYOND
      rest[p \in 1 .. Len(fmt) + 4] ==
        IF p > Len(fmt) THEN << >>
        ELSE IF fmt[p] # "%" THEN <<fmt[p]>> \o rest[p + 1]
        ELSE IF At(p + 1) = "-" /\ (\E w \in 1 .. 9 : At(p + 2) = digit[w]) /\ At(p + 3) = "s"
        THEN PadRight(s, CHOOSE w \in 1 .. 9 : At(p + 2) = digit[w]) \o rest[p + 4]
        ELSE IF At(p + 1) = "0" /\ At(p + 2) = "8" /\ At(p + 3) = "x"
        THEN Hex8(v) \o rest[p + 4]
        ELSE UartConversion(At(p + 1), v, s, c) \o rest[p + 2]
  IN rest[1]

-----------------------------------------------------------------------------
(* What the texts are compared with.                                       *)

\* The number a numeral denotes.
Value(text, base) ==
  LET upto[i \in 0 .. Len(text)] ==
        IF i = 0 THEN 0
        ELSE upto[i - 1] * base + (CHOOSE k \in 0 .. 15 : digit[k] = text[i])
  IN upto[Len(text)]

\* A format with no conversion only the kernel has, and no '%' at its end.
Common(fmt, text) ==
  /\ \A i \in DOMAIN text : text[i] # BEYOND
  /\ \A p \in 1 .. Len(fmt) - 1 : fmt[p] = "%" => fmt[p + 1] \notin {"d", "-", "0"}

=============================================================================
