------------------------------- MODULE Format -------------------------------
(***************************************************************************)
(* tfp_format and what it calls (printf.cpp), entered by printf_no_lock or *)
(* sprintf, the two plain printers of uart.cpp and the two loops over      *)
(* strings of libk.cpp.  A step is an iteration of a loop that reads the   *)
(* text or divides; a character is a string of length one and a C string a *)
(* sequence of them, its NUL being behind the last.  tfp_printf, which     *)
(* adds the lock, is in Console.                                           *)
(***************************************************************************)
EXTENDS Powers, SequencesExt

CONSTANTS Modulus,     \* the number of values of an unsigned int
          BufferSize,  \* of bf: 12 for 2^32 values
          NUL,         \* the byte that ends a string
          Texts,       \* the format texts, and the strings of libk.cpp
          Words,       \* what is passed for %d, %u, %x and %X
          Characters,  \* what is passed for %c
          Strings      \* what is passed for %s, and to streq

Decimal == {"0", "1", "2", "3", "4", "5", "6", "7", "8", "9"}

\* Of the 12 bytes of bf two are a sign's and the NUL's, and 10 decimal digits
\* are enough for 2^32 values; they are all the numbers of 8 tetrads.
ASSUME FormatAssumption ==
  /\ Modulus \in Nat /\ BufferSize \in Nat /\ BufferSize >= 2
  /\ Modulus <= Power(10, BufferSize - 2)
  /\ \E tetrads \in 2 .. BufferSize : Modulus = Power(16, tetrads)
  /\ Texts \subseteq Seq(STRING) /\ <<>> \in Texts
  /\ Words \subseteq 0 .. Modulus - 1
  /\ Characters \subseteq STRING
  /\ Strings \subseteq Seq(STRING)
  /\ NUL \notin {"%", "c", "s", "d", "u", "x", "X"} \union Decimal
  /\ \A s \in Texts \union Strings : \A i \in DOMAIN s : s[i] # NUL

VARIABLES call,   \* the function that was called
          pc,     \* where it is
          text,   \* its format or string
          fmt,    \* the index of the next character to read
          ch,     \* the character read last
          lz, w,  \* the conversion's zero flag and width, an int
          num, d, \* ui2a's number and divisor
          bf,     \* the characters written to bf
          given,  \* the arguments taken so far
          out     \* what the UART or sprintf's buffer got

field == <<lz, w>>
number == <<num, d, bf>>
vars == <<call, pc, text, fmt, ch, field, number, given, out>>

Lower == <<"0", "1", "2", "3", "4", "5", "6", "7", "8", "9",
           "a", "b", "c", "d", "e", "f">>
Upper == <<"0", "1", "2", "3", "4", "5", "6", "7", "8", "9",
           "A", "B", "C", "D", "E", "F">>

Place == {"text", "flag", "zero", "width", "convert", "grow", "digits",
          "puts", "hex", "strlen", "streq", "done"}

\* The values of an int, which are as many as an unsigned int's.
AnInt == -(Modulus \div 2) .. Modulus \div 2 - 1

TypeOK ==
  /\ call \in {"printf_no_lock", "sprintf", "uart_puts", "uart_hex", "strlen", "streq"}
  /\ pc \in Place
  /\ text \in Texts
  /\ fmt \in Nat \ {0}
  /\ lz \in {0, 1}
  /\ w \in AnInt
  /\ num \in 0 .. Modulus - 1 /\ d \in 0 .. Modulus - 1

CharAt(s, i) == IF i <= Len(s) THEN s[i] ELSE NUL
At(i) == CharAt(text, i)

\* init_printf has been called, or the buffer of sprintf is there.
InitCommon ==
  /\ fmt = 1 /\ ch = NUL /\ lz = 0 /\ w = 0
  /\ bf = <<>> /\ out = <<>>

InitFormat ==
  /\ call \in {"printf_no_lock", "sprintf"} /\ pc = "text" /\ text \in Texts
  /\ num = 0 /\ d = 0 /\ given = <<>>

InitPuts ==
  /\ call = "uart_puts" /\ pc = "puts" /\ text \in Texts
  /\ num = 0 /\ d = 0 /\ given = <<>>

InitHex ==
  /\ call = "uart_hex" /\ pc = "hex" /\ text = <<>>
  /\ num \in Words /\ d = Modulus \div 16 /\ given = <<>>

InitStrlen ==
  /\ call = "strlen" /\ pc = "strlen" /\ text \in Texts
  /\ num = 0 /\ d = 0 /\ given = <<>>

InitStreq ==
  /\ call = "streq" /\ pc = "streq" /\ text \in Texts
  /\ num = 0 /\ d = 0 /\ \E b \in Strings : given = <<b>>

Init ==
  InitCommon /\ (InitFormat \/ InitPuts \/ InitHex \/ InitStrlen \/ InitStreq)

-----------------------------------------------------------------------------
(***************************************************************************)
(* The helpers.                                                            *)
(***************************************************************************)
\* a2d: the value of a hexadecimal digit, or -1.
A2D(c) ==
  IF \E k \in 1 .. 16 : c \in {Lower[k], Upper[k]}
    THEN (CHOOSE k \in 1 .. 16 : c \in {Lower[k], Upper[k]}) - 1
    ELSE -1

ASSUME NulIsNoDigit == A2D(NUL) = -1

\* Mistake: any digit a2d knows goes on with the width.
InWidthAnyDigit(c) == A2D(c) >= 0

\* a2i goes on with this character; 10 is no digit of base 10, but
\* only a value above it ends the number.
InWidth(c) == A2D(c) >= 0 /\ A2D(c) <= 10

\* Mistake: the width is unsigned.
AsUnsigned(n) == n % Modulus

\* What an int that overflows holds.  The language leaves it open; the build,
\* which has no -O, multiplies and adds in a register of an int's width.
AsInt(n) ==
  LET low == n % Modulus
  IN  IF low < Modulus \div 2 THEN low ELSE low - Modulus

Negative(n) == ch = "d" /\ n >= Modulus \div 2
Base == IF ch \in {"u", "d"} THEN 10 ELSE 16

\* Mistake: the divisor is multiplied before it is compared.
GrowsProduct == num >= (d * Base) % Modulus

\* Mistake: the divisor grows until nothing is left of the number.
GrowsOneMore == num \div d > 0

\* ui2a's first loop goes on.
Grows == num \div d >= Base

DigitChar(g) == IF ch = "X" THEN Upper[g + 1] ELSE Lower[g + 1]

\* ui2a writes the digit: one was written before, or it is not a zero, or it
\* is the last one.
Keeps(g) == (\E i \in DOMAIN bf : bf[i] # "-") \/ g > 0 \/ d \div Base = 0

\* putchw: the padding comes before all of bf, its sign included; a width
\* below zero asks for none.
Padded(zero, s) ==
  [i \in 1 .. Max({0, w - Len(s)}) |-> IF zero = 1 THEN "0" ELSE " "] \o s

\* uart_putc_wrapper, the putf of init_printf.
Wrapped(c) == IF c = "\n" THEN <<"\r", "\n">> ELSE <<c>>
OnWire(s) == FoldLeft(LAMBDA sent, c : sent \o Wrapped(c), <<>>, s)

\* putf: putcp for sprintf, the UART otherwise.
Sent(s) == IF call = "sprintf" THEN s ELSE OnWire(s)
Putf(s) == out' = out \o Sent(s)

Return ==
  /\ pc' = "done"
  /\ out' = IF call = "sprintf" THEN Append(out, NUL) ELSE out

-----------------------------------------------------------------------------
(***************************************************************************)
(* The loop over the text.                                                 *)
(***************************************************************************)
Plain ==
  /\ pc = "text" /\ At(fmt) \notin {NUL, "%"}
  /\ fmt' = fmt + 1 /\ ch' = At(fmt)
  /\ Putf(<<At(fmt)>>)
  /\ UNCHANGED <<call, pc, text, field, number, given>>

EndOfText ==
  /\ pc = "text" /\ At(fmt) = NUL
  /\ fmt' = fmt + 1 /\ ch' = NUL
  /\ Return
  /\ UNCHANGED <<call, text, field, number, given>>

Percent ==
  /\ pc = "text" /\ At(fmt) = "%"
  /\ fmt' = fmt + 1 /\ ch' = "%"
  /\ pc' = "flag" /\ lz' = 0 /\ w' = 0
  /\ UNCHANGED <<call, text, number, given, out>>

\* Read a character of the field and go on with the width or the conversion.
ReadField ==
  /\ fmt' = fmt + 1 /\ ch' = At(fmt)
  /\ pc' = IF At(fmt) \in Decimal THEN "width" ELSE "convert"

Flag ==
  /\ pc = "flag"
  /\ IF At(fmt) = "0"
     THEN fmt' = fmt + 1 /\ ch' = "0" /\ pc' = "zero" /\ lz' = 1
     ELSE ReadField /\ UNCHANGED lz
  /\ UNCHANGED <<call, text, w, number, given, out>>

Zero ==
  /\ pc = "zero"
  /\ ReadField
  /\ UNCHANGED <<call, text, field, number, given, out>>

\* A digit of the width is added and the next character read; the conversion
\* begins at the first that does not go on with it.
Width ==
  /\ pc = "width"
  /\ IF InWidth(ch)
     THEN w' = AsInt(w * 10 + A2D(ch)) /\ fmt' = fmt + 1 /\ ch' = At(fmt) /\ UNCHANGED pc
     ELSE pc' = "convert" /\ UNCHANGED <<w, fmt, ch>>
  /\ UNCHANGED <<call, text, lz, number, given, out>>

-----------------------------------------------------------------------------
(***************************************************************************)
(* The conversions.  A `%p' or `%l' prints nothing and takes nothing.      *)
(***************************************************************************)
\* Mistake: the text's end inside a conversion is a conversion nobody knows.
AbortMissing ==
  /\ pc = "convert" /\ ch = NUL
  /\ pc' = "text" /\ UNCHANGED out
  /\ UNCHANGED <<call, text, fmt, ch, field, number, given>>

Abort ==
  /\ pc = "convert" /\ ch = NUL
  /\ Return
  /\ UNCHANGED <<call, text, fmt, ch, field, number, given>>

ConvertPercent ==
  /\ pc = "convert" /\ ch = "%"
  /\ Putf(<<ch>>)
  /\ pc' = "text"
  /\ UNCHANGED <<call, text, fmt, ch, field, number, given>>

ConvertOther ==
  /\ pc = "convert" /\ ch \notin {NUL, "%", "c", "s", "u", "x", "X", "d"}
  /\ pc' = "text"
  /\ UNCHANGED <<call, text, fmt, ch, field, number, given, out>>

ConvertCharacter(c) ==
  /\ pc = "convert" /\ ch = "c"
  /\ given' = Append(given, c)
  /\ Putf(<<c>>)
  /\ pc' = "text"
  /\ UNCHANGED <<call, text, fmt, ch, field, number>>

ConvertString(s) ==
  /\ pc = "convert" /\ ch = "s"
  /\ given' = Append(given, s)
  /\ Putf(Padded(0, s))
  /\ pc' = "text"
  /\ UNCHANGED <<call, text, fmt, ch, field, number>>

\* Mistake: bf still holds the characters of the number before.
ConvertNumberBehind(n) ==
  /\ pc = "convert" /\ ch \in {"u", "d", "x", "X"}
  /\ given' = Append(given, n)
  /\ pc' = "grow" /\ d' = 1
  /\ num' = IF Negative(n) THEN Modulus - n ELSE n
  /\ bf' = IF Negative(n) THEN Append(bf, "-") ELSE bf
  /\ UNCHANGED <<call, text, fmt, ch, field, out>>

\* ui2a, or i2a first: -num of the least int is itself, and right as an
\* unsigned int.
ConvertNumber(n) ==
  /\ pc = "convert" /\ ch \in {"u", "d", "x", "X"}
  /\ given' = Append(given, n)
  /\ pc' = "grow" /\ d' = 1
  /\ num' = IF Negative(n) THEN Modulus - n ELSE n
  /\ bf' = IF Negative(n) THEN <<"-">> ELSE <<>>
  /\ UNCHANGED <<call, text, fmt, ch, field, out>>

GrowDivisor ==
  /\ pc = "grow"
  /\ IF Grows
     THEN d' = (d * Base) % Modulus /\ UNCHANGED pc
     ELSE pc' = "digits" /\ UNCHANGED d
  /\ UNCHANGED <<call, text, fmt, ch, field, num, bf, given, out>>

WriteDigit ==
  /\ pc = "digits" /\ d # 0
  /\ num' = num % d
  /\ d' = d \div Base
  /\ bf' = IF Keeps(num \div d) THEN Append(bf, DigitChar(num \div d)) ELSE bf
  /\ UNCHANGED <<call, pc, text, fmt, ch, field, given, out>>

PutNumber ==
  /\ pc = "digits" /\ d = 0
  /\ Putf(Padded(lz, bf))
  /\ pc' = "text"
  /\ UNCHANGED <<call, text, fmt, ch, field, number, given>>

-----------------------------------------------------------------------------
(***************************************************************************)
(* uart_puts and uart_hex.                                                 *)
(***************************************************************************)
UartPuts ==
  /\ pc = "puts"
  /\ IF At(fmt) = NUL
     THEN pc' = "done" /\ UNCHANGED <<fmt, out>>
     ELSE fmt' = fmt + 1 /\ out' = Append(out, At(fmt)) /\ UNCHANGED pc
  /\ UNCHANGED <<call, text, ch, field, number, given>>

\* A tetrad, the highest first; d is the weight of its lowest bit.
UartHex ==
  /\ pc = "hex"
  /\ IF d = 0
     THEN pc' = "done" /\ UNCHANGED <<d, out>>
     ELSE /\ out' = Append(out, Upper[((num \div d) % 16) + 1])
          /\ d' = d \div 16
          /\ UNCHANGED pc
  /\ UNCHANGED <<call, text, fmt, ch, field, num, bf, given>>

-----------------------------------------------------------------------------
(***************************************************************************)
(* strlen and streq of libk.cpp.                                           *)
(***************************************************************************)
\* n is fmt - 1: the characters before *str.
Strlen ==
  /\ pc = "strlen"
  /\ fmt' = fmt + 1
  /\ IF At(fmt) = NUL
     THEN pc' = "done" /\ out' = <<fmt - 1>>
     ELSE UNCHANGED <<pc, out>>
  /\ UNCHANGED <<call, text, ch, field, number, given>>

\* a is the text and b was given.
Streq ==
  /\ pc = "streq"
  /\ LET x == At(fmt)
         y == CharAt(given[1], fmt)
     IN  IF x # y \/ x = NUL
         THEN pc' = "done" /\ out' = <<x = y>> /\ UNCHANGED fmt
         ELSE fmt' = fmt + 1 /\ UNCHANGED <<pc, out>>
  /\ UNCHANGED <<call, text, ch, field, number, given>>

Returned == pc = "done" /\ UNCHANGED vars

Next ==
  \/ Plain \/ EndOfText \/ Percent
  \/ Flag \/ Zero \/ Width
  \/ Abort \/ ConvertPercent \/ ConvertOther
  \/ \E c \in Characters : ConvertCharacter(c)
  \/ \E s \in Strings : ConvertString(s)
  \/ \E n \in Words : ConvertNumber(n)
  \/ GrowDivisor \/ WriteDigit \/ PutNumber
  \/ UartPuts \/ UartHex
  \/ Strlen \/ Streq
  \/ Returned

\* The core that formats runs on.
Spec == Init /\ [][Next]_vars /\ WF_vars(Next)

-----------------------------------------------------------------------------
\* No character behind the text's NUL is read, wherever the text ends: after
\* `%', after `%0', inside a width; streq stops at the end of the shorter of
\* its strings (printf.cpp:134-204, uart.cpp:68-72, libk.cpp:4-24).
ReadsInsideText ==
  /\ fmt <= Len(text) + 2
  /\ call = "streq" => fmt <= Len(text) + 1 /\ fmt <= Len(given[1]) + 1

\* ui2a's divisor stays a number of the first loop's: it does not wrap on its
\* way to the number's highest digit, for the largest numbers either
\* (printf.cpp:66-68).
DivisorNeverWraps == pc = "grow" => d = 1 \/ d \in 1 .. num

\* bf has room for a number's sign, digits and NUL (printf.cpp:131).
BufferHolds == Len(bf) < BufferSize

\* Formatting ends, so that the lock tfp_printf holds meanwhile is given back
\* (printf.cpp:134-204).
FormatReturns == <>(pc = "done")

-----------------------------------------------------------------------------
(***************************************************************************)
(* What a format means, as a function of the whole text.                   *)
(***************************************************************************)
Numeral(n, b, digit) ==
  LET length == Min({k \in 1 .. BufferSize : n < Power(b, k)})
  IN  [i \in 1 .. length |-> digit[((n \div Power(b, length - i)) % b) + 1]]

Signed(n) ==
  IF n < Modulus \div 2 THEN Numeral(n, 10, Lower)
                        ELSE <<"-">> \o Numeral(Modulus - n, 10, Lower)

Fill(c, s, width) == [i \in 1 .. Max({0, width - Len(s)}) |-> c] \o s

\* The letter of the conversion that starts with the `%' at i.
Letter(i) ==
  Min({k \in i + 1 .. Len(text) + 1 : k <= Len(text) => text[k] \notin Decimal})

\* The number whose last digit is at i.
WidthAt(i) ==
  LET value[k \in 0 .. i] ==
        IF k = 0 THEN 0
        ELSE IF text[k] \in Decimal THEN 10 * value[k - 1] + A2D(text[k]) ELSE 0
  IN  value[i]

Taking == {"c", "s", "d", "u", "x", "X"}

\* The conversion from the `%' at i to the letter at j, of argument x.
Converted(i, j, x) ==
  LET fill == IF text[i + 1] = "0" THEN "0" ELSE " "
      width == WidthAt(j - 1)
  IN  CASE text[j] = "%" -> <<"%">>
        [] text[j] = "c" -> <<x>>
        [] text[j] = "s" -> Fill(" ", x, width)
        [] text[j] = "d" -> Fill(fill, Signed(x), width)
        [] text[j] = "u" -> Fill(fill, Numeral(x, 10, Lower), width)
        [] text[j] = "x" -> Fill(fill, Numeral(x, 16, Lower), width)
        [] text[j] = "X" -> Fill(fill, Numeral(x, 16, Upper), width)

\* The text up to next, the first arguments being taken for the conversions in
\* it, and from it one character or conversion further.
Beyond(r) ==
  LET i == r.next
      j == Letter(i)
      k == IF At(j) \in Taking THEN r.taken + 1 ELSE r.taken
  IN  IF i > Len(text) THEN r
      ELSE IF text[i] # "%"
        THEN [next |-> i + 1, taken |-> r.taken, sent |-> r.sent \o Sent(<<text[i]>>)]
      ELSE IF At(j) \notin Taking \union {"%"}
        THEN [next |-> j + 1, taken |-> r.taken, sent |-> r.sent]
      ELSE IF k > Len(given)
        THEN [next |-> j + 1, taken |-> k, sent |-> <<NUL>>]
      ELSE [next |-> j + 1, taken |-> k,
            sent |-> r.sent \o Sent(Converted(i, j, IF k > r.taken THEN given[k] ELSE NUL))]

\* The whole text.
Rendered ==
  LET at[n \in 0 .. Len(text)] ==
        IF n = 0 THEN [next |-> 1, taken |-> 0, sent |-> <<>>] ELSE Beyond(at[n - 1])
  IN  at[Len(text)].sent

\* Every width in the text is the value of an int, and none has a letter behind
\* it whose value is the base.
Understood ==
  \A i \in DOMAIN text : \A j \in i + 1 .. Len(text) :
    (text[i] = "%" /\ \A k \in i + 1 .. j : text[k] \in Decimal) =>
      WidthAt(j) < Modulus \div 2 /\ At(j + 1) \notin {"a", "A"}

\* The output of a text that is Understood is the text with each conversion
\* replaced by its argument: the numbers' values, no leading zero but the
\* padding asked for, widths that end at the letter though `c' and `d' are
\* digits too, `\n' with its `\r' on the wire (printf.cpp:63-204, 223-245,
\* kernel.cpp:40-46, uart.cpp:68-84); strlen and streq tell the length and the
\* equality (libk.cpp:4-24).
OutputIsFormatted ==
  (pc = "done" /\ (call \in {"printf_no_lock", "sprintf"} => Understood)) =>
    out = CASE call = "sprintf" -> Append(Rendered, NUL)
            [] call = "printf_no_lock" -> Rendered
            [] call = "uart_puts" -> text
            [] call = "uart_hex" ->
                 LET n == Numeral(num, 16, Upper)
                     width == Len(Numeral(Modulus - 1, 16, Upper))
                 IN  Fill("0", n, width)
            [] call = "strlen" -> <<Len(text)>>
            [] call = "streq" -> <<text = given[1]>>
=============================================================================
