---------------------------- MODULE FormatProof ----------------------------
(***************************************************************************)
(* For every format text, every word width and every argument: tfp_format  *)
(* never reads behind the text's NUL, ui2a's divisor never wraps, bf is    *)
(* large enough, and what is printed is what the text means.               *)
(***************************************************************************)
EXTENDS Format, Numbers

-----------------------------------------------------------------------------
(***************************************************************************)
(* Where the functions are, and what they have read.                       *)
(***************************************************************************)

\* The functions that format, and the places of the others.
Formats == call \in {"printf_no_lock", "sprintf"}

CallInv ==
  /\ Formats => pc \notin {"puts", "hex", "strlen", "streq"}
  /\ call = "uart_puts" => pc \in {"puts", "done"}
  /\ call = "uart_hex" => pc \in {"hex", "done"}
  /\ call = "strlen" => pc \in {"strlen", "done"}
  /\ call = "streq" => pc \in {"streq", "done"}
  /\ call = "streq" => given[1] \in Strings
  /\ given \in Seq(Characters \union Strings \union Words)

\* Where the next character to read is, and that what is known of the one
\* read last is still so: a step that goes on to the text has seen that the
\* last one was not the NUL.
Reading ==
  /\ fmt <= Len(text) + 2
  /\ pc \in {"text", "flag", "zero", "puts", "grow", "digits", "strlen"} =>
       fmt <= Len(text) + 1
  /\ pc \in {"width", "convert"} => fmt >= 2 /\ ch = At(fmt - 1)
  /\ call = "streq" => fmt <= Len(text) + 1 /\ fmt <= Len(given[1]) + 1

IInv == TypeOK /\ CallInv /\ Reading /\ DivisorNeverWraps

\* a2d's values are those of a hexadecimal digit, or -1.
LEMMA A2DType == ASSUME NEW c PROVE A2D(c) \in -1 .. 15
<1>1. CASE \E k \in 1 .. 16 : c \in {Lower[k], Upper[k]}
  <2> DEFINE k == CHOOSE k \in 1 .. 16 : c \in {Lower[k], Upper[k]}
  <2>1. k \in 1 .. 16
    BY <1>1
  <2>2. A2D(c) = k - 1
    BY <1>1 DEF A2D
  <2> QED
    BY <2>1, <2>2
<1>2. CASE ~ \E k \in 1 .. 16 : c \in {Lower[k], Upper[k]}
  BY <1>2 DEF A2D
<1> QED
  BY <1>1, <1>2

\* A number that still has b times the divisor in it holds b times the divisor.
LEMMA QuotientBound ==
  ASSUME NEW n \in Nat, NEW m \in Nat, m >= 1, NEW b \in Nat, n \div m >= b
  PROVE  m * b <= n
<1>1. PICK q \in Nat, r \in Nat : n \div m = q /\ n = m * q + r
  <2>1. n = m * (n \div m) + (n % m) /\ n % m \in Nat /\ n \div m \in Nat
    OBVIOUS
  <2> QED
    BY <2>1
<1>2. PICK e \in Nat : q = b + e
  <2>1. q >= b /\ q - b \in Nat /\ q = b + (q - b)
    BY <1>1
  <2> QED
    BY <2>1
<1>3. m * q = m * b + m * e
  BY <1>2
<1>4. m * e \in Nat /\ m * b \in Nat
  OBVIOUS
<1> QED
  BY <1>1, <1>3, <1>4

\* A word is some tetrads wide.
LEMMA Tetrads ==
  \E t \in Nat : /\ t >= 1 /\ Modulus = Power(16, t + 1) /\ Modulus \div 16 = Power(16, t)
                       /\ Modulus \div 16 \in 1 .. Modulus - 1
                       /\ Modulus \in Nat /\ Modulus >= 32
                       /\ Modulus \div 2 \in Nat /\ Modulus = 2 * (Modulus \div 2)
<1>1. PICK k \in 2 .. BufferSize : Modulus = Power(16, k)
  BY FormatAssumption DEF FormatAssumption
<1>2. /\ k - 1 \in Nat /\ k - 2 \in Nat /\ k - 1 + 1 = k /\ k - 2 + 1 = k - 1
      /\ 16 \in Nat /\ k - 1 >= 1
  OBVIOUS
<1>3. /\ Power(16, k - 1 + 1) = 16 * Power(16, k - 1) /\ Power(16, k - 1) \in Nat
      /\ Power(16, k - 2 + 1) = 16 * Power(16, k - 2) /\ Power(16, k - 2) \in Nat
  BY <1>2, PowerLaws
<1>4. 1 <= Power(16, k - 2)
  BY <1>2, PowersGrow
<1> DEFINE a == Power(16, k - 2)
           b == Power(16, k - 1)
<1>5. a \in Nat /\ a >= 1 /\ b = 16 * a /\ Modulus = 16 * b /\ Modulus = Power(16, k - 1 + 1)
  BY <1>1, <1>2, <1>3, <1>4
<1> HIDE DEF a
<1>6. Modulus \div 16 = b /\ b \in 1 .. Modulus - 1 /\ Modulus \in Nat /\ Modulus >= 32
  BY <1>5
<1>7. Modulus \div 2 \in Nat /\ Modulus = 2 * (Modulus \div 2)
  BY <1>5
<1> QED
  BY <1>2, <1>5, <1>6, <1>7

\* An int keeps what fits, and what does not becomes an int.
LEMMA IntLaws ==
  ASSUME NEW n \in Int
  PROVE  /\ AsInt(n) \in AnInt
         /\ 0 <= n /\ n < Modulus \div 2 => AsInt(n) = n
<1>1. PICK m, h : /\ m = Modulus /\ h = Modulus \div 2
                  /\ m \in Nat /\ m >= 32 /\ h \in Nat /\ m = 2 * h
  BY Tetrads
<1>2. n % m \in 0 .. m - 1
  BY <1>1
<1>3. 0 <= n /\ n < h => n % m = n
  BY <1>1
<1>4. AsInt(n) = IF n % m < h THEN n % m ELSE (n % m) - m
  BY <1>1 DEF AsInt
<1>5. AsInt(n) \in -h .. h - 1
  BY <1>1, <1>2, <1>4
<1> QED
  BY <1>1, <1>2, <1>3, <1>4, <1>5 DEF AnInt

\* The inductive invariant holds at the start,
LEMMA InitInv == Init => IInv
<1> SUFFICES ASSUME Init PROVE IInv
  OBVIOUS
<1> USE FormatAssumption DEF Init, InitCommon, InitFormat, InitPuts, InitHex, InitStrlen, InitStreq
<1>1. TypeOK
  <2>1. Modulus \div 16 \in 0 .. Modulus - 1 /\ 0 \in 0 .. Modulus - 1
    <3>1. PICK m, s : /\ m = Modulus /\ s = Modulus \div 16
                      /\ m \in Nat /\ s \in 1 .. m - 1
      BY ONLY Tetrads
    <3>2. s \in 0 .. m - 1 /\ 0 \in 0 .. m - 1
      BY ONLY <3>1
    <3> QED
      BY ONLY <3>1, <3>2
  <2>2. \A n \in Words : n \in 0 .. Modulus - 1
    BY DEF FormatAssumption
  <2>3. num \in 0 .. Modulus - 1 /\ d \in 0 .. Modulus - 1
    BY <2>1, <2>2
  <2>4. w \in AnInt
    <3>1. PICK h : h = Modulus \div 2 /\ h \in Nat /\ h >= 1
      BY ONLY Tetrads
    <3>2. 0 \in -h .. h - 1
      BY ONLY <3>1
    <3>3. 0 \in AnInt
      BY ONLY <3>1, <3>2 DEF AnInt
    <3>4. w = 0
      OBVIOUS
    <3> QED
      BY ONLY <3>3, <3>4
  <2> QED
    BY <2>3, <2>4 DEF TypeOK, Place, FormatAssumption
<1>2. CallInv /\ Reading
  <2>1. text \in Seq(STRING) /\ Len(text) \in Nat
    BY DEF FormatAssumption
  <2>2. CASE call # "streq"
    BY <2>1, <2>2 DEF CallInv, Formats, Reading
  <2>3. CASE call = "streq"
    <3>1. PICK b \in Strings : given = <<b>> /\ pc = "streq" /\ call = "streq"
      BY <2>3
    <3>2. b \in Seq(STRING) /\ Len(b) \in Nat /\ given[1] = b
      BY <3>1 DEF FormatAssumption
    <3> QED
      BY <2>1, <3>1, <3>2 DEF CallInv, Formats, Reading
  <2> QED
    BY <2>2, <2>3
<1>3. DivisorNeverWraps
  BY DEF DivisorNeverWraps
<1> QED
  BY <1>1, <1>2, <1>3 DEF IInv

\* and every step keeps it.
LEMMA NextInv == IInv /\ [Next]_vars => IInv'
<1> SUFFICES ASSUME IInv, [Next]_vars PROVE IInv'
  OBVIOUS
<1> USE DEF field, number
<1>1. text \in Seq(STRING) /\ Len(text) \in Nat /\ text' = text /\ Len(text') = Len(text)
  <2>1. text \in Seq(STRING) /\ Len(text) \in Nat
    BY FormatAssumption DEF IInv, TypeOK, FormatAssumption
  <2>2. text' = text
    BY DEF Next, Plain, EndOfText, Percent, Flag, Zero, Width, Abort, ConvertPercent,
           ConvertOther, ConvertCharacter, ConvertString, ConvertNumber, GrowDivisor,
           WriteDigit, PutNumber, UartPuts, UartHex, Strlen, Streq, Returned, vars
  <2> QED
    BY <2>1, <2>2
<1>2. \A i \in Nat : At(i) # NUL => i <= Len(text)
  BY <1>1 DEF At, CharAt
<1>3. fmt \in Nat /\ fmt >= 1
  BY DEF IInv, TypeOK
<1>4. fmt' = fmt => At(fmt - 1)' = At(fmt - 1)
  BY <1>1 DEF At, CharAt
<1>5. fmt' = fmt + 1 => At(fmt - 1)' = At(fmt)
  <2>1. SUFFICES ASSUME fmt' = fmt + 1 PROVE fmt' - 1 = fmt
    BY <1>1 DEF At, CharAt
  <2> QED
    BY <2>1, <1>3
<1>6. /\ Modulus \in Nat /\ Modulus >= 32
      /\ NUL \notin {"%", "0", "c", "s", "d", "u", "x", "X"} \union Decimal
  BY FormatAssumption, Tetrads DEF FormatAssumption, Decimal
<1>a. 0 \in AnInt
  BY Tetrads DEF AnInt
<1>7. CASE Plain
  BY <1>7, <1>6, <1>1, <1>2, <1>4, <1>5, <1>3
     DEF Plain, IInv, TypeOK, CallInv, Formats, Reading, DivisorNeverWraps, Place
<1>8. CASE EndOfText
  BY <1>8, <1>6, <1>1, <1>2, <1>4, <1>5, <1>3
     DEF EndOfText, Return, IInv, TypeOK, CallInv, Formats, Reading, DivisorNeverWraps, Place
<1>9. CASE Percent
  BY <1>9, <1>a, <1>6, <1>1, <1>2, <1>4, <1>5, <1>3
     DEF Percent, IInv, TypeOK, CallInv, Formats, Reading, DivisorNeverWraps, Place
<1>10. CASE Flag
  BY <1>10, <1>6, <1>1, <1>2, <1>4, <1>5, <1>3
     DEF Flag, ReadField, IInv, TypeOK, CallInv, Formats, Reading, DivisorNeverWraps, Place
<1>11. CASE Zero
  BY <1>11, <1>6, <1>1, <1>2, <1>4, <1>5, <1>3
     DEF Zero, ReadField, IInv, TypeOK, CallInv, Formats, Reading, DivisorNeverWraps, Place
<1>12. CASE Width
  <2>1. CASE InWidth(ch)
    <3>1. A2D(ch) \in Nat /\ ch # NUL
      BY <2>1, A2DType, NulIsNoDigit DEF InWidth
    <3>2. w' \in AnInt
      <4>1. w * 10 + A2D(ch) \in Int
        BY <3>1, <1>6 DEF IInv, TypeOK, AnInt
      <4> QED
        BY <4>1, <2>1, <1>12, IntLaws DEF Width
    <3>3. fmt <= Len(text) + 1
      BY <3>1, <1>12, <1>1, <1>2, <1>3 DEF Width, IInv, Reading
    <3> QED
      BY <3>2, <3>3, <2>1, <1>12, <1>6, <1>1, <1>5, <1>3
         DEF Width, IInv, TypeOK, CallInv, Formats, Reading, DivisorNeverWraps, Place
  <2>2. CASE ~InWidth(ch)
    BY <2>2, <1>12, <1>6, <1>1, <1>4, <1>3
       DEF Width, IInv, TypeOK, CallInv, Formats, Reading, DivisorNeverWraps, Place
  <2> QED
    BY <2>1, <2>2
<1>13. CASE Abort \/ ConvertPercent \/ ConvertOther
  <2>1. /\ pc = "convert" /\ pc' \in {"done", "text"} /\ (pc' = "text" => ch # NUL)
        /\ UNCHANGED <<call, text, fmt, ch, field, number, given>>
    BY <1>13, <1>6 DEF Abort, Return, ConvertPercent, ConvertOther
  <2> QED
    BY <2>1, <1>6, <1>1, <1>2, <1>4, <1>3
       DEF IInv, TypeOK, CallInv, Formats, Reading, DivisorNeverWraps, Place
<1>14. ASSUME NEW x \in Characters \union Strings, ConvertCharacter(x) \/ ConvertString(x)
       PROVE  IInv'
  <2>1. /\ pc = "convert" /\ pc' = "text" /\ ch # NUL /\ given' = Append(given, x)
        /\ UNCHANGED <<call, text, fmt, ch, field, number>>
    BY <1>14, <1>6 DEF ConvertCharacter, ConvertString
  <2>2. given' \in Seq(Characters \union Strings \union Words)
    BY <2>1 DEF IInv, CallInv
  <2>3. CallInv'
    BY <2>1, <2>2 DEF IInv, CallInv, Formats
  <2> QED
    BY <2>1, <2>3, <1>6, <1>1, <1>2, <1>4, <1>3
       DEF IInv, TypeOK, CallInv, Formats, Reading, DivisorNeverWraps, Place
<1>15. ASSUME NEW n \in Words, ConvertNumber(n) PROVE IInv'
  <2>1. n \in 0 .. Modulus - 1
    BY FormatAssumption DEF FormatAssumption
  <2>2. num' \in 0 .. Modulus - 1
    <3>1. CASE Negative(n)
      <4>1. n # 0
        BY <3>1, <1>6 DEF Negative
      <4> QED
        BY <4>1, <3>1, <2>1, <1>6, <1>15 DEF ConvertNumber
    <3>2. CASE ~Negative(n)
      BY <3>2, <2>1, <1>15 DEF ConvertNumber
    <3> QED
      BY <3>1, <3>2
  <2> QED
    BY <1>15, <2>2, <1>6, <1>1, <1>2, <1>4, <1>5, <1>3
       DEF ConvertNumber, IInv, TypeOK, CallInv, Formats, Reading, DivisorNeverWraps, Place
<1>16. CASE GrowDivisor
  <2>1. CASE Grows
    <3>1. d \in 1 .. Modulus - 1 /\ num \in 0 .. Modulus - 1
      BY <1>16, <1>6 DEF GrowDivisor, IInv, TypeOK, DivisorNeverWraps
    <3>2. Base \in {10, 16}
      BY DEF Base
    <3>3. d * Base <= num
      BY <3>1, <3>2, <2>1, <1>6, QuotientBound DEF Grows
    <3>4. d * Base \in 1 .. num
      BY <3>1, <3>2, <3>3
    <3>5. d' = d * Base
      BY <3>4, <3>1, <2>1, <1>16, <1>6 DEF GrowDivisor
    <3> QED
      BY <3>4, <3>5, <3>1, <2>1, <1>16, <1>6, <1>1, <1>2, <1>4, <1>5, <1>3
         DEF GrowDivisor, IInv, TypeOK, CallInv, Formats, Reading, DivisorNeverWraps, Place
  <2>2. CASE ~Grows
    BY <2>2, <1>16, <1>6, <1>1, <1>2, <1>4, <1>5, <1>3
       DEF GrowDivisor, IInv, TypeOK, CallInv, Formats, Reading, DivisorNeverWraps, Place
  <2> QED
    BY <2>1, <2>2
<1>17. CASE WriteDigit
  <2>1. num' \in 0 .. Modulus - 1 /\ d' \in 0 .. Modulus - 1
    BY <1>17, <1>6 DEF WriteDigit, Base, IInv, TypeOK
  <2> QED
    BY <2>1, <1>17, <1>6, <1>1, <1>2, <1>4, <1>5, <1>3
       DEF WriteDigit, IInv, TypeOK, CallInv, Formats, Reading, DivisorNeverWraps, Place
<1>18. CASE PutNumber
  BY <1>18, <1>6, <1>1, <1>2, <1>4, <1>5, <1>3
     DEF PutNumber, IInv, TypeOK, CallInv, Formats, Reading, DivisorNeverWraps, Place
<1>19. CASE UartPuts
  BY <1>19, <1>6, <1>1, <1>2, <1>4, <1>5, <1>3
     DEF UartPuts, IInv, TypeOK, CallInv, Formats, Reading, DivisorNeverWraps, Place
<1>20. CASE UartHex
  <2>1. d' \in 0 .. Modulus - 1
    BY <1>20, <1>6 DEF UartHex, IInv, TypeOK
  <2> QED
    BY <2>1, <1>20, <1>6, <1>1, <1>2, <1>4, <1>5, <1>3
       DEF UartHex, IInv, TypeOK, CallInv, Formats, Reading, DivisorNeverWraps, Place
<1>21. CASE Returned \/ UNCHANGED vars
  BY <1>21, <1>1, <1>4
     DEF Returned, vars, IInv, TypeOK, CallInv, Formats, Reading, DivisorNeverWraps, Place
<1>22. CASE Strlen
  BY <1>22, <1>6, <1>1, <1>2, <1>4, <1>5, <1>3
     DEF Strlen, IInv, TypeOK, CallInv, Formats, Reading, DivisorNeverWraps, Place
<1>23. CASE Streq
  BY <1>23, <1>6, <1>1, <1>2, <1>4, <1>5, <1>3, SMTT(30)
     DEF Streq, CharAt, IInv, TypeOK, CallInv, Formats, Reading, DivisorNeverWraps, Place
<1> QED
  BY <1>7, <1>8, <1>9, <1>10, <1>11, <1>12, <1>13, <1>14, <1>15, <1>16, <1>17, <1>18,
     <1>19, <1>20, <1>21, <1>22, <1>23 DEF Next

-----------------------------------------------------------------------------
(***************************************************************************)
(* Digits: what a word's numeral is, and what one division gives of it.    *)
(***************************************************************************)

\* n has m + 1 digits to the base b.
HasDigits(n, b, m) == n < Power(b, m + 1) /\ (m = 0 \/ Power(b, m) <= n)

\* The digit of the weight b to the k in n.
DigitAt(n, b, k, digit) == digit[((n \div Power(b, k)) % b) + 1]

\* A word is below the power bf is made for.
LEMMA WordsFit ==
  ASSUME NEW b \in {10, 16}
  PROVE  /\ Modulus <= Power(b, BufferSize - 2)
         /\ BufferSize \in Nat /\ BufferSize - 2 \in Nat /\ Modulus \in Nat
<1>1. /\ Modulus \in Nat /\ BufferSize \in Nat /\ BufferSize - 2 \in Nat
      /\ Modulus <= Power(10, BufferSize - 2)
  BY FormatAssumption DEF FormatAssumption
<1>2. /\ Power(10, BufferSize - 2) <= Power(16, BufferSize - 2)
      /\ Power(10, BufferSize - 2) \in Nat /\ Power(16, BufferSize - 2) \in Nat
  <2>1. 10 \in Nat /\ 16 \in Nat
    OBVIOUS
  <2> QED
    BY <1>1, <2>1, PowersOfTen, PowerLaws
<1> QED
  BY <1>1, <1>2

\* Every word has some number of digits.
LEMMA DigitsExist ==
  ASSUME NEW b \in {10, 16}, NEW n \in 0 .. Modulus - 1
  PROVE  \E m \in Nat : HasDigits(n, b, m)
<1>1. /\ b \in Nat /\ b >= 1 /\ n \in Nat /\ BufferSize \in Nat /\ BufferSize - 2 \in Nat
      /\ n < Power(b, BufferSize - 2)
      /\ \A k \in Nat : Power(b, k) \in Nat
  <2>1. b \in Nat /\ b >= 1 /\ n \in Nat
    OBVIOUS
  <2>2. \A k \in Nat : Power(b, k) \in Nat
    BY <2>1, PowerLaws
  <2> QED
    BY <2>1, <2>2, WordsFit
<1> DEFINE S == {k \in Nat : n < Power(b, k + 1)}
<1>2. BufferSize - 2 \in S
  <2>1. BufferSize - 2 + 1 \in Nat /\ BufferSize - 2 <= BufferSize - 2 + 1
    BY <1>1
  <2>2. Power(b, BufferSize - 2) <= Power(b, BufferSize - 2 + 1)
    BY <1>1, <2>1, PowersGrow
  <2>3. Power(b, BufferSize - 2 + 1) \in Nat /\ Power(b, BufferSize - 2) \in Nat
    BY <1>1, <2>1
  <2> QED
    BY <1>1, <2>2, <2>3
<1> HIDE DEF S
<1>3. S \subseteq Nat /\ S # {}
  BY <1>2 DEF S
<1>4. PICK m \in S : \A k \in S : m <= k
  BY <1>3, LeastOf
<1>5. m \in Nat /\ n < Power(b, m + 1)
  BY <1>4 DEF S
<1>6. m = 0 \/ Power(b, m) <= n
  <2> SUFFICES ASSUME m # 0, n < Power(b, m) PROVE FALSE
    BY <1>1, <1>5
  <2>1. m - 1 \in Nat /\ m - 1 + 1 = m
    BY <1>5
  <2>2. m - 1 \in S
    BY <2>1 DEF S
  <2> QED
    BY <2>2, <1>4, <1>5
<1> QED
  BY <1>5, <1>6 DEF HasDigits

\* A word's numeral, once the number of its digits is known, and its length.
LEMMA NumeralIs ==
  ASSUME NEW b \in {10, 16}, NEW n \in 0 .. Modulus - 1, NEW m \in Nat,
         HasDigits(n, b, m), NEW digit
  PROVE  /\ m + 1 <= BufferSize - 2
         /\ Numeral(n, b, digit) = [i \in 1 .. m + 1 |-> DigitAt(n, b, m + 1 - i, digit)]
<1>1. /\ b \in Nat /\ b >= 1 /\ n \in Nat /\ BufferSize \in Nat /\ BufferSize - 2 \in Nat
      /\ n < Power(b, BufferSize - 2)
      /\ \A k \in Nat : Power(b, k) \in Nat
      /\ Power(b, 0) = 1
  <2>1. b \in Nat /\ b >= 1 /\ n \in Nat
    OBVIOUS
  <2>2. Power(b, 0) = 1 /\ \A k \in Nat : Power(b, k) \in Nat
    BY <2>1, PowerLaws
  <2> QED
    BY <2>1, <2>2, WordsFit
<1>2. n < Power(b, m + 1) /\ (m = 0 \/ Power(b, m) <= n)
  BY DEF HasDigits
<1>3. \A k \in Nat : n < Power(b, k) /\ k >= 1 => m + 1 <= k
  <2> SUFFICES ASSUME NEW k \in Nat, n < Power(b, k), k >= 1, k <= m PROVE FALSE
    OBVIOUS
  <2>1. Power(b, k) <= Power(b, m)
    BY <1>1, PowersGrow
  <2>2. Power(b, m) <= n
    BY <1>2
  <2>3. Power(b, k) \in Nat /\ Power(b, m) \in Nat
    BY <1>1
  <2> QED
    BY <2>1, <2>2, <2>3, <1>1
<1>4. BufferSize - 2 >= 1
  <2>1. Modulus >= 2
    <3>1. PICK t \in 2 .. BufferSize : Modulus = Power(16, t)
      BY FormatAssumption DEF FormatAssumption
    <3>2. t - 1 \in Nat /\ t - 1 + 1 = t /\ 16 \in Nat /\ 0 \in Nat /\ 0 <= t - 1 /\ 16 >= 1
      OBVIOUS
    <3>3. Power(16, t) = 16 * Power(16, t - 1) /\ Power(16, t - 1) \in Nat
      BY <3>2, PowerLaws, ZenonT(60)
    <3>4. 1 <= Power(16, t - 1)
      BY <3>2, PowersGrow
    <3> QED
      BY <3>1, <3>3, <3>4
  <2>2. Modulus <= Power(b, BufferSize - 2) /\ Modulus \in Nat
    BY WordsFit
  <2>3. BufferSize - 2 # 0
    <3> SUFFICES ASSUME BufferSize - 2 = 0 PROVE FALSE
      OBVIOUS
    <3>1. Power(b, BufferSize - 2) = 1
      BY <1>1
    <3> QED
      BY <3>1, <2>1, <2>2
  <2> QED
    BY <2>3, <1>1
<1>5. m + 1 <= BufferSize - 2
  BY <1>1, <1>3, <1>4
<1> DEFINE S == {k \in 1 .. BufferSize : n < Power(b, k)}
<1>6. Min(S) = m + 1
  <2>1. m + 1 \in S
    BY <1>2, <1>5, <1>1
  <2>2. \A k \in S : m + 1 <= k
    BY <1>3
  <2>3. \A k \in S : k \in Nat
    OBVIOUS
  <2> HIDE DEF S
  <2>4. Min(S) \in S /\ \A k \in S : Min(S) <= k
    BY <2>1, <2>2 DEF Min
  <2> QED
    BY <2>1, <2>2, <2>3, <2>4
<1>7. Numeral(n, b, digit) =
        [i \in 1 .. m + 1 |-> digit[((n \div Power(b, m + 1 - i)) % b) + 1]]
  <2> HIDE DEF S
  <2>1. \A k : k = Min(S) => Numeral(n, b, digit) =
                  [i \in 1 .. k |-> digit[((n \div Power(b, k - i)) % b) + 1]]
    BY DEF Numeral, S
  <2> QED
    BY <2>1, <1>6
<1> QED
  BY <1>5, <1>7 DEF DigitAt

\* What is left of n when its digits but the last r are divided off.
Rest(n, b, r, q, x) == n = Power(b, r) * q + x /\ x < Power(b, r)

\* One division gives the next digit, and leaves a number below the divisor.
LEMMA NextDigit ==
  ASSUME NEW b \in {10, 16}, NEW r1 \in Nat, r1 # 0, NEW n \in Nat, NEW q \in Nat, NEW x \in Nat,
         Rest(n, b, r1, q, x), NEW p, p = Power(b, r1 - 1)
  PROVE  /\ x \div p \in 0 .. b - 1 /\ (n \div p) % b = x \div p
         /\ x % p \in Nat /\ x % p < p
         /\ Rest(n, b, r1 - 1, b * q + (x \div p), x % p)
         /\ p \div b = IF r1 - 1 = 0 THEN 0 ELSE Power(b, r1 - 1 - 1)
<1>1. PICK r \in Nat : r1 = r + 1
  <2>1. r1 - 1 \in Nat /\ r1 = r1 - 1 + 1
    OBVIOUS
  <2> QED
    BY <2>1
<1>2. r1 - 1 = r
  BY <1>1
<1>3. n = Power(b, r + 1) * q + x /\ x < Power(b, r + 1) /\ p = Power(b, r)
  BY <1>1, <1>2 DEF Rest
<1>4. b \in Nat /\ b >= 1
  OBVIOUS
<1>5. p \in Nat /\ Power(b, r + 1) = b * p /\ Power(b, 0) = 1
  BY <1>4, <1>3, PowerLaws
<1>6. p >= 1
  <2>1. r <= r
    OBVIOUS
  <2> QED
    BY <1>4, <1>3, <2>1, PowersGrow
<1> DEFINE g == x \div p
           rest == x % p
<1>7. g \in Nat /\ rest \in Nat /\ rest < p /\ x = p * g + rest
  BY <1>5, <1>6
<1> HIDE DEF g, rest
<1>8. g < b
  <2> SUFFICES ASSUME b <= g PROVE FALSE
    BY <1>4, <1>7
  <2>1. p * b <= p * g
    BY <1>4, <1>5, <1>6, <1>7, FactorsInOrder
  <2>2. p * b = b * p /\ p * g \in Nat /\ b * p \in Nat
    BY <1>4, <1>5, <1>7
  <2> QED
    BY <2>1, <2>2, <1>5, <1>7, <1>3
<1>9. n = p * (b * q + g) + rest
  <2>1. b * p * q = p * (b * q)
    BY <1>4, <1>5
  <2>2. p * (b * q + g) = p * (b * q) + p * g
    BY <1>4, <1>5, <1>7
  <2>3. b * p * q \in Nat /\ p * g \in Nat
    BY <1>4, <1>5, <1>7
  <2> QED
    BY <2>1, <2>2, <2>3, <1>5, <1>7, <1>3
<1>10. n \div p = b * q + g
  <2>1. b * q + g \in Nat /\ p * (b * q + g) \in Nat
    BY <1>4, <1>5, <1>7
  <2>2. p * (b * q + g) <= n /\ n < p * (b * q + g) + p
    BY <2>1, <1>7, <1>9, <1>5
  <2> QED
    BY <2>1, <2>2, <1>5, <1>6, QuotientIs
<1>11. (b * q + g) % b = g
  <2>1. CASE b = 10
    BY <2>1, <1>7, <1>8
  <2>2. CASE b = 16
    BY <2>2, <1>7, <1>8
  <2> QED
    BY <2>1, <2>2
<1>12. p \div b = IF r = 0 THEN 0 ELSE Power(b, r - 1)
  <2>1. CASE r = 0
    BY <2>1, <1>5, <1>3
  <2>2. CASE r # 0
    <3>1. r - 1 \in Nat /\ r - 1 + 1 = r
      BY <2>2
    <3>2. p = b * Power(b, r - 1) /\ Power(b, r - 1) \in Nat
      <4>1. Power(b, r - 1 + 1) = b * Power(b, r - 1) /\ Power(b, r - 1) \in Nat
        BY <3>1, <1>4, PowerLaws
      <4> QED
        BY <4>1, <3>1, <1>3
    <3> QED
      BY <2>2, <3>2
  <2> QED
    BY <2>1, <2>2
<1> QED
  BY <1>7, <1>8, <1>9, <1>10, <1>11, <1>12, <1>2, <1>3 DEF g, rest, Rest

-----------------------------------------------------------------------------
(***************************************************************************)
(* ui2a and i2a: bf holds the sign and the first digits.                   *)
(***************************************************************************)

\* The number taken last, its value without the sign, and what it is written with.
Argument == given[Len(given)]
Magnitude == IF Negative(Argument) THEN Modulus - Argument ELSE Argument
Sign == IF Negative(Argument) THEN <<"-">> ELSE <<>>
Digits == IF ch = "X" THEN Upper ELSE Lower

\* The sign and the first of a number's m + 1 digits, all but the last r.
Leading(s, n, b, m, r, digit) ==
  s \o [i \in 1 .. m + 1 - r |-> DigitAt(n, b, m + 1 - i, digit)]

\* The divisor is a power of the base and not above the number.
GrowInv ==
  /\ num = Magnitude /\ bf = Sign
  /\ \E m \in Nat : d = Power(Base, m) /\ (m = 0 \/ Power(Base, m) <= num)

\* The last r digits are still to be written.
DigitsInv ==
  \E m \in Nat, r \in Nat, q \in Nat :
    /\ HasDigits(Magnitude, Base, m) /\ r <= m + 1
    /\ Rest(Magnitude, Base, r, q, num)
    /\ d = IF r = 0 THEN 0 ELSE Power(Base, r - 1)
    /\ bf = Leading(Sign, Magnitude, Base, m, r, Digits)

\* What bf holds of the number, and that it has room for it.
NumberInv ==
  /\ Len(bf) < BufferSize
  /\ pc \in {"grow", "digits"} =>
       /\ ch \in {"u", "d", "x", "X"} /\ given # <<>>
       /\ Argument \in 0 .. Modulus - 1 /\ Magnitude \in 0 .. Modulus - 1
  /\ pc = "grow" => GrowInv
  /\ pc = "digits" => DigitsInv

\* A base.
LEMMA BaseType == Base \in {10, 16} /\ Base \in Nat /\ Base >= 1
BY DEF Base

\* What bf may hold.
Glyph == {"-"} \union {Lower[k] : k \in 1 .. 16} \union {Upper[k] : k \in 1 .. 16}

\* A digit is not the sign.
LEMMA DigitIsNoSign ==
  ASSUME NEW g \in 0 .. 15
  PROVE  Digits[g + 1] # "-" /\ Digits[g + 1] = DigitChar(g) /\ Digits[g + 1] \in Glyph
<1>1. g \in {0, 1, 2, 3, 4, 5, 6, 7} \/ g \in {8, 9, 10, 11, 12, 13, 14, 15}
  OBVIOUS
<1>2. Lower[g + 1] # "-"
  <2>1. CASE g \in {0, 1, 2, 3, 4, 5, 6, 7}
    BY <2>1 DEF Lower
  <2>2. CASE g \in {8, 9, 10, 11, 12, 13, 14, 15}
    BY <2>2 DEF Lower
  <2> QED
    BY <1>1, <2>1, <2>2
<1>3. Upper[g + 1] # "-"
  <2>1. CASE g \in {0, 1, 2, 3, 4, 5, 6, 7}
    BY <2>1 DEF Upper
  <2>2. CASE g \in {8, 9, 10, 11, 12, 13, 14, 15}
    BY <2>2 DEF Upper
  <2> QED
    BY <1>1, <2>1, <2>2
<1>4. g + 1 \in 1 .. 16
  OBVIOUS
<1>5. Lower[g + 1] \in Glyph /\ Upper[g + 1] \in Glyph
  BY <1>4 DEF Glyph
<1> QED
  BY <1>2, <1>3, <1>5 DEF Digits, DigitChar

\* What a number's characters are together, and how many.
LEMMA SignedDigits ==
  ASSUME NEW s, s \in {<<>>, <<"-">>}, NEW k \in Nat, NEW f, f \in [1 .. k -> Glyph]
  PROVE  /\ f \in Seq(Glyph) /\ Len(f) = k /\ s \o f \in Seq(Glyph)
         /\ Len(s \o f) = Len(s) + k /\ Len(s) \in {0, 1} /\ s \in Seq(Glyph)
<1>1. f \in Seq(Glyph) /\ Len(f) = k
  OBVIOUS
<1>2. s \in Seq(Glyph) /\ Len(s) \in {0, 1}
  <2>1. CASE s = <<>>
    BY <2>1
  <2>2. CASE s = <<"-">>
    <3>1. "-" \in Glyph
      BY DEF Glyph
    <3> QED
      BY <2>2, <3>1
  <2> QED
    BY <2>1, <2>2
<1>3. s \o f \in Seq(Glyph) /\ Len(s \o f) = Len(s) + Len(f)
  BY <1>1, <1>2
<1> QED
  BY <1>1, <1>2, <1>3

\* The step of ConvertNumber.
LEMMA StartsNumber ==
  ASSUME IInv, NumberInv, NEW n \in Words, ConvertNumber(n)
  PROVE  NumberInv'
<1>1. /\ n \in 0 .. Modulus - 1 /\ Modulus \in Nat /\ Modulus >= 32
      /\ BufferSize \in Nat /\ BufferSize >= 2
  BY FormatAssumption, Tetrads DEF FormatAssumption
<1>2. /\ pc' = "grow" /\ ch' = ch /\ ch \in {"u", "d", "x", "X"} /\ d' = 1
      /\ given' = Append(given, n)
      /\ num' = IF Negative(n) THEN Modulus - n ELSE n
      /\ bf' = IF Negative(n) THEN <<"-">> ELSE <<>>
  BY DEF ConvertNumber
<1>3. given' # <<>> /\ given'[Len(given')] = n
  <2>1. given \in Seq(Characters \union Strings \union Words)
    BY DEF IInv, CallInv
  <2> QED
    BY <2>1, <1>2
<1>4. Argument' = n /\ Negative(Argument)' = Negative(n) /\ Base' = Base
  BY <1>2, <1>3 DEF Argument, Negative, Base
<1>5. Magnitude' = num' /\ Sign' = bf'
  BY <1>2, <1>4 DEF Magnitude, Sign
<1>6. num' \in 0 .. Modulus - 1
  <2>1. CASE Negative(n)
    <3>1. n >= Modulus \div 2 /\ Modulus \div 2 >= 1
      BY <2>1, <1>1 DEF Negative
    <3> QED
      BY <3>1, <2>1, <1>1, <1>2
  <2>2. CASE ~Negative(n)
    BY <2>2, <1>1, <1>2
  <2> QED
    BY <2>1, <2>2
<1>7. GrowInv'
  <2>1. Power(Base, 0) = 1
    BY BaseType, PowerLaws
  <2>2. 0 \in Nat /\ d' = Power(Base', 0)
    BY <2>1, <1>2, <1>4
  <2> QED
    BY <2>2, <1>5 DEF GrowInv
<1>8. Len(bf') < BufferSize
  BY <1>1, <1>2
<1> QED
  BY <1>1, <1>2, <1>3, <1>4, <1>5, <1>6, <1>7, <1>8 DEF NumberInv

\* The step of GrowDivisor.
LEMMA FindsDivisor ==
  ASSUME IInv, NumberInv, GrowDivisor
  PROVE  NumberInv'
<1>1. /\ pc = "grow" /\ UNCHANGED <<ch, num, bf, given>>
      /\ IF Grows THEN d' = (d * Base) % Modulus /\ pc' = "grow" ELSE pc' = "digits" /\ d' = d
  BY DEF GrowDivisor
<1>2. /\ Argument' = Argument /\ Magnitude' = Magnitude /\ Sign' = Sign /\ Base' = Base
      /\ Digits' = Digits
  BY <1>1 DEF Argument, Magnitude, Negative, Sign, Base, Digits
<1>3. /\ GrowInv /\ Magnitude \in 0 .. Modulus - 1 /\ num = Magnitude
      /\ Modulus \in Nat /\ num \in Nat
  BY <1>1, Tetrads DEF NumberInv, GrowInv
<1>4. PICK m \in Nat : d = Power(Base, m) /\ (m = 0 \/ Power(Base, m) <= num)
  BY <1>3 DEF GrowInv
<1>5. /\ Power(Base, m + 1) = Base * d /\ d \in Nat
  BY <1>4, BaseType, PowerLaws
<1>6. d >= 1
  <2>1. m <= m
    OBVIOUS
  <2> QED
    BY <2>1, <1>4, BaseType, PowersGrow
<1>7. CASE Grows
  <2>1. num \div d >= Base
    BY <1>7 DEF Grows
  <2>2. d * Base <= num
    BY <2>1, <1>3, <1>5, <1>6, BaseType, QuotientBound
  <2>3. d * Base = Base * d /\ d * Base \in Nat
    BY <1>5, BaseType
  <2>4. d' = d * Base
    BY <2>2, <2>3, <1>1, <1>3, <1>7
  <2>5. GrowInv'
    <3>1. m + 1 \in Nat /\ d' = Power(Base', m + 1) /\ Power(Base', m + 1) <= num'
      BY <2>2, <2>3, <2>4, <1>1, <1>2, <1>5
    <3> QED
      BY <3>1, <1>1, <1>2, <1>3 DEF GrowInv
  <2> QED
    BY <2>5, <1>1, <1>2, <1>7 DEF NumberInv
<1>8. CASE ~Grows
  <2>1. ~ (num \div d >= Base)
    BY <1>8 DEF Grows
  <2>2. num < Power(Base, m + 1)
    <3>1. num \div d \in Nat /\ num < d * (num \div d) + d
      BY <1>3, <1>5, <1>6, Division
    <3> DEFINE q == num \div d
    <3>2. q \in Nat /\ q + 1 <= Base /\ num < d * q + d
      BY <3>1, <2>1, BaseType
    <3> HIDE DEF q
    <3>3. d * (q + 1) <= d * Base
      BY <3>2, <1>5, <1>6, BaseType, FactorsInOrder
    <3>4. d * (q + 1) = d * q + d /\ d * q \in Nat /\ d * Base = Base * d /\ Base * d \in Nat
      BY <3>2, <1>5, BaseType
    <3> QED
      BY <3>2, <3>3, <3>4, <1>3, <1>5
  <2>3. HasDigits(Magnitude, Base, m)
    BY <2>2, <1>3, <1>4 DEF HasDigits
  <2>4. Leading(Sign, Magnitude, Base, m, m + 1, Digits) = Sign
    <3>1. Leading(Sign, Magnitude, Base, m, m + 1, Digits) = Sign \o <<>>
      <4> DEFINE first(k) == [i \in 1 .. k |-> DigitAt(Magnitude, Base, m + 1 - i, Digits)]
      <4>1. m + 1 - (m + 1) = 0 /\ first(0) = <<>>
        OBVIOUS
      <4>2. Leading(Sign, Magnitude, Base, m, m + 1, Digits) = Sign \o first(m + 1 - (m + 1))
        BY DEF Leading
      <4> HIDE DEF first
      <4> QED
        BY <4>1, <4>2
    <3>2. Sign \o <<>> = Sign
      BY DEF Sign
    <3> QED
      BY <3>1, <3>2
  <2>5. /\ HasDigits(Magnitude', Base', m) /\ m + 1 \in Nat /\ 0 \in Nat /\ m + 1 <= m + 1
        /\ Rest(Magnitude', Base', m + 1, 0, num')
        /\ d' = IF m + 1 = 0 THEN 0 ELSE Power(Base', m + 1 - 1)
        /\ bf' = Leading(Sign', Magnitude', Base', m, m + 1, Digits')
    <3>1. Power(Base, m + 1) * 0 + num = num
      BY <1>3, <1>5, BaseType
    <3>2. m + 1 - 1 = m /\ m + 1 # 0 /\ d' = d
      BY <1>1, <1>8
    <3>3. bf' = bf /\ bf = Sign /\ num' = num /\ num = Magnitude /\ m + 1 \in Nat
      BY <1>1, <1>3 DEF GrowInv
    <3>4. bf' = Leading(Sign', Magnitude', Base', m, m + 1, Digits')
      BY <3>3, <2>4, <1>2
    <3>5. Rest(Magnitude', Base', m + 1, 0, num')
      BY <3>1, <3>3, <2>2, <1>2 DEF Rest
    <3>6. d' = IF m + 1 = 0 THEN 0 ELSE Power(Base', m + 1 - 1)
      BY <3>2, <1>2, <1>4
    <3> QED
      BY <3>3, <3>4, <3>5, <3>6, <2>3, <1>2
  <2>6. DigitsInv'
    BY <2>5 DEF DigitsInv
  <2> QED
    BY <2>6, <1>1, <1>2, <1>8 DEF NumberInv
<1> QED
  BY <1>7, <1>8

\* A digit is one, and no sign.
LEMMA DigitType ==
  ASSUME NEW n \in Nat, NEW b \in {10, 16}, NEW k \in Nat
  PROVE  DigitAt(n, b, k, Digits) \in Glyph /\ DigitAt(n, b, k, Digits) # "-"
<1>1. Power(b, k) \in Nat /\ Power(b, k) >= 1
  <2>1. b \in Nat /\ b >= 1 /\ k <= k
    OBVIOUS
  <2> QED
    BY <2>1, PowerLaws, PowersGrow
<1>2. n \div Power(b, k) \in Nat
  BY <1>1
<1>3. (n \div Power(b, k)) % b \in 0 .. 15
  <2>1. CASE b = 10
    BY <2>1, <1>2
  <2>2. CASE b = 16
    BY <2>2, <1>2
  <2> QED
    BY <2>1, <2>2
<1> QED
  BY <1>3, DigitIsNoSign DEF DigitAt

\* Of a numeral's first digits the first is no sign, and bf has room for them.
LEMMA LeadingType ==
  ASSUME NEW s, s \in {<<>>, <<"-">>}, NEW n \in Nat, NEW b \in {10, 16}, NEW m \in Nat,
         NEW r \in Nat, r <= m + 1
  PROVE  /\ Len(Leading(s, n, b, m, r, Digits)) \in 0 .. m + 2
         /\ r <= m => /\ Len(s) + 1 \in DOMAIN Leading(s, n, b, m, r, Digits)
                      /\ Leading(s, n, b, m, r, Digits)[Len(s) + 1] # "-"
<1> DEFINE k == m + 1 - r
           f == [i \in 1 .. k |-> DigitAt(n, b, m + 1 - i, Digits)]
<1>1. Leading(s, n, b, m, r, Digits) = s \o f
  BY DEF Leading
<1>2. k \in Nat /\ k <= m + 1 /\ (r <= m => k >= 1)
  OBVIOUS
<1>3. \A i \in 1 .. k : DigitAt(n, b, m + 1 - i, Digits) \in Glyph /\ DigitAt(n, b, m + 1 - i, Digits) # "-"
  <2> SUFFICES ASSUME NEW i \in 1 .. k
               PROVE  DigitAt(n, b, m + 1 - i, Digits) \in Glyph /\ DigitAt(n, b, m + 1 - i, Digits) # "-"
    OBVIOUS
  <2>1. m + 1 - i \in Nat
    BY <1>2
  <2> QED
    BY <2>1, DigitType
<1>4. f \in [1 .. k -> Glyph] /\ (k >= 1 => f[1] # "-")
  BY <1>2, <1>3
<1> HIDE DEF k, f
<1>5. /\ f \in Seq(Glyph) /\ Len(f) = k /\ s \o f \in Seq(Glyph) /\ Len(s \o f) = Len(s) + k
      /\ Len(s) \in {0, 1} /\ s \in Seq(Glyph)
  BY <1>2, <1>4, SignedDigits
<1>6. Len(s \o f) \in 0 .. m + 2
  <2> DEFINE l == Len(s)
  <2>1. l \in {0, 1} /\ Len(s \o f) = l + k
    BY <1>5
  <2> HIDE DEF l
  <2> QED
    BY <2>1, <1>2
<1>7. r <= m => Len(s) + 1 \in DOMAIN (s \o f) /\ (s \o f)[Len(s) + 1] # "-"
  BY <1>2, <1>4, <1>5
<1> QED
  BY <1>1, <1>6, <1>7

\* A numeral's first digits and the next one.
LEMMA LeadingStep ==
  ASSUME NEW s, s \in {<<>>, <<"-">>}, NEW n \in Nat, NEW b, b \in {10, 16}, NEW m \in Nat,
         NEW r \in Nat, r # 0, r - 1 <= m
  PROVE  Leading(s, n, b, m, r - 1, Digits) =
           Append(Leading(s, n, b, m, r, Digits), DigitAt(n, b, r - 1, Digits))
<1> DEFINE k == m + 1 - r
           all == [i \in 1 .. k + 1 |-> DigitAt(n, b, m + 1 - i, Digits)]
           most == [i \in 1 .. k |-> DigitAt(n, b, m + 1 - i, Digits)]
<1>1. /\ Leading(s, n, b, m, r, Digits) = s \o most
      /\ Leading(s, n, b, m, r - 1, Digits) = s \o all
  <2>1. m + 1 - (r - 1) = k + 1
    OBVIOUS
  <2> QED
    BY <2>1 DEF Leading
<1>2. k \in Nat /\ k <= m /\ m + 1 - (k + 1) = r - 1 /\ r - 1 \in Nat
  OBVIOUS
<1>3. \A i \in 1 .. k + 1 : DigitAt(n, b, m + 1 - i, Digits) \in Glyph
  <2> SUFFICES ASSUME NEW i \in 1 .. k + 1 PROVE DigitAt(n, b, m + 1 - i, Digits) \in Glyph
    OBVIOUS
  <2>1. m + 1 - i \in Nat
    BY <1>2
  <2> QED
    BY <2>1, DigitType
<1> DEFINE c == DigitAt(n, b, r - 1, Digits)
<1>4. /\ most \in [1 .. k -> Glyph] /\ all \in [1 .. k + 1 -> Glyph] /\ c \in Glyph
      /\ all[k + 1] = c /\ \A i \in 1 .. k : all[i] = most[i]
  <2>1. c \in Glyph /\ k + 1 \in 1 .. k + 1
    BY <1>2, DigitType
  <2>2. all[k + 1] = c
    BY <1>2, <2>1
  <2> QED
    BY <1>2, <1>3, <2>1, <2>2
<1> HIDE DEF k, all, most, c
<1>5. most \in Seq(Glyph) /\ Len(most) = k /\ s \in Seq(Glyph)
  BY <1>2, <1>4, SignedDigits
<1>6. all = Append(most, c)
  <2>1. Append(most, c) \in Seq(Glyph) /\ Len(Append(most, c)) = k + 1
    BY <1>4, <1>5
  <2>2. all \in Seq(Glyph) /\ Len(all) = k + 1
    BY <1>2, <1>4
  <2>3. \A i \in 1 .. k + 1 : all[i] = Append(most, c)[i]
    <3> SUFFICES ASSUME NEW i \in 1 .. k + 1 PROVE all[i] = Append(most, c)[i]
      OBVIOUS
    <3>1. CASE i = k + 1
      BY <3>1, <1>4, <1>5
    <3>2. CASE i # k + 1
      <4>1. i \in 1 .. k
        BY <3>2, <1>2
      <4> QED
        BY <4>1, <1>4, <1>5
    <3> QED
      BY <3>1, <3>2
  <2> QED
    BY <2>1, <2>2, <2>3
<1>7. s \o Append(most, c) = Append(s \o most, c)
  <2>1. \A x \in Seq(Glyph), y \in Seq(Glyph), z \in Glyph :
          x \o Append(y, z) = Append(x \o y, z)
    OBVIOUS
  <2> QED
    BY <2>1, <1>4, <1>5
<1> QED
  BY <1>1, <1>6, <1>7 DEF c

\* The same of the number that is being written.
LEMMA NextLeading ==
  ASSUME NEW m \in Nat, NEW n \in Nat, NEW r \in Nat, r # 0, r - 1 <= m
  PROVE  Leading(Sign, n, Base, m, r - 1, Digits) =
           Append(Leading(Sign, n, Base, m, r, Digits), DigitAt(n, Base, r - 1, Digits))
<1>1. Sign \in {<<>>, <<"-">>}
  BY DEF Sign
<1> QED
  BY <1>1, BaseType, LeadingStep

\* The step of WriteDigit: the digit is always written.
LEMMA WritesDigit ==
  ASSUME IInv, NumberInv, WriteDigit
  PROVE  NumberInv'
<1>1. /\ pc = "digits" /\ pc' = "digits" /\ d # 0 /\ num' = num % d /\ d' = d \div Base
      /\ bf' = IF Keeps(num \div d) THEN Append(bf, DigitChar(num \div d)) ELSE bf
      /\ UNCHANGED <<ch, given>>
  BY DEF WriteDigit
<1>2. /\ Argument' = Argument /\ Magnitude' = Magnitude /\ Sign' = Sign /\ Base' = Base
      /\ Digits' = Digits
  BY <1>1 DEF Argument, Magnitude, Negative, Sign, Base, Digits
<1>3. /\ DigitsInv /\ Magnitude \in 0 .. Modulus - 1 /\ num \in 0 .. Modulus - 1
      /\ Magnitude \in Nat /\ num \in Nat /\ Modulus \in Nat
  BY <1>1, Tetrads DEF NumberInv, IInv, TypeOK
<1>4. PICK m \in Nat, r \in Nat, q \in Nat :
        /\ HasDigits(Magnitude, Base, m) /\ r <= m + 1
        /\ Rest(Magnitude, Base, r, q, num)
        /\ d = IF r = 0 THEN 0 ELSE Power(Base, r - 1)
        /\ bf = Leading(Sign, Magnitude, Base, m, r, Digits)
  BY <1>3 DEF DigitsInv
<1>5. /\ r # 0 /\ d = Power(Base, r - 1) /\ r - 1 \in Nat /\ r - 1 <= m
      /\ r \in Nat /\ m \in Nat /\ q \in Nat
  BY <1>1, <1>4
<1> DEFINE g == num \div d
<1>6. /\ g \in 0 .. Base - 1 /\ (Magnitude \div d) % Base = g
      /\ num' \in Nat /\ num' < d
      /\ Rest(Magnitude, Base, r - 1, Base * q + g, num')
      /\ d' = IF r - 1 = 0 THEN 0 ELSE Power(Base, r - 1 - 1)
  <2>1. g \in 0 .. Base - 1
    BY <1>3, <1>4, <1>5, BaseType, NextDigit
  <2>2. (Magnitude \div d) % Base = g
    BY <1>3, <1>4, <1>5, BaseType, NextDigit
  <2>3. num % d \in Nat /\ num % d < d
    BY <1>3, <1>4, <1>5, BaseType, NextDigit
  <2>4. Rest(Magnitude, Base, r - 1, Base * q + g, num % d)
    BY <1>3, <1>4, <1>5, BaseType, NextDigit
  <2>5. d \div Base = IF r - 1 = 0 THEN 0 ELSE Power(Base, r - 1 - 1)
    BY <1>3, <1>4, <1>5, BaseType, NextDigit
  <2> QED
    BY <2>1, <2>2, <2>3, <2>4, <2>5, <1>1
<1> HIDE DEF g
<1>7. Digits[g + 1] = DigitChar(g)
  <2>1. g \in 0 .. 15
    BY <1>6, BaseType
  <2> QED
    BY <2>1, DigitIsNoSign
<1>8. Sign \in {<<>>, <<"-">>}
  BY DEF Sign
<1>9. /\ Leading(Sign, Magnitude, Base, m, r - 1, Digits) =
           Append(bf, Digits[((Magnitude \div d) % Base) + 1])
      /\ Len(Leading(Sign, Magnitude, Base, m, r - 1, Digits)) \in 0 .. m + 2
      /\ r <= m => Len(Sign) + 1 \in DOMAIN bf /\ bf[Len(Sign) + 1] # "-"
  <2>1. Leading(Sign, Magnitude, Base, m, r - 1, Digits) =
          Append(bf, DigitAt(Magnitude, Base, r - 1, Digits))
    BY <1>3, <1>4, <1>5, NextLeading, ZenonT(60)
  <2>2. DigitAt(Magnitude, Base, r - 1, Digits) = Digits[((Magnitude \div d) % Base) + 1]
    BY <1>5 DEF DigitAt
  <2>3. Len(Leading(Sign, Magnitude, Base, m, r - 1, Digits)) \in 0 .. m + 2
    <3>1. r - 1 <= m + 1
      BY <1>5
    <3> QED
      BY <3>1, <1>3, <1>5, <1>8, BaseType, LeadingType
  <2>4. r <= m => Len(Sign) + 1 \in DOMAIN bf /\ bf[Len(Sign) + 1] # "-"
    BY <1>3, <1>4, <1>5, <1>8, BaseType, LeadingType
  <2> QED
    BY <2>1, <2>3, <2>4, <2>2
<1>10. Keeps(g)
  <2>1. CASE r <= m
    BY <2>1, <1>9 DEF Keeps
  <2>2. CASE r = m + 1 /\ m = 0
    <3>1. d' = 0
      BY <2>2, <1>6
    <3> QED
      BY <3>1, <1>1 DEF Keeps
  <2>3. CASE r = m + 1 /\ m # 0
    <3>1. d <= Magnitude /\ Magnitude < Power(Base, m + 1)
      BY <2>3, <1>4, <1>5 DEF HasDigits
    <3>2. Power(Base, m + 1) \in Nat /\ d \in Nat
      <4>1. m + 1 \in Nat
        OBVIOUS
      <4> QED
        BY <4>1, <2>3, <1>5, BaseType, PowerLaws
    <3>3. q = 0
      <4> SUFFICES ASSUME q >= 1 PROVE FALSE
        OBVIOUS
      <4> DEFINE p == Power(Base, m + 1)
      <4>1. Magnitude = p * q + num /\ Magnitude < p /\ p \in Nat
        BY <2>3, <1>4, <3>1, <3>2 DEF Rest
      <4> HIDE DEF p
      <4>2. p * 1 <= p * q
        <5>1. CASE p = 0
          BY <5>1
        <5>2. CASE p >= 1
          BY <5>2, <4>1, FactorsInOrder
        <5> QED
          BY <5>1, <5>2, <4>1
      <4>3. p * q \in Nat
        BY <4>1
      <4> QED
        BY <4>1, <4>2, <4>3, <1>3
    <3>4. num = Magnitude
      BY <3>2, <3>3, <2>3, <1>3, <1>4 DEF Rest
    <3>5. g # 0
      <4> SUFFICES ASSUME g = 0 PROVE FALSE
        OBVIOUS
      <4>1. Magnitude = d * (Base * 0 + 0) + num'
        BY <1>5, <1>6, <3>3 DEF Rest
      <4>2. d * (Base * 0 + 0) = 0
        BY <3>2, BaseType
      <4> QED
        BY <4>1, <4>2, <3>1, <3>2, <1>6, <1>3
    <3> QED
      BY <3>5, <1>6, BaseType DEF Keeps
  <2> QED
    BY <2>1, <2>2, <2>3, <1>5
<1>11. bf' = Leading(Sign', Magnitude', Base', m, r - 1, Digits')
  BY <1>1, <1>2, <1>6, <1>7, <1>9, <1>10 DEF g
<1>12. Len(bf') < BufferSize
  <2>1. m + 1 <= BufferSize - 2 /\ BufferSize \in Nat
    BY <1>3, <1>4, BaseType, NumeralIs, WordsFit
  <2> QED
    <3>1. Len(bf') \in 0 .. m + 2
      BY <1>2, <1>9, <1>11
    <3> DEFINE k == Len(bf')
    <3>2. k <= m + 2 /\ k \in Nat
      <4>1. k = Len(Leading(Sign, Magnitude, Base, m, r - 1, Digits))
        BY <1>2, <1>11
      <4> QED
        BY <3>1, <4>1, <1>9
    <3> HIDE DEF k
    <3>3. k < BufferSize
      BY <2>1, <3>2, <1>5
    <3> QED
      BY <3>3 DEF k
<1>13. DigitsInv'
  <2>1. r - 1 \in Nat /\ r - 1 <= m + 1 /\ Base * q + g \in Nat /\ m \in Nat
    BY <1>5, <1>6, BaseType
  <2>2. HasDigits(Magnitude', Base', m)
    BY <1>2, <1>4
  <2>3. Rest(Magnitude', Base', r - 1, Base * q + g, num')
    BY <1>2, <1>6
  <2>4. d' = IF r - 1 = 0 THEN 0 ELSE Power(Base', r - 1 - 1)
    BY <1>2, <1>6
  <2> QED
    BY <2>1, <2>2, <2>3, <2>4, <1>11 DEF DigitsInv
<1> QED
  BY <1>1, <1>2, <1>12, <1>13 DEF NumberInv

\* A number's parts are never more than bf holds, in any state.
LEMMA NumberInit == Init => NumberInv
<1> SUFFICES ASSUME Init PROVE NumberInv
  OBVIOUS
<1>1. Len(bf) = 0 /\ pc \notin {"grow", "digits"}
  BY DEF Init, InitCommon, InitFormat, InitPuts, InitHex, InitStrlen, InitStreq
<1>2. BufferSize \in Nat /\ BufferSize >= 2
  BY FormatAssumption DEF FormatAssumption
<1> QED
  BY <1>1, <1>2 DEF NumberInv

\* Every step leaves a number's parts right.
LEMMA NumberNext == IInv /\ NumberInv /\ [Next]_vars => NumberInv'
<1> SUFFICES ASSUME IInv, NumberInv, [Next]_vars PROVE NumberInv'
  OBVIOUS
<1> USE DEF field, number
<1>1. ASSUME bf' = bf, pc' \notin {"grow", "digits"} PROVE NumberInv'
  BY <1>1 DEF NumberInv
<1>2. CASE Plain \/ EndOfText \/ Percent
  BY <1>1, <1>2 DEF Plain, EndOfText, Return, Percent
<1>3. CASE Flag \/ Zero \/ Width
  BY <1>1, <1>3 DEF Flag, Zero, ReadField, Width
<1>4. CASE Abort \/ ConvertPercent \/ ConvertOther
  BY <1>1, <1>4 DEF Abort, Return, ConvertPercent, ConvertOther
<1>5. ASSUME NEW x, ConvertCharacter(x) \/ ConvertString(x) PROVE NumberInv'
  BY <1>1, <1>5 DEF ConvertCharacter, ConvertString
<1>6. ASSUME NEW n \in Words, ConvertNumber(n) PROVE NumberInv'
  BY <1>6, StartsNumber
<1>7. CASE GrowDivisor
  BY <1>7, FindsDivisor
<1>8. CASE WriteDigit
  BY <1>8, WritesDigit
<1>9. CASE PutNumber \/ UartPuts \/ UartHex \/ Strlen \/ Streq
  BY <1>1, <1>9 DEF PutNumber, UartPuts, UartHex, Strlen, Streq
<1>10. CASE UNCHANGED vars
  <2>1. /\ Argument' = Argument /\ Magnitude' = Magnitude /\ Sign' = Sign /\ Base' = Base
        /\ Digits' = Digits
    BY <1>10 DEF vars, Argument, Magnitude, Negative, Sign, Base, Digits
  <2>2. UNCHANGED <<pc, bf, num, d, ch, given>>
    BY <1>10 DEF vars
  <2>3. GrowInv => GrowInv'
    BY <2>1, <2>2 DEF GrowInv
  <2>4. DigitsInv => DigitsInv'
    BY <2>1, <2>2 DEF DigitsInv
  <2> QED
    BY <2>1, <2>2, <2>3, <2>4 DEF NumberInv
<1> QED
  BY <1>2, <1>3, <1>4, <1>5, <1>6, <1>7, <1>8, <1>9, <1>10 DEF Next, Returned

\* Both hold in every state.
LEMMA Invariance == Spec => [](IInv /\ NumberInv)
<1>1. Init => IInv /\ NumberInv
  BY InitInv, NumberInit
<1>2. IInv /\ NumberInv /\ [Next]_vars => IInv' /\ NumberInv'
  BY NextInv, NumberNext
<1> QED
  BY <1>1, <1>2, PTL DEF Spec

\* The variables stay in their types: numbers within a word, and the width an
\* int, which may be a negative one once a text's width overflows
\* (printf.cpp:63-204).
THEOREM FormatTypes == Spec => []TypeOK
<1>1. IInv /\ NumberInv => TypeOK
  BY DEF IInv
<1> QED
  BY <1>1, Invariance, PTL

\* No text makes the formatter read behind its NUL (printf.cpp:134-204).
THEOREM FormatReadsInside == Spec => []ReadsInsideText
<1>1. IInv /\ NumberInv => ReadsInsideText
  BY DEF IInv, Reading, ReadsInsideText
<1> QED
  BY <1>1, Invariance, PTL

\* ui2a's divisor does not wrap for any number of any width of a word
\* (printf.cpp:66-68).
THEOREM DivisorIsSafe == Spec => []DivisorNeverWraps
<1>1. IInv /\ NumberInv => DivisorNeverWraps
  BY DEF IInv
<1> QED
  BY <1>1, Invariance, PTL

\* bf has room for any word's sign, digits and NUL, however wide a word is
\* (printf.cpp:131).
THEOREM BfIsEnough == Spec => []BufferHolds
<1>1. IInv /\ NumberInv => BufferHolds
  BY DEF NumberInv, BufferHolds
<1> QED
  BY <1>1, Invariance, PTL

-----------------------------------------------------------------------------
(***************************************************************************)
(* The walk over the text that Rendered is the end of: it is a recursive   *)
(* function on the number of conversions, so the walks that follow it for some *)
(* steps are related to the state instead.                                 *)
(***************************************************************************)

\* The functions Rendered is defined by.
RendersTo(at) ==
  at = [n \in 0 .. Len(text) |->
          IF n = 0 THEN [next |-> 1, taken |-> 0, sent |-> <<>>] ELSE Beyond(at[n - 1])]

\* Any of them gives the output.
LEMMA RenderedIs ==
  ASSUME Len(text) \in Nat, NEW at, RendersTo(at)
  PROVE  Rendered = at[Len(text)].sent
<1> DEFINE n == Len(text)
           q == CHOOSE q : RendersTo(q)
<1>1. RendersTo(q)
  OBVIOUS
<1>2. Rendered = q[n].sent
  BY DEF Rendered, RendersTo
<1>3. n \in Nat /\ n \in 0 .. n
  OBVIOUS
<1>4. q[0] = at[0]
  BY <1>1, <1>3 DEF RendersTo
<1>5. \A k \in 1 .. n : q[k - 1] = at[k - 1] => q[k] = at[k]
  <2> SUFFICES ASSUME NEW k \in 1 .. n, q[k - 1] = at[k - 1] PROVE q[k] = at[k]
    OBVIOUS
  <2>1. k \in 0 .. n /\ k # 0
    BY <1>3
  <2>2. q[k] = Beyond(q[k - 1]) /\ at[k] = Beyond(at[k - 1])
    BY <1>1, <2>1 DEF RendersTo
  <2> QED
    BY <2>2
<1>6. n \in Nat
  OBVIOUS
<1> HIDE DEF n, q
<1>7. \A k \in 0 .. n : q[k] = at[k]
  BY <1>6, <1>4, <1>5, SameWalk, ZenonT(60)
<1> QED
  BY <1>2, <1>3, <1>7 DEF n

\* at walks over the text for n characters and conversions, with the arguments
\* that were given.
Walk(at, n) ==
  /\ at[0] = [next |-> 1, taken |-> 0, sent |-> <<>>]
  /\ \A m \in 1 .. n : at[m] = Beyond(at[m - 1])
  /\ \A m \in 0 .. n : /\ at[m].next \in Nat /\ m < at[m].next
                       /\ at[m].taken \in Nat /\ at[m].taken <= Len(given)

\* A walk over the text comes to r.
Walked(r) == \E n, at : n \in 0 .. Len(text) /\ Walk(at, n) /\ at[n] = r

\* It starts at the first character.
LEMMA WalkStarts ==
  ASSUME Len(text) \in Nat, Len(given) \in Nat
  PROVE  Walked([next |-> 1, taken |-> 0, sent |-> <<>>])
<1> DEFINE at == [m \in 0 .. 0 |-> [next |-> 1, taken |-> 0, sent |-> <<>>]]
<1>1. at[0] = [next |-> 1, taken |-> 0, sent |-> <<>>] /\ 0 \in 0 .. Len(text)
  OBVIOUS
<1>2. \A m \in 0 .. 0 : m = 0
  OBVIOUS
<1> HIDE DEF at
<1>3. Walk(at, 0)
  BY <1>1, <1>2 DEF Walk
<1> QED
  BY <1>1, <1>3 DEF Walked

\* It goes on by one character or conversion.
LEMMA WalkGoesOn ==
  ASSUME Len(text') \in Nat, NEW r, Walked(r)', NEW s, s = Beyond(r)',
         r.next <= Len(text'), s.next \in Nat, r.next < s.next,
         s.taken \in Nat, s.taken <= Len(given')
  PROVE  Walked(s)'
<1>1. PICK n, at : n \in 0 .. Len(text') /\ Walk(at, n)' /\ at[n] = r
  BY DEF Walked
<1> DEFINE on == [m \in 0 .. n + 1 |-> IF m = n + 1 THEN s ELSE at[m]]
<1>2. n \in Nat /\ n < r.next /\ r.next \in Nat
  BY <1>1 DEF Walk
<1>3. n + 1 \in 0 .. Len(text') /\ n + 1 < s.next
  BY <1>2
<1>4. on[n + 1] = s /\ \A m \in 0 .. n : on[m] = at[m]
  BY <1>2
<1> HIDE DEF on
<1>5. on[0] = [next |-> 1, taken |-> 0, sent |-> <<>>]
  BY <1>1, <1>2, <1>4 DEF Walk
<1>6. \A m \in 1 .. n + 1 : on[m] = Beyond(on[m - 1])'
  <2> SUFFICES ASSUME NEW m \in 1 .. n + 1 PROVE on[m] = Beyond(on[m - 1])'
    OBVIOUS
  <2>1. CASE m = n + 1
    <3>1. m - 1 = n /\ n \in 0 .. n
      BY <1>2, <2>1
    <3> QED
      BY <2>1, <3>1, <1>1, <1>4
  <2>2. CASE m # n + 1
    <3>1. m \in 1 .. n /\ m \in 0 .. n /\ m - 1 \in 0 .. n
      BY <1>2, <2>2
    <3>2. at[m] = Beyond(at[m - 1])'
      BY <3>1, <1>1 DEF Walk
    <3>3. on[m] = at[m] /\ on[m - 1] = at[m - 1]
      BY <3>1, <1>4
    <3> QED
      BY <3>2, <3>3
  <2> QED
    BY <2>1, <2>2
<1>7. \A m \in 0 .. n + 1 : /\ on[m].next \in Nat /\ m < on[m].next
                           /\ on[m].taken \in Nat /\ on[m].taken <= Len(given')
  <2> SUFFICES ASSUME NEW m \in 0 .. n + 1
               PROVE  /\ on[m].next \in Nat /\ m < on[m].next
                      /\ on[m].taken \in Nat /\ on[m].taken <= Len(given')
    OBVIOUS
  <2>1. CASE m = n + 1
    BY <2>1, <1>3, <1>4
  <2>2. CASE m # n + 1
    <3>1. m \in 0 .. n
      BY <1>2, <2>2
    <3> QED
      BY <3>1, <1>1, <1>4 DEF Walk
  <2> QED
    BY <2>1, <2>2
<1>8. Walk(on, n + 1)'
  BY <1>5, <1>6, <1>7 DEF Walk
<1> QED
  BY <1>3, <1>4, <1>8 DEF Walked

\* At the text's end it has the output.
LEMMA WalkEnds ==
  ASSUME Len(text) \in Nat, NEW r, Walked(r), r.next > Len(text)
  PROVE  Rendered = r.sent
<1>1. PICK n, at : n \in 0 .. Len(text) /\ Walk(at, n) /\ at[n] = r
  BY DEF Walked
<1> DEFINE all == [m \in 0 .. Len(text) |-> IF m <= n THEN at[m] ELSE r]
<1>2. n \in Nat /\ r.next \in Nat
  BY <1>1 DEF Walk
<1>3. Beyond(r) = r
  BY <1>2 DEF Beyond
<1>4. \A m \in 0 .. Len(text) :
        all[m] = IF m = 0 THEN [next |-> 1, taken |-> 0, sent |-> <<>>] ELSE Beyond(all[m - 1])
  <2> SUFFICES ASSUME NEW m \in 0 .. Len(text)
               PROVE  all[m] = IF m = 0 THEN [next |-> 1, taken |-> 0, sent |-> <<>>]
                                        ELSE Beyond(all[m - 1])
    OBVIOUS
  <2>1. CASE m = 0
    BY <2>1, <1>1, <1>2 DEF Walk
  <2>2. CASE m # 0 /\ m <= n
    <3>1. m \in 1 .. n /\ m - 1 \in 0 .. Len(text) /\ m - 1 <= n
      BY <2>2, <1>2
    <3>2. at[m] = Beyond(at[m - 1])
      BY <3>1, <1>1 DEF Walk
    <3>3. all[m] = at[m] /\ all[m - 1] = at[m - 1]
      BY <2>2, <3>1
    <3> QED
      BY <2>2, <3>2, <3>3
  <2>3. CASE n < m
    <3>1. m # 0 /\ m - 1 \in 0 .. Len(text) /\ ~ (m <= n) /\ (m - 1 <= n => m - 1 = n)
      BY <2>3, <1>2
    <3>2. all[m] = r /\ all[m - 1] = r
      BY <3>1, <1>1
    <3> QED
      BY <3>1, <3>2, <1>3
  <2> QED
    BY <2>1, <2>2, <2>3, <1>2
<1>5. all = [m \in 0 .. Len(text) |->
               IF m = 0 THEN [next |-> 1, taken |-> 0, sent |-> <<>>] ELSE Beyond(all[m - 1])]
  BY <1>4
<1>6. all[Len(text)] = r
  BY <1>1, <1>2
<1> HIDE DEF all
<1>7. RendersTo(all)
  BY <1>5 DEF RendersTo
<1> QED
  BY <1>6, <1>7, RenderedIs

\* What a conversion prints and where it ends depend on the text only.
LEMMA TextOnly ==
  ASSUME UNCHANGED <<call, text>>
  PROVE  /\ \A i : /\ Letter(i)' = Letter(i) /\ At(i)' = At(i) /\ Sent(i)' = Sent(i)
                /\ WidthAt(i)' = WidthAt(i)
         /\ \A i, j, x : Converted(i, j, x)' = Converted(i, j, x)
<1>1. ASSUME NEW i
      PROVE  /\ Letter(i)' = Letter(i) /\ At(i)' = At(i) /\ Sent(i)' = Sent(i)
             /\ WidthAt(i)' = WidthAt(i)
  <2>1. Letter(i)' = Letter(i)
    BY DEF Letter
  <2>2. At(i)' = At(i)
    BY DEF At
  <2>3. Sent(i)' = Sent(i)
    BY DEF Sent
  <2>4. WidthAt(i)' = WidthAt(i)
    BY DEF WidthAt
  <2> QED
    BY <2>1, <2>2, <2>3, <2>4
<1>2. ASSUME NEW i, NEW j, NEW x PROVE Converted(i, j, x)' = Converted(i, j, x)
  <2>1. WidthAt(j - 1)' = WidthAt(j - 1)
    BY <1>1
  <2> QED
    BY <2>1 DEF Converted
<1> QED
  BY <1>1, <1>2

\* An argument that is taken later changes nothing of it.
LEMMA WalkLasts ==
  ASSUME UNCHANGED <<call, text>>, given \in Seq(Characters \union Strings \union Words),
         \/ given' = given
         \/ \E x \in Characters \union Strings \union Words : given' = Append(given, x),
         NEW r, Walked(r)
  PROVE  Walked(r)'
<1>1. PICK n, at : n \in 0 .. Len(text) /\ Walk(at, n) /\ at[n] = r
  BY DEF Walked
<1>2. /\ Len(given) \in Nat /\ Len(given') \in Nat /\ Len(given) <= Len(given')
      /\ \A k \in 1 .. Len(given) : given'[k] = given[k]
  OBVIOUS
<1>3. ASSUME NEW s, s.taken \in Nat, Beyond(s).taken \in Nat, Beyond(s).taken <= Len(given)
      PROVE  Beyond(s)' = Beyond(s)
  <2> DEFINE i == s.next
             j == Letter(i)
             k == IF At(j) \in Taking THEN s.taken + 1 ELSE s.taken
  <2>1. j' = j /\ At(j)' = At(j) /\ k' = k /\ i' = i /\ k \in Nat
    <3>1. Letter(i)' = Letter(i)
      BY TextOnly
    <3>2. At(j)' = At(j)
      BY <3>1, TextOnly
    <3> QED
      BY <3>1, <3>2, <1>3
  <2>2. CASE i > Len(text)
    BY <2>2 DEF Beyond
  <2>3. CASE ~ (i > Len(text)) /\ text[i] # "%"
    <3>1. Sent(<<text[i]>>)' = Sent(<<text[i]>>)
      BY TextOnly
    <3> QED
      BY <2>3, <3>1 DEF Beyond
  <2>4. CASE ~ (i > Len(text)) /\ text[i] = "%" /\ At(j) \notin Taking \union {"%"}
    BY <2>1, <2>4 DEF Beyond
  <2>5. CASE ~ (i > Len(text)) /\ text[i] = "%" /\ At(j) \in Taking \union {"%"}
    <3>1. Beyond(s).taken = k
      BY <2>5 DEF Beyond
    <3>2. k <= Len(given) /\ ~ (k > Len(given)) /\ ~ (k > Len(given'))
      BY <3>1, <2>1, <1>2, <1>3
    <3> DEFINE y == IF k > s.taken THEN given[k] ELSE NUL
    <3>3. y' = y
      <4>1. CASE k > s.taken
        <5>1. k \in 1 .. Len(given)
          BY <4>1, <3>2, <2>1, <1>3
        <5> QED
          BY <5>1, <4>1, <2>1, <1>2
      <4>2. CASE ~ (k > s.taken)
        BY <4>2, <2>1
      <4> QED
        BY <4>1, <4>2
    <3>4. Sent(Converted(i, j, y))' = Sent(Converted(i, j, y))
      <4>1. Converted(i, j, y)' = Converted(i, j, y)
        BY <2>1, <3>3, TextOnly
      <4> QED
        BY <4>1, TextOnly
    <3> DEFINE o == s.sent \o Sent(Converted(i, j, y))
    <3>5. Beyond(s) = [next |-> j + 1, taken |-> k, sent |-> o]
      BY <2>5, <3>2 DEF Beyond
    <3>6. Beyond(s)' = [next |-> j' + 1, taken |-> k', sent |-> o']
      BY <2>5, <3>2, <2>1 DEF Beyond
    <3>7. o' = o
      BY <3>4
    <3> HIDE DEF o, j, k
    <3> QED
      BY <3>5, <3>6, <3>7, <2>1
  <2> QED
    BY <2>2, <2>3, <2>4, <2>5
<1>4. Walk(at, n)'
  <2>1. \A m \in 1 .. n : at[m] = Beyond(at[m - 1])'
    <3> SUFFICES ASSUME NEW m \in 1 .. n PROVE at[m] = Beyond(at[m - 1])'
      OBVIOUS
    <3>1. m \in 0 .. n /\ m - 1 \in 0 .. n
      BY <1>1
    <3>2. at[m] = Beyond(at[m - 1])
      BY <1>1 DEF Walk
    <3>3. at[m].taken \in Nat /\ at[m].taken <= Len(given) /\ at[m - 1].taken \in Nat
      BY <3>1, <1>1 DEF Walk
    <3> QED
      BY <3>2, <3>3, <1>3
  <2>2. \A m \in 0 .. n : /\ at[m].next \in Nat /\ m < at[m].next
                         /\ at[m].taken \in Nat /\ at[m].taken <= Len(given')
    BY <1>1, <1>2 DEF Walk
  <2> QED
    BY <2>1, <2>2, <1>1 DEF Walk
<1> QED
  BY <1>1, <1>4 DEF Walked

\* The functions WidthAt is defined by.
WidthTo(v, i) ==
  v = [k \in 0 .. i |-> IF k = 0 THEN 0
                        ELSE IF text[k] \in Decimal THEN 10 * v[k - 1] + A2D(text[k]) ELSE 0]

\* They exist.
LEMMA WidthExists == ASSUME NEW i \in Nat PROVE \E v : WidthTo(v, i)
<1> DEFINE S == {m \in Nat : \E v : WidthTo(v, m)}
<1>1. 0 \in S
  <2> DEFINE v == [k \in 0 .. 0 |-> 0]
  <2>1. WidthTo(v, 0)
    BY DEF WidthTo
  <2> QED
    BY <2>1
<1>2. ASSUME NEW m \in Nat, m \in S PROVE m + 1 \in S
  <2>1. PICK v : WidthTo(v, m)
    BY <1>2
  <2> DEFINE last == IF text[m + 1] \in Decimal THEN 10 * v[m] + A2D(text[m + 1]) ELSE 0
             u == [k \in 0 .. m + 1 |-> IF k = m + 1 THEN last ELSE v[k]]
  <2>2. \A k \in 0 .. m :
          v[k] = IF k = 0 THEN 0
                 ELSE IF text[k] \in Decimal THEN 10 * v[k - 1] + A2D(text[k]) ELSE 0
    BY <2>1 DEF WidthTo
  <2>3. u[m + 1] = last /\ \A k \in 0 .. m : u[k] = v[k]
    OBVIOUS
  <2>4. \A k \in 0 .. m + 1 :
          u[k] = IF k = 0 THEN 0
                 ELSE IF text[k] \in Decimal THEN 10 * u[k - 1] + A2D(text[k]) ELSE 0
    <3> SUFFICES ASSUME NEW k \in 0 .. m + 1
                 PROVE  u[k] = IF k = 0 THEN 0
                               ELSE IF text[k] \in Decimal THEN 10 * u[k - 1] + A2D(text[k]) ELSE 0
      OBVIOUS
    <3> HIDE DEF u
    <3>1. CASE k = m + 1
      <4>1. k - 1 = m /\ m \in 0 .. m /\ k # 0
        BY <3>1
      <4> QED
        BY <3>1, <4>1, <2>3
    <3>2. CASE k # m + 1 /\ k # 0
      <4>1. k \in 0 .. m /\ k - 1 \in 0 .. m
        BY <3>2
      <4> QED
        BY <3>2, <4>1, <2>2, <2>3
    <3>3. CASE k = 0
      <4>1. 0 \in 0 .. m
        OBVIOUS
      <4> QED
        BY <3>3, <4>1, <2>2, <2>3
    <3> QED
      BY <3>1, <3>2, <3>3
  <2>5. u = [k \in 0 .. m + 1 |->
               IF k = 0 THEN 0
               ELSE IF text[k] \in Decimal THEN 10 * u[k - 1] + A2D(text[k]) ELSE 0]
    BY <2>4
  <2> HIDE DEF u
  <2>6. WidthTo(u, m + 1)
    BY <2>5 DEF WidthTo
  <2> QED
    BY <2>6
<1> HIDE DEF S
<1>3. Nat \subseteq S
  BY <1>1, <1>2, SetInduction
<1> QED
  BY <1>3 DEF S

\* The width is read digit by digit.
LEMMA WidthStep ==
  ASSUME NEW m \in Nat
  PROVE  /\ WidthAt(0) = 0
         /\ WidthAt(m + 1) = IF text[m + 1] \in Decimal
                               THEN 10 * WidthAt(m) + A2D(text[m + 1]) ELSE 0
<1>1. ASSUME NEW i \in Nat, NEW k \in Nat, k <= i, NEW v, WidthTo(v, i)
      PROVE  WidthAt(k) = v[k]
  <2> DEFINE q == CHOOSE q : WidthTo(q, k)
  <2>1. WidthTo(q, k)
    BY WidthExists
  <2>2. WidthAt(k) = q[k]
    BY DEF WidthAt, WidthTo
  <2> HIDE DEF q
  <2>3. q[0] = 0 /\ v[0] = 0
    <3>1. 0 \in 0 .. k /\ 0 \in 0 .. i
      OBVIOUS
    <3> QED
      BY <3>1, <2>1, <1>1 DEF WidthTo
  <2>4. \A l \in 1 .. k : q[l - 1] = v[l - 1] => q[l] = v[l]
    <3> SUFFICES ASSUME NEW l \in 1 .. k, q[l - 1] = v[l - 1] PROVE q[l] = v[l]
      OBVIOUS
    <3>1. l \in 0 .. k /\ l \in 0 .. i /\ l # 0
      BY <1>1
    <3>2. /\ q[l] = (IF text[l] \in Decimal THEN 10 * q[l - 1] + A2D(text[l]) ELSE 0)
          /\ v[l] = (IF text[l] \in Decimal THEN 10 * v[l - 1] + A2D(text[l]) ELSE 0)
      BY <3>1, <2>1, <1>1 DEF WidthTo
    <3> QED
      BY <3>2
  <2>5. \A l \in 0 .. k : q[l] = v[l]
    BY <2>3, <2>4, SameWalk
  <2>6. k \in 0 .. k
    OBVIOUS
  <2> QED
    BY <2>2, <2>5, <2>6
<1>2. m + 1 \in Nat /\ m <= m + 1 /\ m + 1 <= m + 1 /\ 0 \in Nat /\ 0 <= m + 1
  OBVIOUS
<1>3. PICK v : WidthTo(v, m + 1)
  BY <1>2, WidthExists
<1>4. WidthAt(0) = v[0] /\ WidthAt(m) = v[m] /\ WidthAt(m + 1) = v[m + 1]
  BY <1>1, <1>2, <1>3
<1>5. v[0] = 0
  BY <1>3 DEF WidthTo
<1>6. v[m + 1] = IF text[m + 1] \in Decimal THEN 10 * v[m] + A2D(text[m + 1]) ELSE 0
  <2>1. m + 1 \in 0 .. m + 1 /\ m + 1 # 0 /\ (m + 1) - 1 = m
    OBVIOUS
  <2> QED
    BY <2>1, <1>3 DEF WidthTo
<1> QED
  BY <1>4, <1>5, <1>6

\* The letter of a conversion is behind its digits.
LEMMA LetterIs ==
  ASSUME Len(text) \in Nat, NEW i \in Nat, NEW j \in Nat, i < j, j <= Len(text) + 1,
         \A k \in i + 1 .. j - 1 : k <= Len(text) /\ text[k] \in Decimal,
         At(j) \notin Decimal
  PROVE  Letter(i) = j
<1> DEFINE S == {k \in i + 1 .. Len(text) + 1 : k <= Len(text) => text[k] \notin Decimal}
<1>1. j \in S
  BY DEF At, CharAt
<1>2. \A k \in S : j <= k
  OBVIOUS
<1>3. Letter(i) = Min(S)
  BY DEF Letter
<1>4. \A k \in S : k \in Nat
  OBVIOUS
<1> HIDE DEF S
<1>5. Min(S) \in S /\ \A k \in S : Min(S) <= k
  BY <1>1, <1>2 DEF Min
<1> DEFINE least == Min(S)
<1>6. least \in Nat /\ least <= j /\ j <= least
  BY <1>1, <1>2, <1>4, <1>5
<1> HIDE DEF least
<1>7. least = j
  BY <1>6
<1> QED
  BY <1>3, <1>7 DEF least

\* What a2d takes for a digit of a width: the decimals, `a' and `A'.
LEMMA InWidthIs ==
  ASSUME NEW c
  PROVE  InWidth(c) <=> c \in Decimal \union {"a", "A"}
<1>1. \A k \in 1 .. 16 :
        /\ k <= 11 => Lower[k] \in Decimal \union {"a", "A"} /\ Upper[k] \in Decimal \union {"a", "A"}
        /\ k > 11 => Lower[k] \notin Decimal \union {"a", "A"} /\ Upper[k] \notin Decimal \union {"a", "A"}
  <2> SUFFICES ASSUME NEW k \in 1 .. 16
        PROVE /\ k <= 11 => Lower[k] \in Decimal \union {"a", "A"} /\ Upper[k] \in Decimal \union {"a", "A"}
              /\ k > 11 => Lower[k] \notin Decimal \union {"a", "A"} /\ Upper[k] \notin Decimal \union {"a", "A"}
    OBVIOUS
  <2>1. k \in {1, 2, 3, 4, 5, 6, 7, 8} \/ k \in {9, 10, 11} \/ k \in {12, 13, 14, 15, 16}
    OBVIOUS
  <2>2. CASE k \in {1, 2, 3, 4, 5, 6, 7, 8}
    BY <2>2 DEF Lower, Upper, Decimal
  <2>3. CASE k \in {9, 10, 11}
    BY <2>3 DEF Lower, Upper, Decimal
  <2>4. CASE k \in {12, 13, 14, 15, 16}
    BY <2>4 DEF Lower, Upper, Decimal
  <2> QED
    BY <2>1, <2>2, <2>3, <2>4
<1>2. CASE \E k \in 1 .. 16 : c \in {Lower[k], Upper[k]}
  <2> DEFINE k == CHOOSE k \in 1 .. 16 : c \in {Lower[k], Upper[k]}
  <2>1. k \in 1 .. 16 /\ c \in {Lower[k], Upper[k]}
    BY <1>2
  <2>2. A2D(c) = k - 1
    BY <1>2 DEF A2D
  <2> HIDE DEF k
  <2>3. InWidth(c) <=> k <= 11
    BY <2>1, <2>2 DEF InWidth
  <2>4. k <= 11 <=> c \in Decimal \union {"a", "A"}
    BY <2>1, <1>1
  <2> QED
    BY <2>3, <2>4
<1>3. CASE ~ \E k \in 1 .. 16 : c \in {Lower[k], Upper[k]}
  <2>1. ~ InWidth(c)
    BY <1>3 DEF A2D, InWidth
  <2>2. \A x \in Decimal \union {"a", "A"} : \E k \in 1 .. 16 : x \in {Lower[k], Upper[k]}
    <3>1. \A x \in Decimal : \E k \in 1 .. 16 : x = Lower[k]
      <4> SUFFICES ASSUME NEW x \in Decimal PROVE \E k \in 1 .. 16 : x = Lower[k]
        OBVIOUS
      <4>1. \E k \in {1, 2, 3, 4, 5, 6, 7, 8, 9, 10} : x = Lower[k]
        BY DEF Decimal, Lower
      <4> QED
        BY <4>1
    <3>2. Lower[11] = "a" /\ Upper[11] = "A" /\ 11 \in 1 .. 16
      BY DEF Lower, Upper
    <3> QED
      BY <3>1, <3>2
  <2> QED
    BY <1>3, <2>1, <2>2
<1> QED
  BY <1>2, <1>3

-----------------------------------------------------------------------------
(***************************************************************************)
(* Where the walk is while tfp_format is at each place.                    *)
(***************************************************************************)

\* The walk has come to i with k arguments, and the output is what it has.
Reached(i, k) == \E r : Walked(r) /\ r = [next |-> i, taken |-> k, sent |-> out]

\* From the `%' at i to the character read last there are digits only.
InConversion(i) ==
  /\ i \in Nat /\ 1 <= i /\ i <= Len(text) /\ text[i] = "%"
  /\ i + 2 <= fmt /\ fmt <= Len(text) + 2
  /\ \A k \in i + 1 .. fmt - 2 : k <= Len(text) /\ text[k] \in Decimal
  /\ ch = At(fmt - 1)
  /\ w = WidthAt(fmt - 2) /\ w >= 0
  /\ lz = IF At(i + 1) = "0" THEN 1 ELSE 0

\* In the loop over the text the walk is at the next character to read,
AtText == pc = "text" => Reached(fmt, Len(given))

\* behind a `%' still at the `%',
AtFlag ==
  pc = "flag" =>
    /\ fmt - 1 <= Len(text) /\ fmt >= 2 /\ text[fmt - 1] = "%" /\ lz = 0 /\ w = 0
    /\ Reached(fmt - 1, Len(given))

\* and there behind the zero flag,
AtZero ==
  pc = "zero" =>
    /\ fmt - 1 <= Len(text) /\ fmt >= 3 /\ text[fmt - 2] = "%" /\ text[fmt - 1] = "0"
    /\ lz = 1 /\ w = 0
    /\ Reached(fmt - 2, Len(given))

\* in the digits of the width,
AtWidth ==
  pc = "width" =>
    \E i \in Nat : /\ InConversion(i) /\ Reached(i, Len(given))
                   /\ ch \in Decimal \/ i < fmt - 2

\* at the letter,
AtConvert ==
  pc = "convert" =>
    \E i \in Nat : InConversion(i) /\ Reached(i, Len(given)) /\ ch \notin Decimal

\* and with the number taken but not printed.
AtNumber ==
  pc \in {"grow", "digits"} =>
    \E i \in Nat : InConversion(i) /\ Reached(i, Len(given) - 1) /\ ch \notin Decimal

\* At the end the walk has passed the text.
AtEnd ==
  pc = "done" =>
    \E r : /\ Walked(r) /\ r.next > Len(text)
           /\ out = IF call = "sprintf" THEN Append(r.sent, NUL) ELSE r.sent

\* Where the walk is at each place.
FormatInv ==
  Formats /\ Understood =>
    AtText /\ AtFlag /\ AtZero /\ AtWidth /\ AtConvert /\ AtNumber /\ AtEnd

\* The NUL is read behind the text only, and the letters are no digits.
LEMMA Letters ==
  /\ NUL \notin Taking \union {"%"} \union Decimal
  /\ \A c \in Taking \union {"%"} : c \notin Decimal
  /\ "0" \in Decimal
<1>1. NUL \notin {"%", "c", "s", "d", "u", "x", "X"} \union Decimal
  BY FormatAssumption DEF FormatAssumption
<1> QED
  BY <1>1 DEF Taking, Decimal

\* What the invariant says of the text and the arguments.
LEMMA TextIs ==
  ASSUME IInv
  PROVE  /\ text \in Seq(STRING) /\ Len(text) \in Nat
         /\ given \in Seq(Characters \union Strings \union Words) /\ Len(given) \in Nat
         /\ fmt \in Nat /\ fmt >= 1 /\ fmt <= Len(text) + 2
         /\ \A i \in Nat : At(i) = NUL => i > Len(text) \/ i = 0
<1>1. text \in Texts /\ \A s \in Texts : s \in Seq(STRING) /\ \A i \in DOMAIN s : s[i] # NUL
  BY FormatAssumption DEF FormatAssumption, IInv, TypeOK
<1>2. text \in Seq(STRING) /\ Len(text) \in Nat /\ \A i \in 1 .. Len(text) : text[i] # NUL
  BY <1>1
<1>3. \A i \in Nat : At(i) = NUL => i > Len(text) \/ i = 0
  BY <1>2 DEF At, CharAt
<1> QED
  BY <1>2, <1>3 DEF IInv, TypeOK, CallInv, Reading

\* The walk has the conversion that ends at j behind it.
Behind(r, j, k, o) == Beyond(r) = [next |-> j + 1, taken |-> k, sent |-> o]

\* Where a conversion ends and what the walk has behind it: the letter,
LEMMA ConversionEnds ==
  ASSUME IInv, UNCHANGED <<call, text>>, NEW i \in Nat, InConversion(i), ch \notin Decimal,
         NEW j, j = fmt - 1, NEW c, c = ch
  PROVE  /\ j \in Nat /\ i < j /\ At(j) = c /\ (c # NUL => text[j] = c /\ j <= Len(text))
         /\ Letter(i)' = j /\ At(j)' = c /\ text'[i] = "%" /\ ~ (i > Len(text'))
<1>1. /\ Len(text) \in Nat /\ j \in Nat
      /\ i < j /\ j <= Len(text) + 1 /\ j - 1 = fmt - 2
  BY TextIs DEF InConversion
<1>2. c = At(j) /\ text[i] = "%" /\ ~ (i > Len(text))
  BY <1>1 DEF InConversion
<1>3. c # NUL => text[j] = c /\ j <= Len(text)
  BY <1>1, <1>2 DEF At, CharAt
<1>4. \A l \in i + 1 .. j - 1 : l <= Len(text) /\ text[l] \in Decimal
  BY <1>1 DEF InConversion
<1>5. Letter(i) = j
  BY <1>1, <1>2, <1>4, LetterIs
<1>6. Letter(i)' = j /\ At(j)' = c
  BY <1>2, <1>5, TextOnly
<1> QED
  BY <1>1, <1>2, <1>3, <1>6

\* nothing for a letter nobody knows,
LEMMA SkipsUnknown ==
  ASSUME IInv, UNCHANGED <<call, text>>, NEW i \in Nat, InConversion(i), ch \notin Decimal,
         NEW j, j = fmt - 1, NEW c, c = ch,
         NEW k \in Nat, NEW o, NEW r, r = [next |-> i, taken |-> k, sent |-> o],
         c \notin Taking \union {"%"}
  PROVE  Behind(r, j, k, o)'
<1>1. Letter(i)' = j /\ At(j)' = c /\ text'[i] = "%" /\ ~ (i > Len(text'))
  BY ConversionEnds
<1>2. r.next = i /\ r.taken = k /\ r.sent = o
  OBVIOUS
<1> QED
  BY <1>1, <1>2 DEF Beyond, Behind

\* a `%' for a `%',
LEMMA SendsPercent ==
  ASSUME IInv, UNCHANGED <<call, text>>, NEW i \in Nat, InConversion(i), ch \notin Decimal,
         NEW j, j = fmt - 1, NEW c, c = ch,
         NEW k \in Nat, NEW o, NEW r, r = [next |-> i, taken |-> k, sent |-> o],
         c \in {"%"}, ~ (k > Len(given')), NEW t, t = o \o Sent(<<"%">>)
  PROVE  Behind(r, j, k, t)'
<1>1. /\ Letter(i)' = j /\ At(j)' = c /\ text'[i] = "%" /\ ~ (i > Len(text'))
      /\ c # NUL => text[j] = c
  BY ConversionEnds
<1>2. c = "%" /\ r.next = i /\ r.taken = k /\ r.sent = o /\ ~ (k > k)
  OBVIOUS
<1>3. "%" \notin Taking /\ NUL # "%"
  BY Letters DEF Taking
<1>4. Converted(i, j, NUL) = <<"%">>
  BY <1>1, <1>2, <1>3 DEF Converted
<1>5. Converted(i, j, NUL)' = <<"%">>
  BY <1>4, TextOnly
<1>6. Sent(<<"%">>)' = Sent(<<"%">>)
  BY TextOnly
<1>7. Beyond(r)' = [next |-> j + 1, taken |-> k, sent |-> o \o Sent(<<"%">>)']
  BY <1>1, <1>2, <1>3, <1>5 DEF Beyond
<1> QED
  BY <1>6, <1>7 DEF Behind

\* and the argument for any other.
LEMMA SendsArgument ==
  ASSUME IInv, UNCHANGED <<call, text>>, NEW i \in Nat, InConversion(i), ch \notin Decimal,
         NEW j, j = fmt - 1, NEW c, c = ch,
         NEW k \in Nat, NEW o, NEW r, r = [next |-> i, taken |-> k, sent |-> o],
         NEW m, m = k + 1, NEW y, y = given'[m], c \in Taking, ~ (m > Len(given')),
         NEW t, t = o \o Sent(Converted(i, j, y))
  PROVE  Behind(r, j, m, t)'
<1>1. Letter(i)' = j /\ At(j)' = c /\ text'[i] = "%" /\ ~ (i > Len(text'))
  BY ConversionEnds
<1>2. /\ r.next = i /\ r.taken = k /\ r.sent = o
      /\ m > k /\ r.taken + 1 = m
  OBVIOUS
<1>3. Converted(i, j, y)' = Converted(i, j, y)
  BY TextOnly
<1>4. Sent(Converted(i, j, y))' = Sent(Converted(i, j, y))
  BY <1>3, TextOnly
<1>5. Beyond(r)' = [next |-> j + 1, taken |-> m, sent |-> o \o Sent(Converted(i, j, y))']
  BY <1>1, <1>2 DEF Beyond
<1> QED
  BY <1>4, <1>5 DEF Behind

\* What bf holds when the digits are written.
LEMMA NumberWritten ==
  ASSUME IInv, NumberInv, pc = "digits", d = 0
  PROVE  /\ bf = Sign \o Numeral(Magnitude, Base, Digits)
         /\ Numeral(Magnitude, Base, Digits) \in Seq(Glyph)
<1>1. DigitsInv /\ Magnitude \in 0 .. Modulus - 1
  BY DEF NumberInv
<1>2. PICK m \in Nat, r \in Nat, q \in Nat :
        /\ HasDigits(Magnitude, Base, m) /\ r <= m + 1
        /\ d = IF r = 0 THEN 0 ELSE Power(Base, r - 1)
        /\ bf = Leading(Sign, Magnitude, Base, m, r, Digits)
  BY <1>1 DEF DigitsInv
<1>3. r = 0
  <2> SUFFICES ASSUME r # 0 PROVE FALSE
    OBVIOUS
  <2>1. r - 1 \in Nat /\ r - 1 <= r - 1
    BY <1>2
  <2>2. 1 <= Power(Base, r - 1)
    BY <2>1, BaseType, PowersGrow
  <2> QED
    BY <2>2, <1>2
<1>4. Numeral(Magnitude, Base, Digits) =
        [i \in 1 .. m + 1 |-> DigitAt(Magnitude, Base, m + 1 - i, Digits)]
  <2>1. m \in Nat /\ HasDigits(Magnitude, Base, m) /\ Base \in {10, 16}
    BY <1>2, BaseType
  <2> QED
    BY <2>1, <1>1, NumeralIs
<1>5. bf = Sign \o [i \in 1 .. m + 1 |-> DigitAt(Magnitude, Base, m + 1 - i, Digits)]
  <2> DEFINE first(k) == [i \in 1 .. k |-> DigitAt(Magnitude, Base, m + 1 - i, Digits)]
  <2>1. m + 1 - 0 = m + 1
    BY <1>2
  <2>2. bf = Sign \o first(m + 1 - 0)
    BY <1>2, <1>3 DEF Leading
  <2> HIDE DEF first
  <2>3. bf = Sign \o first(m + 1)
    BY <2>1, <2>2
  <2> QED
    BY <2>3 DEF first
<1>6. \A i \in 1 .. m + 1 : DigitAt(Magnitude, Base, m + 1 - i, Digits) \in Glyph
  <2> SUFFICES ASSUME NEW i \in 1 .. m + 1 PROVE DigitAt(Magnitude, Base, m + 1 - i, Digits) \in Glyph
    OBVIOUS
  <2> DEFINE M == Magnitude
             B == Base
             k == m + 1 - i
  <2>1. M \in Nat /\ B \in {10, 16} /\ k \in Nat
    BY <1>1, <1>2, BaseType, Tetrads
  <2> HIDE DEF M, B, k
  <2>2. DigitAt(M, B, k, Digits) \in Glyph
    BY <2>1, DigitType
  <2> QED
    BY <2>2 DEF M, B, k
<1>7. [i \in 1 .. m + 1 |-> DigitAt(Magnitude, Base, m + 1 - i, Digits)] \in Seq(Glyph)
  BY <1>2, <1>6
<1> QED
  BY <1>4, <1>5, <1>7

\* PutNumber prints what the format means.
LEMMA NumberPadded ==
  ASSUME IInv, NumberInv, pc = "digits", d = 0, NEW i \in Nat, InConversion(i),
         NEW j \in Nat, j = fmt - 1, text[j] = ch
  PROVE  Padded(lz, bf) = Converted(i, j, Argument)
<1>1. /\ bf = Sign \o Numeral(Magnitude, Base, Digits)
      /\ Numeral(Magnitude, Base, Digits) \in Seq(Glyph)
  BY NumberWritten
<1>2. /\ ch \in {"u", "d", "x", "X"} /\ Argument \in 0 .. Modulus - 1
      /\ Modulus \in Nat /\ Modulus >= 32
  BY Tetrads DEF NumberInv
<1>3. j - 1 = fmt - 2 /\ i + 1 <= Len(text) /\ i + 1 \in Nat
  <2>1. ch # NUL
    BY <1>2, Letters DEF Taking
  <2>2. Len(text) \in Nat /\ fmt \in Nat
    BY TextIs
  <2>3. fmt - 1 <= Len(text)
    BY <2>1, <2>2 DEF InConversion, At, CharAt
  <2> QED
    BY <2>2, <2>3 DEF InConversion
<1> DEFINE fill == IF text[i + 1] = "0" THEN "0" ELSE " "
<1>4. w = WidthAt(j - 1) /\ lz = IF text[i + 1] = "0" THEN 1 ELSE 0
  BY <1>3 DEF InConversion, At, CharAt
<1>5. (IF lz = 1 THEN "0" ELSE " ") = fill
  <2>1. CASE text[i + 1] = "0"
    <3>1. lz = 1
      BY <2>1, <1>4
    <3> QED
      BY <2>1, <3>1
  <2>2. CASE text[i + 1] # "0"
    <3>1. lz # 1
      BY <2>2, <1>4
    <3> QED
      BY <2>2, <3>1
  <2> QED
    BY <2>1, <2>2
<1>6. Padded(lz, bf) = Fill(fill, bf, WidthAt(j - 1))
  BY <1>4, <1>5 DEF Padded, Fill
<1>7. \A s \in Seq(Glyph) : <<>> \o s = s
  OBVIOUS
<1>8. CASE ch = "d"
  <2>1. Base = 10 /\ Digits = Lower
    BY <1>8 DEF Base, Digits
  <2>2. bf = Signed(Argument)
    <3>1. CASE Negative(Argument)
      <4>1. ~ (Argument < Modulus \div 2)
        BY <3>1, <1>2 DEF Negative
      <4> QED
        BY <4>1, <3>1, <2>1, <1>1 DEF Signed, Sign, Magnitude
    <3>2. CASE ~ Negative(Argument)
      <4>1. Argument < Modulus \div 2
        BY <3>2, <1>2, <1>8 DEF Negative
      <4> QED
        BY <4>1, <3>2, <2>1, <1>1, <1>7 DEF Signed, Sign, Magnitude
    <3> QED
      BY <3>1, <3>2
  <2> QED
    BY <2>2, <1>6, <1>8 DEF Converted
<1>9. ASSUME ch # "d" PROVE bf = Numeral(Argument, Base, Digits)
  <2>1. ~ Negative(Argument)
    BY <1>9 DEF Negative
  <2> QED
    BY <2>1, <1>1, <1>7 DEF Sign, Magnitude
<1>10. CASE ch = "u"
  <2>1. Base = 10 /\ Digits = Lower /\ ch # "d"
    BY <1>10 DEF Base, Digits
  <2> QED
    BY <2>1, <1>6, <1>9, <1>10 DEF Converted
<1>11. CASE ch = "x"
  <2>1. Base = 16 /\ Digits = Lower /\ ch # "d"
    BY <1>11 DEF Base, Digits
  <2> QED
    BY <2>1, <1>6, <1>9, <1>11 DEF Converted
<1>12. CASE ch = "X"
  <2>1. Base = 16 /\ Digits = Upper /\ ch # "d"
    BY <1>12 DEF Base, Digits
  <2> QED
    BY <2>1, <1>6, <1>9, <1>12 DEF Converted
<1> QED
  BY <1>2, <1>8, <1>10, <1>11, <1>12

-----------------------------------------------------------------------------
(***************************************************************************)
(* The steps of tfp_format.                                                *)
(***************************************************************************)

\* The walk goes on as the code does.
LEMMA Advance ==
  ASSUME IInv, UNCHANGED <<call, text>>,
         \/ given' = given
         \/ \E x \in Characters \union Strings \union Words : given' = Append(given, x),
         NEW i, NEW k, Reached(i, k), NEW r, r = [next |-> i, taken |-> k, sent |-> out],
         NEW s, s = Beyond(r)', i <= Len(text), s.next \in Nat, i < s.next,
         s.taken \in Nat, s.taken <= Len(given')
  PROVE  Walked(s)'
<1>1. Walked(r)
  BY DEF Reached
<1>2. Walked(r)'
  BY <1>1, TextIs, WalkLasts
<1>3. r.next = i /\ Len(text') \in Nat /\ Len(text') = Len(text)
  BY TextIs
<1> QED
  BY <1>2, <1>3, WalkGoesOn

\* What was reached stays reached while nothing is printed.
LEMMA Remains ==
  ASSUME IInv, UNCHANGED <<call, text, out>>,
         \/ given' = given
         \/ \E x \in Characters \union Strings \union Words : given' = Append(given, x),
         NEW i, NEW k, Reached(i, k)
  PROVE  Reached(i, k)'
<1>1. PICK r : Walked(r) /\ r = [next |-> i, taken |-> k, sent |-> out]
  BY DEF Reached
<1>2. Walked(r)'
  BY <1>1, TextIs, WalkLasts
<1> QED
  BY <1>1, <1>2 DEF Reached

\* The steps of the loop over the text.
LEMMA PlainFormats ==
  ASSUME IInv, FormatInv, Formats, Understood, Plain PROVE FormatInv'
<1>1. /\ pc = "text" /\ At(fmt) \notin {NUL, "%"} /\ fmt' = fmt + 1 /\ pc' = "text"
      /\ UNCHANGED <<call, text, given>> /\ out' = out \o Sent(<<At(fmt)>>)
  BY DEF Plain, Putf
<1>2. Reached(fmt, Len(given)) /\ fmt \in Nat /\ Len(text) \in Nat /\ Len(given) \in Nat
  BY <1>1, TextIs DEF FormatInv, AtText
<1>3. fmt <= Len(text) /\ text[fmt] = At(fmt)
  BY <1>1, <1>2 DEF At, CharAt
<1> DEFINE r == [next |-> fmt, taken |-> Len(given), sent |-> out]
           s == [next |-> fmt + 1, taken |-> Len(given), sent |-> out \o Sent(<<At(fmt)>>)]
<1>4. PICK i, r1, s1, c : i = fmt /\ r1 = r /\ s1 = s /\ c = At(fmt)
  OBVIOUS
<1>5. r1.next = i /\ r1.taken = Len(given) /\ r1.sent = out
  BY <1>4
<1>6. Beyond(r1)' = s1
  <2>1. /\ text' = text /\ text[i] = c /\ c # "%" /\ ~ (i > Len(text))
    BY <1>1, <1>2, <1>3, <1>4
  <2>2. Sent(<<c>>)' = Sent(<<c>>)
    BY <1>1, TextOnly
  <2>3. Beyond(r1)' = [next |-> i + 1, taken |-> Len(given), sent |-> out \o Sent(<<c>>)']
    BY <2>1, <1>5 DEF Beyond
  <2> QED
    BY <2>2, <2>3, <1>4
<1>7. /\ s1.next = fmt + 1 /\ s1.taken = Len(given) /\ fmt + 1 \in Nat /\ fmt < fmt + 1
      /\ Len(given') = Len(given) /\ Len(given) <= Len(given')
  BY <1>1, <1>2, <1>4
<1>8. Walked(s1)'
  BY <1>1, <1>2, <1>3, <1>4, <1>6, <1>7, Advance
<1>9. s1 = [next |-> fmt', taken |-> Len(given'), sent |-> out']
  BY <1>1, <1>4, <1>7
<1>10. Reached(fmt, Len(given))'
  BY <1>8, <1>9 DEF Reached
<1> QED
  BY <1>1, <1>10 DEF FormatInv, AtText, AtFlag, AtZero, AtWidth, AtConvert, AtNumber, AtEnd

\* At the text's end the walk is over.
LEMMA EndFormats ==
  ASSUME IInv, FormatInv, Formats, Understood, EndOfText PROVE FormatInv'
<1>1. /\ pc = "text" /\ At(fmt) = NUL /\ pc' = "done"
      /\ UNCHANGED <<call, text, given>>
      /\ out' = IF call = "sprintf" THEN Append(out, NUL) ELSE out
  BY DEF EndOfText, Return
<1>2. Reached(fmt, Len(given)) /\ fmt \in Nat /\ fmt >= 1 /\ Len(text) \in Nat /\ fmt > Len(text)
  BY <1>1, TextIs DEF FormatInv, AtText
<1>3. PICK r : Walked(r) /\ r = [next |-> fmt, taken |-> Len(given), sent |-> out]
  BY <1>2 DEF Reached
<1>4. Walked(r)'
  BY <1>1, <1>3, TextIs, WalkLasts
<1>5. r.next > Len(text') /\ r.sent = out
  BY <1>1, <1>2, <1>3
<1>6. AtEnd'
  BY <1>1, <1>4, <1>5 DEF AtEnd
<1> QED
  BY <1>1, <1>6 DEF FormatInv, AtText, AtFlag, AtZero, AtWidth, AtConvert, AtNumber

\* A `%' starts a conversion where the walk is.
LEMMA PercentFormats ==
  ASSUME IInv, FormatInv, Formats, Understood, Percent PROVE FormatInv'
<1>1. /\ pc = "text" /\ At(fmt) = "%" /\ fmt' = fmt + 1 /\ pc' = "flag" /\ lz' = 0 /\ w' = 0
      /\ UNCHANGED <<call, text, given, out>>
  BY DEF Percent
<1>2. Reached(fmt, Len(given)) /\ fmt \in Nat /\ fmt >= 1 /\ Len(text) \in Nat
  BY <1>1, TextIs DEF FormatInv, AtText
<1>3. fmt <= Len(text) /\ text[fmt] = "%"
  BY <1>1, <1>2, Letters DEF At, CharAt
<1>4. fmt' - 1 = fmt /\ fmt' >= 2
  BY <1>1, <1>2
<1>5. Reached(fmt - 1, Len(given))'
  <2>1. PICK i, k : i = fmt /\ k = Len(given)
    OBVIOUS
  <2>2. Reached(i, k)'
    BY <2>1, <1>1, <1>2, Remains
  <2> QED
    BY <2>1, <2>2, <1>1, <1>4 DEF Reached
<1>6. AtFlag'
  BY <1>1, <1>3, <1>4, <1>5 DEF AtFlag
<1> QED
  BY <1>1, <1>6 DEF FormatInv, AtText, AtZero, AtWidth, AtConvert, AtNumber, AtEnd

\* The zero flag is a digit that adds nothing to the width.
LEMMA ZeroIsZero == A2D("0") = 0 /\ "0" \in Decimal
<1> DEFINE P(k) == "0" \in {Lower[k], Upper[k]}
<1>1. \A k \in 1 .. 16 : P(k) <=> k = 1
  <2> SUFFICES ASSUME NEW k \in 1 .. 16 PROVE P(k) <=> k = 1
    OBVIOUS
  <2>1. k \in {1, 2, 3, 4, 5, 6, 7, 8} \/ k \in {9, 10, 11, 12, 13, 14, 15, 16}
    OBVIOUS
  <2>2. CASE k \in {1, 2, 3, 4, 5, 6, 7, 8}
    BY <2>2 DEF Lower, Upper
  <2>3. CASE k \in {9, 10, 11, 12, 13, 14, 15, 16}
    BY <2>3 DEF Lower, Upper
  <2> QED
    BY <2>1, <2>2, <2>3
<1>2. \E k \in 1 .. 16 : P(k)
  BY <1>1
<1> DEFINE k == CHOOSE k \in 1 .. 16 : P(k)
<1>3. k \in 1 .. 16 /\ P(k)
  BY <1>2
<1>4. A2D("0") = k - 1
  BY <1>2 DEF A2D
<1> HIDE DEF k, P
<1>5. k = 1
  BY <1>1, <1>3
<1> QED
  BY <1>4, <1>5 DEF Decimal

\* A field's character is read.
LEMMA ReadsOn ==
  ASSUME IInv, UNCHANGED <<call, text>>, NEW i \in Nat, 1 <= i, i <= Len(text), text[i] = "%",
         i + 1 <= fmt, fmt <= Len(text) + 1, fmt' = fmt + 1, ch' = At(fmt),
         \A k \in i + 1 .. fmt - 1 : k <= Len(text) /\ text[k] \in Decimal,
         w' = WidthAt(fmt - 1), w' >= 0, lz' = IF At(i + 1) = "0" THEN 1 ELSE 0
  PROVE  InConversion(i)'
<1>1. fmt \in Nat /\ Len(text) \in Nat
  BY TextIs
<1>2. fmt' - 1 = fmt /\ fmt' - 2 = fmt - 1 /\ text' = text
  BY <1>1
<1>3. PICK f : f = fmt
  OBVIOUS
<1>4. At(fmt - 1)' = At(fmt)
  <2>1. At(f)' = At(f)
    BY TextOnly
  <2> QED
    BY <2>1, <1>2, <1>3 DEF At
<1>5. WidthAt(fmt - 2)' = WidthAt(fmt - 1)
  <2>1. WidthAt(f - 1)' = WidthAt(f - 1)
    BY TextOnly
  <2>2. fmt' - 2 = f - 1
    BY <1>2, <1>3
  <2>3. WidthAt(fmt - 2)' = WidthAt(f - 1)'
    BY <2>2 DEF WidthAt
  <2> QED
    BY <2>1, <2>3, <1>3
<1>6. At(i + 1)' = At(i + 1)
  BY TextOnly
<1>7. i + 2 <= fmt' /\ fmt' <= Len(text') + 2
  BY <1>1
<1>8. \A k \in i + 1 .. fmt' - 2 : k <= Len(text') /\ text'[k] \in Decimal
  BY <1>2
<1> QED
  BY <1>4, <1>5, <1>6, <1>7, <1>8 DEF InConversion

\* The steps that read a conversion's field.
LEMMA FlagFormats ==
  ASSUME IInv, FormatInv, Formats, Understood, Flag PROVE FormatInv'
<1>1. /\ pc = "flag" /\ UNCHANGED <<call, text, given, out>> /\ w' = w /\ fmt' = fmt + 1
      /\ IF At(fmt) = "0"
         THEN ch' = "0" /\ pc' = "zero" /\ lz' = 1
         ELSE /\ ch' = At(fmt) /\ lz' = lz
              /\ pc' = IF At(fmt) \in Decimal THEN "width" ELSE "convert"
  BY DEF Flag, ReadField
<1>2. /\ fmt - 1 <= Len(text) /\ fmt >= 2 /\ text[fmt - 1] = "%" /\ lz = 0 /\ w = 0
      /\ Reached(fmt - 1, Len(given))
  BY <1>1 DEF FormatInv, AtFlag
<1>3. fmt \in Nat /\ Len(text) \in Nat /\ fmt <= Len(text) + 1
  BY <1>1, TextIs DEF IInv, Reading
<1>4. PICK i, k : i = fmt - 1 /\ k = Len(given)
  OBVIOUS
<1>5. Reached(i, k)'
  BY <1>1, <1>2, <1>4, Remains
<1>6. CASE At(fmt) = "0"
  <2>1. fmt <= Len(text) /\ text[fmt] = "0"
    BY <1>3, <1>6, Letters, ZeroIsZero DEF At, CharAt
  <2>2. fmt' - 2 = i /\ fmt' - 1 = fmt /\ k = Len(given') /\ fmt' >= 3
    BY <1>1, <1>2, <1>3, <1>4
  <2>3. Reached(fmt - 2, Len(given))'
    BY <2>2, <1>5 DEF Reached
  <2>4. AtZero'
    BY <2>1, <2>2, <2>3, <1>1, <1>2, <1>4, <1>6 DEF AtZero
  <2> QED
    BY <2>4, <1>1, <1>6 DEF FormatInv, AtText, AtFlag, AtWidth, AtConvert, AtNumber, AtEnd
<1>7. CASE At(fmt) # "0"
  <2>1. i \in Nat /\ 1 <= i /\ i <= Len(text) /\ text[i] = "%" /\ i + 1 = fmt
    BY <1>2, <1>3, <1>4
  <2>2. WidthAt(fmt - 1) = 0
    <3>1. i - 1 \in Nat /\ i - 1 + 1 = i
      BY <2>1
    <3>2. text[i] \notin Decimal
      BY <2>1, Letters
    <3>3. WidthAt(i) = 0
      BY <3>1, <3>2, WidthStep
    <3> QED
      BY <3>3, <1>4
  <2>3. \A l \in i + 1 .. fmt - 1 : l <= Len(text) /\ text[l] \in Decimal
    BY <2>1, <1>3
  <2>4. w' = WidthAt(fmt - 1) /\ w' >= 0 /\ lz' = IF At(i + 1) = "0" THEN 1 ELSE 0
    BY <2>1, <2>2, <1>1, <1>2, <1>7
  <2>5. InConversion(i)'
    BY <2>1, <2>3, <2>4, <1>1, <1>3, <1>7, ReadsOn
  <2>6. Reached(i, Len(given))'
    BY <1>1, <1>4, <1>5 DEF Reached
  <2>7. AtWidth' /\ AtConvert'
    BY <2>1, <2>5, <2>6, <1>1, <1>7 DEF AtWidth, AtConvert
  <2> QED
    BY <2>7, <1>1, <1>7 DEF FormatInv, AtText, AtFlag, AtZero, AtNumber, AtEnd
<1> QED
  BY <1>6, <1>7

\* After the zero flag.
LEMMA ZeroFormats ==
  ASSUME IInv, FormatInv, Formats, Understood, Zero PROVE FormatInv'
<1>1. /\ pc = "zero" /\ UNCHANGED <<call, text, given, out, lz, w>> /\ fmt' = fmt + 1
      /\ ch' = At(fmt) /\ pc' = IF At(fmt) \in Decimal THEN "width" ELSE "convert"
  BY DEF Zero, ReadField, field
<1>2. /\ fmt - 1 <= Len(text) /\ fmt >= 3 /\ text[fmt - 2] = "%" /\ text[fmt - 1] = "0"
      /\ lz = 1 /\ w = 0 /\ Reached(fmt - 2, Len(given))
  BY <1>1 DEF FormatInv, AtZero
<1>3. fmt \in Nat /\ Len(text) \in Nat /\ fmt <= Len(text) + 1
  BY <1>1, TextIs DEF IInv, Reading
<1>4. PICK i, k : i = fmt - 2 /\ k = Len(given)
  OBVIOUS
<1>5. Reached(i, k)'
  BY <1>1, <1>2, <1>4, Remains
<1>6. i \in Nat /\ 1 <= i /\ i <= Len(text) /\ text[i] = "%" /\ i + 1 = fmt - 1 /\ i + 1 <= fmt
  BY <1>2, <1>3, <1>4
<1>7. At(i + 1) = "0"
  BY <1>2, <1>3, <1>6 DEF At, CharAt
<1>8. WidthAt(fmt - 1) = 0
  <2>1. i - 1 \in Nat /\ i - 1 + 1 = i
    BY <1>6
  <2>2. text[i] \notin Decimal
    BY <1>6, Letters
  <2>3. WidthAt(i) = 0
    BY <2>1, <2>2, WidthStep
  <2>4. text[i + 1] = "0"
    BY <1>2, <1>6
  <2>5. WidthAt(i + 1) = 10 * 0 + 0
    BY <2>3, <2>4, <1>6, ZeroIsZero, WidthStep
  <2> QED
    BY <2>5, <1>6
<1>9. \A l \in i + 1 .. fmt - 1 : l <= Len(text) /\ text[l] \in Decimal
  <2> SUFFICES ASSUME NEW l \in i + 1 .. fmt - 1 PROVE l <= Len(text) /\ text[l] \in Decimal
    OBVIOUS
  <2>1. l = fmt - 1
    BY <1>3, <1>6
  <2> QED
    BY <2>1, <1>2, ZeroIsZero
<1>10. w' = WidthAt(fmt - 1) /\ w' >= 0 /\ lz' = IF At(i + 1) = "0" THEN 1 ELSE 0
  BY <1>1, <1>2, <1>7, <1>8
<1>11. InConversion(i)'
  BY <1>1, <1>3, <1>6, <1>9, <1>10, ReadsOn
<1>12. Reached(i, Len(given))'
  BY <1>1, <1>4, <1>5 DEF Reached
<1>13. AtWidth' /\ AtConvert'
  BY <1>1, <1>6, <1>11, <1>12 DEF AtWidth, AtConvert
<1> QED
  BY <1>1, <1>13 DEF FormatInv, AtText, AtFlag, AtZero, AtNumber, AtEnd

\* A digit of the width, or the letter behind it.
LEMMA WidthFormats ==
  ASSUME IInv, FormatInv, Formats, Understood, Width PROVE FormatInv'
<1>1. /\ pc = "width" /\ UNCHANGED <<call, text, given, out, lz>>
      /\ IF InWidth(ch)
         THEN w' = AsInt(w * 10 + A2D(ch)) /\ fmt' = fmt + 1 /\ ch' = At(fmt) /\ pc' = "width"
         ELSE pc' = "convert" /\ UNCHANGED <<w, fmt, ch>>
  BY DEF Width
<1>2. PICK i \in Nat : /\ InConversion(i) /\ Reached(i, Len(given))
                       /\ ch \in Decimal \/ i < fmt - 2
  BY <1>1 DEF FormatInv, AtWidth
<1>3. fmt \in Nat /\ Len(text) \in Nat /\ w \in Int
  BY TextIs, Tetrads DEF IInv, TypeOK, AnInt
<1>4. PICK k : k = Len(given)
  OBVIOUS
<1>5. Reached(i, k)'
  BY <1>1, <1>2, <1>4, Remains
<1>6. Reached(i, Len(given))'
  BY <1>1, <1>4, <1>5 DEF Reached
<1>7. /\ 1 <= i /\ i <= Len(text) /\ text[i] = "%" /\ i + 2 <= fmt /\ fmt <= Len(text) + 2
      /\ \A l \in i + 1 .. fmt - 2 : l <= Len(text) /\ text[l] \in Decimal
      /\ ch = At(fmt - 1) /\ w = WidthAt(fmt - 2) /\ w >= 0 /\ lz = IF At(i + 1) = "0" THEN 1 ELSE 0
  BY <1>2 DEF InConversion
<1>8. CASE InWidth(ch)
  <2>1. ch # NUL
    BY <1>8, NulIsNoDigit DEF InWidth
  <2>2. fmt - 1 <= Len(text) /\ text[fmt - 1] = ch
    BY <2>1, <1>3, <1>7 DEF At, CharAt
  <2>3. ch \in Decimal
    <3> SUFFICES ASSUME ch \notin Decimal PROVE FALSE
      OBVIOUS
    <3>1. ch \in {"a", "A"} /\ i < fmt - 2
      BY <1>2, <1>8, InWidthIs
    <3>2. fmt - 2 \in i + 1 .. Len(text) /\ i \in DOMAIN text /\ fmt - 2 + 1 = fmt - 1
      BY <3>1, <2>2, <1>3, <1>7
    <3>3. At(fmt - 2 + 1) \notin {"a", "A"}
      BY <3>2, <1>7 DEF Understood
    <3> QED
      BY <3>1, <3>2, <3>3, <1>7
  <2>4. \A l \in i + 1 .. fmt - 1 : l <= Len(text) /\ text[l] \in Decimal
    <3> SUFFICES ASSUME NEW l \in i + 1 .. fmt - 1 PROVE l <= Len(text) /\ text[l] \in Decimal
      OBVIOUS
    <3>1. l = fmt - 1 \/ l \in i + 1 .. fmt - 2
      BY <1>3
    <3> QED
      BY <3>1, <2>2, <2>3, <1>7
  <2>5. w' = WidthAt(fmt - 1) /\ w' >= 0
    <3>1. fmt - 2 \in Nat /\ fmt - 2 + 1 = fmt - 1
      BY <1>3, <1>7
    <3>2. text[fmt - 1] \in Decimal
      BY <2>2, <2>3
    <3>3. WidthAt(fmt - 1) = 10 * WidthAt(fmt - 2) + A2D(text[fmt - 1])
      <4>1. WidthAt(fmt - 2 + 1) = IF text[fmt - 2 + 1] \in Decimal
               THEN 10 * WidthAt(fmt - 2) + A2D(text[fmt - 2 + 1]) ELSE 0
        BY <3>1, WidthStep
      <4> QED
        BY <4>1, <3>1, <3>2
    <3>4. WidthAt(fmt - 1) = 10 * w + A2D(ch)
      BY <3>3, <2>2, <1>7
    <3>5. WidthAt(fmt - 1) < Modulus \div 2
      <4>1. fmt - 1 \in i + 1 .. Len(text) /\ i \in DOMAIN text
        BY <2>2, <1>3, <1>7
      <4> QED
        BY <4>1, <2>4, <1>7 DEF Understood
    <3> DEFINE n == w * 10 + A2D(ch)
    <3>6. n = WidthAt(fmt - 1) /\ n \in Int /\ 0 <= n
      <4>1. A2D(ch) \in Nat
        BY <1>8, A2DType DEF InWidth
      <4> QED
        BY <4>1, <3>4, <1>3, <1>7
    <3> HIDE DEF n
    <3>7. AsInt(n) = n
      BY <3>5, <3>6, IntLaws
    <3> QED
      BY <3>6, <3>7, <1>1, <1>8 DEF n
  <2>6. i + 1 <= fmt /\ fmt <= Len(text) + 1 /\ lz' = IF At(i + 1) = "0" THEN 1 ELSE 0
    BY <2>2, <1>1, <1>3, <1>7
  <2>7. InConversion(i)'
    BY <2>4, <2>5, <2>6, <1>1, <1>3, <1>7, <1>8, ReadsOn
  <2>8. i < fmt' - 2
    BY <1>1, <1>3, <1>7, <1>8
  <2>9. AtWidth'
    BY <2>7, <2>8, <1>6 DEF AtWidth
  <2> QED
    BY <2>9, <1>1, <1>8 DEF FormatInv, AtText, AtFlag, AtZero, AtConvert, AtNumber, AtEnd
<1>9. CASE ~ InWidth(ch)
  <2>1. ch \notin Decimal
    BY <1>9, InWidthIs
  <2>2. InConversion(i)'
    BY <1>1, <1>2, <1>9 DEF InConversion, At, WidthAt
  <2>3. AtConvert'
    BY <2>1, <2>2, <1>1, <1>6, <1>9 DEF AtConvert
  <2> QED
    BY <2>3, <1>1, <1>9 DEF FormatInv, AtText, AtFlag, AtZero, AtWidth, AtNumber, AtEnd
<1> QED
  BY <1>8, <1>9

\* The conversions that end with the next character of the text.
LEMMA ToText ==
  ASSUME FormatInv, UNCHANGED <<call, text>>, pc' = "text", NEW r,
         Walked(r)', r = [next |-> fmt', taken |-> Len(given'), sent |-> out']
  PROVE  FormatInv'
<1>1. Reached(fmt, Len(given))'
  BY DEF Reached
<1> QED
  BY <1>1 DEF FormatInv, AtText, AtFlag, AtZero, AtWidth, AtConvert, AtNumber, AtEnd

\* The text's end inside a conversion, where the walk prints nothing.
LEMMA AbortFormats ==
  ASSUME IInv, FormatInv, Formats, Understood, Abort PROVE FormatInv'
<1>1. /\ pc = "convert" /\ ch = NUL /\ pc' = "done"
      /\ UNCHANGED <<call, text, given, fmt, ch>>
      /\ out' = IF call = "sprintf" THEN Append(out, NUL) ELSE out
  BY DEF Abort, Return
<1>2. PICK i \in Nat : InConversion(i) /\ Reached(i, Len(given)) /\ ch \notin Decimal
  BY <1>1 DEF FormatInv, AtConvert
<1>3. PICK k, o, j, c, r : /\ k = Len(given) /\ o = out /\ j = fmt - 1 /\ c = ch
                        /\ r = [next |-> i, taken |-> k, sent |-> o]
  OBVIOUS
<1>4. /\ k \in Nat /\ Len(text) \in Nat /\ fmt \in Nat /\ c \notin Taking \union {"%"}
      /\ i <= Len(text)
  BY <1>1, <1>2, <1>3, TextIs, Letters DEF InConversion
<1>5. j \in Nat /\ i < j /\ At(j) = c
  BY <1>1, <1>2, <1>3, ConversionEnds
<1>6. Behind(r, j, k, o)'
  BY <1>1, <1>2, <1>3, <1>4, SkipsUnknown
<1>7. PICK s : s = [next |-> j + 1, taken |-> k, sent |-> o]
  OBVIOUS
<1>8. /\ s = Beyond(r)' /\ s.next = j + 1 /\ s.taken = k /\ s.sent = o
      /\ j + 1 \in Nat /\ i < j + 1 /\ k <= Len(given')
  BY <1>1, <1>3, <1>4, <1>5, <1>6, <1>7 DEF Behind
<1>9. Walked(s)'
  BY <1>1, <1>2, <1>3, <1>4, <1>8, Advance
<1>10. j > Len(text)
  BY <1>1, <1>3, <1>5, <1>6, TextIs
<1>11. s.next > Len(text')
  BY <1>1, <1>4, <1>5, <1>6, <1>8, <1>10
<1>12. out' = IF call' = "sprintf" THEN Append(s.sent, NUL) ELSE s.sent
  BY <1>1, <1>3, <1>8
<1>13. AtEnd'
  BY <1>1, <1>9, <1>11, <1>12 DEF AtEnd
<1> QED
  BY <1>1, <1>13 DEF FormatInv, AtText, AtFlag, AtZero, AtWidth, AtConvert, AtNumber

\* A letter nobody knows.
LEMMA OtherFormats ==
  ASSUME IInv, FormatInv, Formats, Understood, ConvertOther PROVE FormatInv'
<1>1. /\ pc = "convert" /\ ch \notin {NUL, "%", "c", "s", "u", "x", "X", "d"} /\ pc' = "text"
      /\ UNCHANGED <<call, text, given, fmt, ch, out>>
  BY DEF ConvertOther
<1>2. PICK i \in Nat : InConversion(i) /\ Reached(i, Len(given)) /\ ch \notin Decimal
  BY <1>1 DEF FormatInv, AtConvert
<1>3. PICK k, o, j, c, r : /\ k = Len(given) /\ o = out /\ j = fmt - 1 /\ c = ch
                        /\ r = [next |-> i, taken |-> k, sent |-> o]
  OBVIOUS
<1>4. /\ k \in Nat /\ Len(text) \in Nat /\ fmt \in Nat /\ c \notin Taking \union {"%"}
      /\ i <= Len(text)
  BY <1>1, <1>2, <1>3, TextIs DEF InConversion, Taking
<1>5. j \in Nat /\ i < j /\ At(j) = c
  BY <1>1, <1>2, <1>3, ConversionEnds
<1>6. Behind(r, j, k, o)'
  BY <1>1, <1>2, <1>3, <1>4, SkipsUnknown
<1>7. PICK s : s = [next |-> j + 1, taken |-> k, sent |-> o]
  OBVIOUS
<1>8. /\ s = Beyond(r)' /\ s.next = j + 1 /\ s.taken = k /\ s.sent = o
      /\ j + 1 \in Nat /\ i < j + 1 /\ k <= Len(given')
  BY <1>1, <1>3, <1>4, <1>5, <1>6, <1>7 DEF Behind
<1>9. Walked(s)'
  BY <1>1, <1>2, <1>3, <1>4, <1>8, Advance
<1>10. s = [next |-> fmt', taken |-> Len(given'), sent |-> out']
  BY <1>1, <1>3, <1>4, <1>7
<1> QED
  BY <1>1, <1>9, <1>10, ToText

\* `%%'.
LEMMA PercentConvertFormats ==
  ASSUME IInv, FormatInv, Formats, Understood, ConvertPercent PROVE FormatInv'
<1>1. /\ pc = "convert" /\ ch = "%" /\ pc' = "text"
      /\ UNCHANGED <<call, text, given, fmt, ch>> /\ out' = out \o Sent(<<ch>>)
  BY DEF ConvertPercent, Putf
<1>2. PICK i \in Nat : InConversion(i) /\ Reached(i, Len(given)) /\ ch \notin Decimal
  BY <1>1 DEF FormatInv, AtConvert
<1>3. PICK k, o, j, c, r : /\ k = Len(given) /\ o = out /\ j = fmt - 1 /\ c = ch
                        /\ r = [next |-> i, taken |-> k, sent |-> o]
  OBVIOUS
<1>4. /\ k \in Nat /\ Len(text) \in Nat /\ fmt \in Nat /\ c \in {"%"} /\ ~ (k > Len(given'))
      /\ i <= Len(text)
  BY <1>1, <1>2, <1>3, TextIs DEF InConversion
<1>5. j \in Nat /\ i < j
  BY <1>1, <1>2, <1>3, ConversionEnds
<1>6. PICK t : t = o \o Sent(<<"%">>)
  OBVIOUS
<1>7. Behind(r, j, k, t)'
  BY <1>1, <1>6, <1>2, <1>3, <1>4, SendsPercent
<1>8. PICK s : s = [next |-> j + 1, taken |-> k, sent |-> t]
  OBVIOUS
<1>9. s = Beyond(r)' /\ s.next = j + 1 /\ s.taken = k /\ j + 1 \in Nat /\ i < j + 1
  BY <1>1, <1>3, <1>4, <1>5, <1>7, <1>8 DEF Behind
<1>10. Walked(s)'
  BY <1>1, <1>2, <1>3, <1>4, <1>9, Advance
<1>11. s = [next |-> fmt', taken |-> Len(given'), sent |-> out']
  BY <1>1, <1>3, <1>6, <1>4, <1>8
<1> QED
  BY <1>1, <1>10, <1>11, ToText

\* `%c' and `%s'.
LEMMA ArgumentFormats ==
  ASSUME IInv, FormatInv, Formats, Understood,
         NEW x \in Characters \union Strings, ConvertCharacter(x) \/ ConvertString(x)
  PROVE  FormatInv'
<1>1. /\ pc = "convert" /\ pc' = "text" /\ given' = Append(given, x)
      /\ UNCHANGED <<call, text, fmt, ch>>
      /\ \/ ch = "c" /\ out' = out \o Sent(<<x>>)
         \/ ch = "s" /\ out' = out \o Sent(Padded(0, x))
  BY DEF ConvertCharacter, ConvertString, Putf
<1>2. PICK i \in Nat : InConversion(i) /\ Reached(i, Len(given)) /\ ch \notin Decimal
  BY <1>1 DEF FormatInv, AtConvert
<1>3. PICK k, m, o, j, c, r : /\ k = Len(given) /\ m = k + 1 /\ o = out /\ j = fmt - 1 /\ c = ch
                        /\ r = [next |-> i, taken |-> k, sent |-> o]
  OBVIOUS
<1>4. /\ k \in Nat /\ Len(text) \in Nat /\ fmt \in Nat /\ c \in Taking /\ c # NUL
      /\ i <= Len(text) /\ m = Len(given') /\ ~ (m > Len(given')) /\ x = given'[m]
      /\ x \in Characters \union Strings \union Words
  BY <1>1, <1>2, <1>3, TextIs, Letters DEF InConversion, Taking
<1>5. j \in Nat /\ i < j /\ text[j] = c
  BY <1>1, <1>2, <1>3, <1>4, ConversionEnds
<1>6. PICK t : t = o \o Sent(Converted(i, j, x))
  OBVIOUS
<1>7. Behind(r, j, m, t)'
  BY <1>1, <1>6, <1>2, <1>3, <1>4, SendsArgument
<1>8. PICK s : s = [next |-> j + 1, taken |-> m, sent |-> t]
  OBVIOUS
<1>9. /\ s = Beyond(r)' /\ s.next = j + 1 /\ s.taken = m /\ j + 1 \in Nat /\ i < j + 1
      /\ m \in Nat /\ m <= Len(given')
  BY <1>1, <1>3, <1>4, <1>5, <1>7, <1>8 DEF Behind
<1>10. Walked(s)'
  BY <1>1, <1>2, <1>3, <1>4, <1>9, Advance
<1>11. out' = out \o Sent(Converted(i, j, x))
  <2>1. CASE ch = "c" /\ out' = out \o Sent(<<x>>)
    <3>1. Converted(i, j, x) = <<x>>
      BY <2>1, <1>3, <1>5, <1>7 DEF Converted
    <3> QED
      BY <2>1, <3>1
  <2>2. CASE ch = "s" /\ out' = out \o Sent(Padded(0, x))
    <3>1. Converted(i, j, x) = Fill(" ", x, WidthAt(j - 1))
      BY <2>2, <1>3, <1>5, <1>7 DEF Converted
    <3>2. w = WidthAt(j - 1)
      <4>1. j - 1 = fmt - 2
        BY <1>3, <1>4
      <4> QED
        BY <4>1, <1>2 DEF InConversion
    <3>3. (IF 0 = 1 THEN "0" ELSE " ") = " "
      OBVIOUS
    <3>4. Padded(0, x) = Fill(" ", x, WidthAt(j - 1))
      BY <3>2, <3>3 DEF Padded, Fill
    <3> QED
      BY <2>2, <3>1, <3>4
  <2> QED
    BY <1>1, <2>1, <2>2
<1>12. t = out'
  BY <1>3, <1>6, <1>11
<1>13. s = [next |-> fmt', taken |-> Len(given'), sent |-> out']
  BY <1>1, <1>3, <1>4, <1>8, <1>12
<1> QED
  BY <1>1, <1>10, <1>13, ToText

\* A number is taken, and its conversion is not yet behind the walk.
LEMMA NumberFormats ==
  ASSUME IInv, FormatInv, Formats, Understood, NEW n \in Words, ConvertNumber(n)
  PROVE  FormatInv'
<1>1. /\ pc = "convert" /\ pc' = "grow" /\ given' = Append(given, n)
      /\ UNCHANGED <<call, text, fmt, ch, lz, w, out>>
  BY DEF ConvertNumber, field
<1>2. PICK i \in Nat : InConversion(i) /\ Reached(i, Len(given)) /\ ch \notin Decimal
  BY <1>1 DEF FormatInv, AtConvert
<1>3. PICK k : k = Len(given)
  OBVIOUS
<1>4. Reached(i, k)'
  BY <1>1, <1>2, <1>3, Remains
<1>5. Len(given') - 1 = k
  BY <1>1, <1>3, TextIs
<1>6. Reached(i, Len(given) - 1)'
  BY <1>4, <1>5 DEF Reached
<1>7. InConversion(i)'
  BY <1>1, <1>2 DEF InConversion, At, WidthAt
<1>8. AtNumber'
  BY <1>1, <1>2, <1>6, <1>7 DEF AtNumber
<1> QED
  BY <1>1, <1>8 DEF FormatInv, AtText, AtFlag, AtZero, AtWidth, AtConvert, AtEnd

\* ui2a prints nothing.
LEMMA DivisionFormats ==
  ASSUME IInv, FormatInv, Formats, Understood, GrowDivisor \/ WriteDigit
  PROVE  FormatInv'
<1>1. /\ pc \in {"grow", "digits"} /\ pc' \in {"grow", "digits"}
      /\ UNCHANGED <<call, text, fmt, ch, lz, w, given, out>>
  BY DEF GrowDivisor, WriteDigit, field
<1>2. PICK i \in Nat : InConversion(i) /\ Reached(i, Len(given) - 1) /\ ch \notin Decimal
  BY <1>1 DEF FormatInv, AtNumber
<1>3. PICK k : k = Len(given) - 1
  OBVIOUS
<1>4. Reached(i, k)'
  BY <1>1, <1>2, <1>3, Remains
<1>5. Reached(i, Len(given) - 1)'
  BY <1>1, <1>3, <1>4 DEF Reached
<1>6. InConversion(i)'
  BY <1>1, <1>2 DEF InConversion, At, WidthAt
<1>7. AtNumber'
  BY <1>1, <1>2, <1>5, <1>6 DEF AtNumber
<1> QED
  BY <1>1, <1>7 DEF FormatInv, AtText, AtFlag, AtZero, AtWidth, AtConvert, AtEnd

\* The number is printed as the walk has it.
LEMMA PutFormats ==
  ASSUME IInv, NumberInv, FormatInv, Formats, Understood, PutNumber
  PROVE  FormatInv'
<1>1. /\ pc = "digits" /\ d = 0 /\ pc' = "text"
      /\ UNCHANGED <<call, text, fmt, ch, given>> /\ out' = out \o Sent(Padded(lz, bf))
  BY DEF PutNumber, Putf
<1>2. PICK i \in Nat : InConversion(i) /\ Reached(i, Len(given) - 1) /\ ch \notin Decimal
  BY <1>1 DEF FormatInv, AtNumber
<1>3. PICK k, m, o, j, c, y, r : /\ k = Len(given) - 1 /\ m = k + 1 /\ o = out /\ j = fmt - 1 /\ c = ch
                        /\ y = given'[m] /\ r = [next |-> i, taken |-> k, sent |-> o]
  OBVIOUS
<1>4. ch \in {"u", "d", "x", "X"} /\ given # <<>>
  BY <1>1 DEF NumberInv
<1>5. /\ k \in Nat /\ Len(text) \in Nat /\ fmt \in Nat /\ c \in Taking /\ c # NUL
      /\ i <= Len(text) /\ m = Len(given') /\ ~ (m > Len(given')) /\ y = Argument
  BY <1>1, <1>2, <1>3, <1>4, TextIs, Letters DEF InConversion, Taking, Argument
<1>6. j \in Nat /\ i < j /\ text[j] = c
  BY <1>1, <1>2, <1>3, <1>5, ConversionEnds
<1>7. PICK t : t = o \o Sent(Converted(i, j, y))
  OBVIOUS
<1>8. Behind(r, j, m, t)'
  BY <1>1, <1>7, <1>2, <1>3, <1>5, SendsArgument
<1>9. PICK s : s = [next |-> j + 1, taken |-> m, sent |-> t]
  OBVIOUS
<1>10. /\ s = Beyond(r)' /\ s.next = j + 1 /\ s.taken = m /\ j + 1 \in Nat /\ i < j + 1
       /\ m \in Nat /\ m <= Len(given')
  BY <1>1, <1>3, <1>5, <1>6, <1>8, <1>9 DEF Behind
<1>11. Walked(s)'
  BY <1>1, <1>2, <1>3, <1>5, <1>10, Advance
<1>12. Padded(lz, bf) = Converted(i, j, Argument)
  BY <1>1, <1>2, <1>3, <1>6, <1>8, NumberPadded
<1>13. t = out'
  BY <1>1, <1>3, <1>7, <1>5, <1>12
<1>14. s = [next |-> fmt', taken |-> Len(given'), sent |-> out']
  BY <1>1, <1>3, <1>5, <1>9, <1>13
<1> QED
  BY <1>1, <1>11, <1>14, ToText

-----------------------------------------------------------------------------
(***************************************************************************)
(* uart_hex.                                                               *)
(***************************************************************************)

\* The last r of the word's tetrads are still to be printed.
Tetrad(r, k) ==
  /\ Modulus = Power(16, k) /\ r <= k
  /\ d = IF r = 0 THEN 0 ELSE Power(16, r - 1)
  /\ out = [i \in 1 .. k - r |-> DigitAt(num, 16, k - i, Upper)]

\* uart_hex has printed the first tetrads.
HexInv ==
  call = "uart_hex" =>
    \E k \in Nat, r \in Nat : Tetrad(r, k) /\ (pc = "done" => r = 0)

\* A tetrad's digit.
LEMMA HexDigit ==
  ASSUME NEW n \in Nat, NEW k \in Nat
  PROVE  /\ DigitAt(n, 16, k, Upper) \in Glyph
         /\ n < Power(16, k) => DigitAt(n, 16, k, Upper) = "0"
<1>1. Power(16, k) \in Nat /\ 1 <= Power(16, k)
  <2>1. 16 \in Nat /\ 16 >= 1 /\ k <= k
    OBVIOUS
  <2> QED
    BY <2>1, PowerLaws, PowersGrow
<1> DEFINE p == Power(16, k)
           q == n \div p
<1>2. p \in Nat /\ p >= 1
  BY <1>1
<1> HIDE DEF p
<1>3. q \in Nat /\ (n < p => q = 0)
  <2>1. q \in Nat /\ p * q <= n
    BY <1>2, Division
  <2>2. q >= 1 => p * 1 <= p * q
    BY <1>2, <2>1, FactorsInOrder
  <2> QED
    BY <1>2, <2>1, <2>2
<1>4. DigitAt(n, 16, k, Upper) = Upper[(q % 16) + 1]
  BY DEF DigitAt, p
<1> HIDE DEF q
<1>5. (q % 16) + 1 \in 1 .. 16 /\ (q = 0 => (q % 16) + 1 = 1)
  BY <1>3
<1>6. Upper[1] = "0"
  BY DEF Upper
<1>7. Upper[(q % 16) + 1] \in Glyph
  BY <1>5 DEF Glyph
<1> QED
  BY <1>3, <1>4, <1>5, <1>6, <1>7 DEF p

\* A weight divided by sixteen is that of the next tetrad.
LEMMA NextWeight ==
  ASSUME NEW r \in Nat, r # 0, NEW p, p = Power(16, r - 1)
  PROVE  p \div 16 = IF r - 1 = 0 THEN 0 ELSE Power(16, r - 1 - 1)
<1>1. 16 \in Nat
  OBVIOUS
<1>2. CASE r = 1
  BY <1>1, <1>2, PowerLaws
<1>3. CASE r # 1
  <2>1. r - 1 - 1 \in Nat /\ r - 1 - 1 + 1 = r - 1 /\ r - 1 # 0
    BY <1>3
  <2>2. Power(16, r - 1 - 1 + 1) = 16 * Power(16, r - 1 - 1) /\ Power(16, r - 1 - 1) \in Nat
    BY <1>1, <2>1, PowerLaws
  <2>3. p = 16 * Power(16, r - 1 - 1)
    BY <2>1, <2>2
  <2> QED
    BY <2>1, <2>2, <2>3
<1> QED
  BY <1>2, <1>3

\* At the start no tetrad is printed.
LEMMA HexInit == Init => HexInv
<1> SUFFICES ASSUME Init, call = "uart_hex" PROVE HexInv
  BY DEF HexInv
<1>1. pc = "hex" /\ d = Modulus \div 16 /\ out = <<>>
  BY DEF Init, InitCommon, InitFormat, InitPuts, InitHex, InitStrlen, InitStreq
<1>2. PICK t \in Nat : /\ t >= 1 /\ Modulus = Power(16, t + 1) /\ Modulus \div 16 = Power(16, t)
  BY Tetrads
<1>3. PICK k : k = t + 1
  OBVIOUS
<1>4. k \in Nat /\ k # 0 /\ k - 1 = t /\ k <= k /\ k - k = 0
  BY <1>2, <1>3
<1>5. out = [i \in 1 .. k - k |-> DigitAt(num, 16, k - i, Upper)]
  BY <1>1, <1>4
<1>6. Tetrad(k, k)
  BY <1>1, <1>2, <1>3, <1>4, <1>5 DEF Tetrad
<1> QED
  BY <1>1, <1>4, <1>6 DEF HexInv

\* The digits printed and one more.
LEMMA HexStep ==
  ASSUME NEW n \in Nat, NEW k \in Nat, NEW l \in Nat, l < k
  PROVE  [i \in 1 .. l + 1 |-> DigitAt(n, 16, k - i, Upper)] =
           Append([i \in 1 .. l |-> DigitAt(n, 16, k - i, Upper)], DigitAt(n, 16, k - (l + 1), Upper))
<1> DEFINE all == [i \in 1 .. l + 1 |-> DigitAt(n, 16, k - i, Upper)]
           most == [i \in 1 .. l |-> DigitAt(n, 16, k - i, Upper)]
           last == DigitAt(n, 16, k - (l + 1), Upper)
<1>1. \A i \in 1 .. l + 1 : DigitAt(n, 16, k - i, Upper) \in Glyph
  <2> SUFFICES ASSUME NEW i \in 1 .. l + 1 PROVE DigitAt(n, 16, k - i, Upper) \in Glyph
    OBVIOUS
  <2>1. k - i \in Nat
    OBVIOUS
  <2> QED
    BY <2>1, HexDigit
<1>2. /\ all \in [1 .. l + 1 -> Glyph] /\ most \in [1 .. l -> Glyph]
      /\ all[l + 1] = last /\ last \in Glyph
      /\ \A i \in 1 .. l : most[i] = all[i]
  BY <1>1
<1> HIDE DEF all, most, last
<1>3. all \in Seq(Glyph) /\ most \in Seq(Glyph) /\ Len(all) = l + 1 /\ Len(most) = l
  BY <1>2
<1>4. /\ Append(most, last) \in Seq(Glyph) /\ Len(Append(most, last)) = l + 1
      /\ \A i \in 1 .. l + 1 : Append(most, last)[i] = all[i]
  BY <1>2, <1>3
<1>5. all = Append(most, last)
  BY <1>3, <1>4
<1> QED
  BY <1>5 DEF all, most, last

\* A step prints the next tetrad or none is left.
LEMMA HexNext ==
  ASSUME IInv, HexInv, call = "uart_hex", UartHex PROVE HexInv'
<1>1. PICK k \in Nat, r \in Nat : Tetrad(r, k) /\ (pc = "done" => r = 0)
  BY DEF HexInv
<1>2. /\ Modulus = Power(16, k) /\ r <= k
      /\ d = IF r = 0 THEN 0 ELSE Power(16, r - 1)
      /\ out = [i \in 1 .. k - r |-> DigitAt(num, 16, k - i, Upper)]
  BY <1>1 DEF Tetrad
<1>3. num \in Nat /\ num' = num /\ call' = call
  <2>1. num \in 0 .. Modulus - 1 /\ Modulus \in Nat
    BY FormatAssumption DEF FormatAssumption, IInv, TypeOK
  <2> QED
    BY <2>1 DEF UartHex, number
<1>4. CASE d = 0
  <2>1. r = 0
    <3> SUFFICES ASSUME r # 0 PROVE FALSE
      OBVIOUS
    <3>1. r - 1 \in Nat /\ r - 1 <= r - 1 /\ 16 \in Nat /\ 16 >= 1
      OBVIOUS
    <3>2. 1 <= Power(16, r - 1)
      BY <3>1, PowersGrow
    <3> QED
      BY <3>2, <1>2, <1>4
  <2>2. d' = d /\ out' = out
    BY <1>4 DEF UartHex
  <2>3. Tetrad(r, k)'
    BY <1>2, <1>3, <2>2 DEF Tetrad
  <2> QED
    BY <2>1, <2>3 DEF HexInv
<1>5. CASE d # 0
  <2>1. r # 0 /\ d = Power(16, r - 1)
    BY <1>2, <1>5
  <2>2. /\ out' = Append(out, Upper[((num \div d) % 16) + 1]) /\ d' = d \div 16
        /\ pc = "hex" /\ pc' = "hex"
    BY <1>5 DEF UartHex
  <2>3. PICK l \in Nat : l = k - r
    BY <1>2
  <2>4. l < k /\ k - (l + 1) = r - 1 /\ k - (r - 1) = l + 1 /\ r - 1 \in Nat /\ r - 1 <= k
    BY <2>1, <2>3, <1>2
  <2>5. d' = IF r - 1 = 0 THEN 0 ELSE Power(16, r - 1 - 1)
    BY <2>1, <2>2, NextWeight
  <2>6. Upper[((num \div d) % 16) + 1] = DigitAt(num, 16, k - (l + 1), Upper)
    BY <2>1, <2>4 DEF DigitAt
  <2>7. out = [i \in 1 .. l |-> DigitAt(num, 16, k - i, Upper)]
    BY <1>2, <2>3
  <2>8. out' = [i \in 1 .. l + 1 |-> DigitAt(num, 16, k - i, Upper)]
    BY <1>3, <2>2, <2>4, <2>6, <2>7, HexStep
  <2>9. PICK s \in Nat : s = r - 1
    BY <2>4
  <2>10. /\ s <= k /\ d' = IF s = 0 THEN 0 ELSE Power(16, s - 1)
         /\ out' = [i \in 1 .. k - s |-> DigitAt(num', 16, k - i, Upper)]
    BY <1>3, <2>4, <2>5, <2>8, <2>9
  <2>11. Tetrad(s, k)'
    BY <1>2, <2>10 DEF Tetrad
  <2> QED
    BY <2>2, <2>11 DEF HexInv
<1> QED
  BY <1>4, <1>5

\* What was printed is the number with all the zeros before it.
LEMMA HexEnds ==
  ASSUME IInv, HexInv, call = "uart_hex", pc = "done"
  PROVE  out = Fill("0", Numeral(num, 16, Upper), Len(Numeral(Modulus - 1, 16, Upper)))
<1>1. PICK k \in Nat, r \in Nat : Tetrad(r, k) /\ r = 0
  BY DEF HexInv
<1>2. /\ Modulus = Power(16, k)
      /\ out = [i \in 1 .. k |-> DigitAt(num, 16, k - i, Upper)]
  BY <1>1 DEF Tetrad
<1>3. num \in 0 .. Modulus - 1 /\ Modulus \in Nat /\ num \in Nat /\ Modulus - 1 \in 0 .. Modulus - 1
  BY FormatAssumption DEF FormatAssumption, IInv, TypeOK
<1>4. PICK n : n = num
  OBVIOUS
<1>5. PICK m \in Nat : HasDigits(n, 16, m)
  <2>1. 16 \in {10, 16} /\ n \in 0 .. Modulus - 1
    BY <1>3, <1>4
  <2> QED
    BY <2>1, DigitsExist
<1>6. \A e \in Nat : /\ Power(16, e) \in Nat /\ Power(16, 0) = 1
                     /\ Power(16, e + 1) = 16 * Power(16, e)
  <2>1. 16 \in Nat
    OBVIOUS
  <2> QED
    BY <2>1, PowerLaws
<1>7. \A e, f \in Nat : e <= f => 1 <= Power(16, e) /\ Power(16, e) <= Power(16, f)
  <2>1. 16 \in Nat /\ 16 >= 1
    OBVIOUS
  <2> QED
    BY <2>1, PowersGrow
<1>8. k >= 2
  <2>1. Modulus >= 32
    BY Tetrads
  <2>2. 0 \in Nat /\ 0 + 1 = 1
    OBVIOUS
  <2>3. Power(16, 0) = 1 /\ Power(16, 1) = 16
    <3>1. Power(16, 0 + 1) = 16 * Power(16, 0) /\ Power(16, 0) = 1
      BY <1>6, <2>2
    <3> QED
      BY <3>1, <2>2
  <2>4. k # 0
    BY <1>2, <2>1, <2>3
  <2>5. k # 1
    BY <1>2, <2>1, <2>3
  <2> QED
    BY <2>4, <2>5
<1>9. PICK h \in Nat : h + 1 = k
  <2>1. k - 1 \in Nat /\ k - 1 + 1 = k
    BY <1>8
  <2> QED
    BY <2>1
<1>10. Len(Numeral(Modulus - 1, 16, Upper)) = k
  <2>1. Modulus - 1 < Power(16, h + 1) /\ Power(16, h) <= Modulus - 1
    <3>1. Power(16, h + 1) = 16 * Power(16, h) /\ Power(16, h) \in Nat
      BY <1>6
    <3>2. h <= h
      OBVIOUS
    <3>3. 1 <= Power(16, h)
      BY <3>2, <1>7
    <3>4. Modulus = Power(16, h + 1)
      BY <1>2, <1>9
    <3> QED
      BY <3>1, <3>3, <3>4
  <2>2. HasDigits(Modulus - 1, 16, h)
    BY <2>1 DEF HasDigits
  <2>3. 16 \in {10, 16}
    OBVIOUS
  <2>4. Numeral(Modulus - 1, 16, Upper) =
          [i \in 1 .. h + 1 |-> DigitAt(Modulus - 1, 16, h + 1 - i, Upper)]
    BY <1>3, <2>2, <2>3, NumeralIs
  <2>5. h + 1 \in Nat
    OBVIOUS
  <2> QED
    BY <2>4, <2>5, <1>9
<1> DEFINE s == [i \in 1 .. m + 1 |-> DigitAt(n, 16, m + 1 - i, Upper)]
<1>11. Numeral(n, 16, Upper) = s
  <2>1. 16 \in {10, 16} /\ n \in 0 .. Modulus - 1
    BY <1>3, <1>4
  <2> QED
    BY <2>1, <1>5, NumeralIs
<1>12. m + 1 <= k
  <2> SUFFICES ASSUME k <= m PROVE FALSE
    BY <1>5
  <2>1. Power(16, m) <= n
    BY <1>5, <1>8 DEF HasDigits
  <2>2. Power(16, k) <= Power(16, m) /\ Power(16, k) \in Nat /\ Power(16, m) \in Nat
    BY <1>6, <1>7
  <2>3. n < Power(16, k) /\ n \in Nat
    BY <1>2, <1>3, <1>4
  <2> QED
    BY <2>1, <2>2, <2>3
<1>13. PICK z \in Nat : z = k - (m + 1)
  BY <1>12
<1>14. /\ \A i \in 1 .. m + 1 : DigitAt(n, 16, m + 1 - i, Upper) \in Glyph
       /\ \A i \in 1 .. z : DigitAt(n, 16, k - i, Upper) = "0"
  <2>1. ASSUME NEW i \in 1 .. m + 1 PROVE DigitAt(n, 16, m + 1 - i, Upper) \in Glyph
    <3>1. m + 1 - i \in Nat
      OBVIOUS
    <3> QED
      BY <3>1, <1>3, <1>4, HexDigit
  <2>2. ASSUME NEW i \in 1 .. z PROVE DigitAt(n, 16, k - i, Upper) = "0"
    <3>1. k - i \in Nat /\ m + 1 <= k - i /\ m + 1 \in Nat
      BY <1>13
    <3>2. n < Power(16, m + 1) /\ Power(16, m + 1) <= Power(16, k - i)
      BY <3>1, <1>5, <1>7 DEF HasDigits
    <3>3. n < Power(16, k - i)
      BY <3>1, <3>2, <1>3, <1>4, <1>6
    <3> QED
      BY <3>1, <3>3, <1>3, <1>4, HexDigit
  <2> QED
    BY <2>1, <2>2
<1>15. s \in [1 .. m + 1 -> Glyph] /\ \A i \in 1 .. m + 1 : s[i] = DigitAt(n, 16, m + 1 - i, Upper)
  BY <1>14
<1> HIDE DEF s
<1>16. s \in Seq(Glyph) /\ Len(s) = m + 1
  BY <1>15
<1> DEFINE p == [i \in 1 .. z |-> "0"]
<1>17. p \in Seq({"0"}) /\ Len(p) = z /\ \A i \in 1 .. z : p[i] = "0"
  OBVIOUS
<1>18. "0" \in Glyph
  <2>1. Lower[1] = "0" /\ 1 \in 1 .. 16
    BY DEF Lower
  <2> QED
    BY <2>1 DEF Glyph
<1> HIDE DEF p
<1>19. p \in Seq(Glyph)
  BY <1>17, <1>18
<1>20. /\ p \o s \in Seq(Glyph) /\ Len(p \o s) = z + (m + 1)
       /\ \A i \in 1 .. z : (p \o s)[i] = "0"
       /\ \A i \in z + 1 .. z + (m + 1) : (p \o s)[i] = s[i - z]
  BY <1>16, <1>17, <1>19
<1>21. out \in Seq(Glyph) /\ Len(out) = k /\ \A i \in 1 .. k : out[i] = DigitAt(n, 16, k - i, Upper)
  <2>1. \A i \in 1 .. k : DigitAt(n, 16, k - i, Upper) \in Glyph
    <3> SUFFICES ASSUME NEW i \in 1 .. k PROVE DigitAt(n, 16, k - i, Upper) \in Glyph
      OBVIOUS
    <3>1. k - i \in Nat
      OBVIOUS
    <3> QED
      BY <3>1, <1>3, <1>4, HexDigit
  <2>2. out \in [1 .. k -> Glyph] /\ \A i \in 1 .. k : out[i] = DigitAt(n, 16, k - i, Upper)
    BY <2>1, <1>2, <1>4
  <2> QED
    BY <2>2
<1>22. \A i \in 1 .. k : out[i] = (p \o s)[i]
  <2> SUFFICES ASSUME NEW i \in 1 .. k PROVE out[i] = (p \o s)[i]
    OBVIOUS
  <2>1. CASE i <= z
    BY <2>1, <1>14, <1>20, <1>21
  <2>2. CASE i > z
    <3>1. i - z \in 1 .. m + 1 /\ m + 1 - (i - z) = k - i /\ i \in z + 1 .. z + (m + 1)
      BY <2>2, <1>13
    <3> QED
      BY <3>1, <1>15, <1>20, <1>21
  <2>3. i <= z \/ i > z
    BY <1>13
  <2> QED
    BY <2>1, <2>2, <2>3
<1>23. z + (m + 1) = k
  BY <1>13
<1>24. out = p \o s
  <2> DEFINE q == p \o s
  <2>1. q \in Seq(Glyph) /\ Len(q) = k /\ \A i \in 1 .. k : out[i] = q[i]
    BY <1>20, <1>22, <1>23
  <2> HIDE DEF q
  <2>2. out = q
    BY <2>1, <1>21
  <2> QED
    BY <2>2 DEF q
<1>25. Max({0, k - Len(s)}) = z
  <2>1. k - Len(s) = z
    BY <1>13, <1>16
  <2>2. {0, k - Len(s)} = {0, z}
    BY <2>1
  <2>3. z \in {0, z} /\ \A x \in {0, z} : x <= z /\ x \in Nat
    OBVIOUS
  <2>4. Max({0, z}) \in {0, z} /\ \A x \in {0, z} : x <= Max({0, z})
    BY <2>3 DEF Max
  <2>5. Max({0, z}) = z
    BY <2>3, <2>4
  <2> QED
    BY <2>2, <2>5
<1>26. Fill("0", s, k) = p \o s
  <2>1. \A e : e = Max({0, k - Len(s)}) => Fill("0", s, k) = [i \in 1 .. e |-> "0"] \o s
    BY DEF Fill
  <2> QED
    BY <2>1, <1>25 DEF p
<1> QED
  BY <1>4, <1>10, <1>11, <1>24, <1>26

-----------------------------------------------------------------------------
(***************************************************************************)
(* uart_puts, strlen and streq, and everything together.                   *)
(***************************************************************************)

\* What uart_puts has printed, strlen counted and streq compared.
PutsInv ==
  call = "uart_puts" =>
    /\ out = [k \in 1 .. fmt - 1 |-> text[k]]
    /\ fmt - 1 <= Len(text)
    /\ pc = "done" => fmt - 1 = Len(text)

StrlenInv == call = "strlen" /\ pc = "done" => out = <<Len(text)>>

StreqInv ==
  call = "streq" =>
    /\ \A k \in 1 .. fmt - 1 : text[k] = given[1][k]
    /\ pc = "done" => out = <<text = given[1]>>

OtherInv == HexInv /\ PutsInv /\ StrlenInv /\ StreqInv

\* At the start nothing is printed, counted or compared.
LEMMA OtherInit == Init => OtherInv
<1> SUFFICES ASSUME Init PROVE OtherInv
  OBVIOUS
<1> USE DEF Init, InitCommon, InitFormat, InitPuts, InitHex, InitStrlen, InitStreq
<1>1. HexInv
  BY HexInit
<1>2. PutsInv
  <2> SUFFICES ASSUME call = "uart_puts" PROVE PutsInv
    BY DEF PutsInv
  <2>1. /\ fmt = 1 /\ fmt - 1 = 0 /\ out = <<>> /\ pc = "puts" /\ Len(text) \in Nat
    BY FormatAssumption DEF FormatAssumption
  <2>2. out = [k \in 1 .. fmt - 1 |-> text[k]]
    BY <2>1
  <2> QED
    BY <2>1, <2>2 DEF PutsInv
<1>3. StrlenInv
  BY DEF StrlenInv
<1>4. StreqInv
  <2> SUFFICES ASSUME call = "streq" PROVE StreqInv
    BY DEF StreqInv
  <2>1. fmt = 1 /\ pc = "streq"
    OBVIOUS
  <2> QED
    BY <2>1 DEF StreqInv
<1> QED
  BY <1>1, <1>2, <1>3, <1>4 DEF OtherInv

\* uart_puts prints the next character.
LEMMA PutsNext ==
  ASSUME IInv, PutsInv, call = "uart_puts", UartPuts PROVE PutsInv'
<1>1. /\ text \in Seq(STRING) /\ Len(text) \in Nat /\ fmt \in Nat /\ fmt >= 1
      /\ \A i \in Nat : At(i) = NUL => i > Len(text) \/ i = 0
  BY TextIs
<1>2. /\ out = [k \in 1 .. fmt - 1 |-> text[k]] /\ fmt - 1 <= Len(text)
      /\ call' = call /\ text' = text /\ pc = "puts"
  BY DEF PutsInv, UartPuts
<1>3. CASE At(fmt) = NUL
  <2>1. fmt' = fmt /\ out' = out
    BY <1>3 DEF UartPuts
  <2>2. fmt - 1 = Len(text)
    BY <1>1, <1>2, <1>3
  <2> QED
    BY <1>2, <2>1, <2>2 DEF PutsInv
<1>4. CASE At(fmt) # NUL
  <2>1. fmt' = fmt + 1 /\ out' = Append(out, At(fmt)) /\ pc' = "puts"
    BY <1>2, <1>4 DEF UartPuts
  <2>2. fmt <= Len(text) /\ At(fmt) = text[fmt]
    BY <1>1, <1>4 DEF At, CharAt
  <2>3. PICK l \in Nat : l = fmt - 1 /\ l + 1 = fmt /\ l + 1 <= Len(text)
    BY <1>1, <2>2
  <2> DEFINE all == [k \in 1 .. l + 1 |-> text[k]]
             most == [k \in 1 .. l |-> text[k]]
             last == text[l + 1]
  <2>4. /\ all \in [1 .. l + 1 -> STRING] /\ most \in [1 .. l -> STRING]
        /\ all[l + 1] = last /\ last \in STRING
        /\ \A i \in 1 .. l : most[i] = all[i]
    BY <1>1, <2>3
  <2>5. out = most /\ At(fmt) = last
    BY <1>2, <2>2, <2>3
  <2> HIDE DEF all, most, last
  <2>6. all \in Seq(STRING) /\ most \in Seq(STRING) /\ Len(all) = l + 1 /\ Len(most) = l
    BY <2>4
  <2>7. /\ Append(most, last) \in Seq(STRING) /\ Len(Append(most, last)) = l + 1
        /\ \A i \in 1 .. l + 1 : Append(most, last)[i] = all[i]
    BY <2>4, <2>6
  <2>8. all = Append(most, last)
    BY <2>6, <2>7
  <2>9. out' = all
    BY <2>1, <2>5, <2>8
  <2>10. fmt' - 1 = l + 1
    BY <2>1, <2>3
  <2>11. out' = [k \in 1 .. fmt' - 1 |-> text'[k]]
    BY <1>2, <2>9, <2>10 DEF all
  <2> QED
    BY <1>2, <2>1, <2>3, <2>10, <2>11 DEF PutsInv
<1> QED
  BY <1>3, <1>4

\* strlen ends behind the last character.
LEMMA StrlenNext ==
  ASSUME IInv, call = "strlen", Strlen PROVE StrlenInv'
<1> SUFFICES ASSUME pc' = "done" PROVE out' = <<Len(text')>>
  BY DEF StrlenInv
<1>1. At(fmt) = NUL /\ out' = <<fmt - 1>> /\ pc = "strlen" /\ text' = text
  BY DEF Strlen
<1>2. /\ Len(text) \in Nat /\ fmt \in Nat /\ fmt >= 1 /\ fmt > Len(text)
  BY <1>1, TextIs
<1>3. fmt <= Len(text) + 1
  BY <1>1 DEF IInv, Reading
<1>4. fmt - 1 = Len(text)
  BY <1>2, <1>3
<1> QED
  BY <1>1, <1>4

\* streq goes on while the characters agree.
LEMMA StreqNext ==
  ASSUME IInv, StreqInv, call = "streq", Streq PROVE StreqInv'
<1>1. PICK b : b = given[1]
  OBVIOUS
<1>2. /\ text \in Seq(STRING) /\ b \in Seq(STRING) /\ Len(text) \in Nat /\ Len(b) \in Nat
      /\ \A i \in 1 .. Len(text) : text[i] # NUL
      /\ \A i \in 1 .. Len(b) : b[i] # NUL
      /\ fmt \in Nat /\ fmt >= 1 /\ fmt <= Len(text) + 1 /\ fmt <= Len(b) + 1
  <2>1. b \in Strings /\ text \in Texts /\ fmt \in Nat /\ fmt >= 1
    BY <1>1 DEF IInv, CallInv, TypeOK
  <2>2. \A s \in Texts \union Strings : s \in Seq(STRING) /\ \A i \in DOMAIN s : s[i] # NUL
    BY FormatAssumption DEF FormatAssumption
  <2>3. /\ text \in Seq(STRING) /\ b \in Seq(STRING)
        /\ \A i \in DOMAIN text : text[i] # NUL
        /\ \A i \in DOMAIN b : b[i] # NUL
    BY <2>1, <2>2
  <2>4. fmt <= Len(text) + 1 /\ fmt <= Len(b) + 1
    BY <1>1 DEF IInv, Reading
  <2> QED
    BY <2>1, <2>3, <2>4
<1>3. /\ \A k \in 1 .. fmt - 1 : text[k] = b[k]
      /\ call' = call /\ text' = text /\ given' = given /\ pc = "streq"
  BY <1>1 DEF StreqInv, Streq, number
<1>4. PICK x, y : x = At(fmt) /\ y = CharAt(b, fmt)
  OBVIOUS
<1>5. /\ x = (IF fmt <= Len(text) THEN text[fmt] ELSE NUL)
      /\ y = (IF fmt <= Len(b) THEN b[fmt] ELSE NUL)
  BY <1>4 DEF At, CharAt
<1>6. CASE x # y \/ x = NUL
  <2>1. pc' = "done" /\ out' = <<x = y>> /\ fmt' = fmt
    BY <1>1, <1>4, <1>6 DEF Streq
  <2>2. (x = y) = (text = b)
    <3>1. CASE x # y
      <4>1. text = b => x = y
        BY <1>4 DEF At
      <4> QED
        BY <3>1, <4>1
    <3>2. CASE x = y
      <4>1. x = NUL /\ y = NUL
        BY <3>2, <1>6
      <4>2. ~ (fmt <= Len(text)) /\ ~ (fmt <= Len(b))
        <5>1. fmt \in 1 .. Len(text) => text[fmt] # NUL
          BY <1>2
        <5>2. fmt \in 1 .. Len(b) => b[fmt] # NUL
          BY <1>2
        <5>3. (fmt <= Len(text) => fmt \in 1 .. Len(text)) /\ (fmt <= Len(b) => fmt \in 1 .. Len(b))
          BY <1>2
        <5> QED
          BY <4>1, <5>1, <5>2, <5>3, <1>5
      <4>3. fmt > Len(text) /\ fmt > Len(b)
        BY <4>2, <1>2
      <4>4. Len(text) = fmt - 1 /\ Len(b) = fmt - 1
        BY <4>3, <1>2
      <4>5. text = b
        BY <4>4, <1>2, <1>3
      <4> QED
        BY <3>2, <4>5
    <3> QED
      BY <3>1, <3>2
  <2>3. out' = <<text = b>>
    BY <2>1, <2>2
  <2> QED
    BY <1>1, <1>3, <2>1, <2>3 DEF StreqInv
<1>7. CASE ~ (x # y \/ x = NUL)
  <2>1. pc' = "streq" /\ fmt' = fmt + 1
    BY <1>1, <1>3, <1>4, <1>7 DEF Streq
  <2>2. text[fmt] = b[fmt]
    BY <1>5, <1>7
  <2>3. \A k \in 1 .. fmt' - 1 : text[k] = b[k]
    BY <1>2, <1>3, <2>1, <2>2
  <2> QED
    BY <1>1, <1>3, <2>1, <2>3 DEF StreqInv
<1> QED
  BY <1>6, <1>7

\* Each of the other functions takes its own steps only.
LEMMA OtherNext == IInv /\ OtherInv /\ [Next]_vars => OtherInv'
<1> SUFFICES ASSUME IInv, OtherInv, [Next]_vars PROVE OtherInv'
  OBVIOUS
<1> USE DEF field, number
<1>1. call' = call
  BY DEF Next, Plain, EndOfText, Percent, Flag, Zero, Width, Abort, ConvertPercent,
         ConvertOther, ConvertCharacter, ConvertString, ConvertNumber, GrowDivisor,
         WriteDigit, PutNumber, UartPuts, UartHex, Strlen, Streq, Returned, vars
<1>2. CASE UNCHANGED vars
  <2>1. UNCHANGED <<call, pc, text, fmt, num, d, given, out>>
    BY <1>2 DEF vars
  <2>2. HexInv'
    BY <2>1 DEF OtherInv, HexInv, Tetrad
  <2>3. PutsInv' /\ StrlenInv' /\ StreqInv'
    BY <2>1 DEF OtherInv, PutsInv, StrlenInv, StreqInv
  <2> QED
    BY <2>2, <2>3 DEF OtherInv
<1>3. CASE Formats
  BY <1>1, <1>3 DEF Formats, OtherInv, HexInv, PutsInv, StrlenInv, StreqInv
<1>4. CASE call = "uart_puts" /\ ~ UNCHANGED vars
  <2>1. UartPuts
    BY <1>4 DEF IInv, CallInv, Next, Plain, EndOfText, Percent, Flag, Zero, Width, Abort,
         ConvertPercent, ConvertOther, ConvertCharacter, ConvertString, ConvertNumber,
         GrowDivisor, WriteDigit, PutNumber, UartHex, Strlen, Streq, Returned
  <2>2. PutsInv'
    BY <1>4, <2>1, PutsNext DEF OtherInv
  <2> QED
    BY <1>1, <1>4, <2>2 DEF OtherInv, HexInv, StrlenInv, StreqInv
<1>5. CASE call = "uart_hex" /\ ~ UNCHANGED vars
  <2>1. UartHex
    BY <1>5 DEF IInv, CallInv, Next, Plain, EndOfText, Percent, Flag, Zero, Width, Abort,
         ConvertPercent, ConvertOther, ConvertCharacter, ConvertString, ConvertNumber,
         GrowDivisor, WriteDigit, PutNumber, UartPuts, Strlen, Streq, Returned
  <2>2. HexInv'
    BY <1>5, <2>1, HexNext DEF OtherInv
  <2> QED
    BY <1>1, <1>5, <2>2 DEF OtherInv, PutsInv, StrlenInv, StreqInv
<1>6. CASE call = "strlen" /\ ~ UNCHANGED vars
  <2>1. Strlen
    BY <1>6 DEF IInv, CallInv, Next, Plain, EndOfText, Percent, Flag, Zero, Width, Abort,
         ConvertPercent, ConvertOther, ConvertCharacter, ConvertString, ConvertNumber,
         GrowDivisor, WriteDigit, PutNumber, UartPuts, UartHex, Streq, Returned
  <2>2. StrlenInv'
    BY <1>6, <2>1, StrlenNext
  <2> QED
    BY <1>1, <1>6, <2>2 DEF OtherInv, PutsInv, HexInv, StreqInv
<1>7. CASE call = "streq" /\ ~ UNCHANGED vars
  <2>1. Streq
    BY <1>7 DEF IInv, CallInv, Next, Plain, EndOfText, Percent, Flag, Zero, Width, Abort,
         ConvertPercent, ConvertOther, ConvertCharacter, ConvertString, ConvertNumber,
         GrowDivisor, WriteDigit, PutNumber, UartPuts, UartHex, Strlen, Returned
  <2>2. StreqInv'
    BY <1>7, <2>1, StreqNext DEF OtherInv
  <2> QED
    BY <1>1, <1>7, <2>2 DEF OtherInv, PutsInv, HexInv, StrlenInv
<1> QED
  BY <1>2, <1>3, <1>4, <1>5, <1>6, <1>7 DEF IInv, TypeOK, Formats

\* At the start the walk is at the first character.
LEMMA FormatInit == Init => FormatInv
<1> SUFFICES ASSUME Init, Formats PROVE FormatInv
  BY DEF FormatInv
<1>1. fmt = 1 /\ out = <<>> /\ given = <<>> /\ pc = "text" /\ text \in Texts
  BY DEF Formats, Init, InitCommon, InitFormat, InitPuts, InitHex, InitStrlen, InitStreq
<1>2. Len(text) \in Nat /\ Len(given) = 0 /\ Len(given) \in Nat
  BY <1>1, FormatAssumption DEF FormatAssumption
<1>3. PICK r : r = [next |-> 1, taken |-> 0, sent |-> <<>>]
  OBVIOUS
<1>4. Walked(r)
  BY <1>2, <1>3, WalkStarts
<1>5. r = [next |-> fmt, taken |-> Len(given), sent |-> out]
  BY <1>1, <1>2, <1>3
<1>6. Reached(fmt, Len(given))
  BY <1>4, <1>5 DEF Reached
<1> QED
  BY <1>1, <1>6 DEF FormatInv, AtText, AtFlag, AtZero, AtWidth, AtConvert, AtNumber, AtEnd

\* Nothing changes in a step that changes nothing.
LEMMA StutterFormats ==
  ASSUME IInv, FormatInv, Formats, Understood, UNCHANGED vars PROVE FormatInv'
<1>1. UNCHANGED <<call, pc, text, fmt, ch, lz, w, given, out>>
  BY DEF vars, field
<1>2. \A i, k : Reached(i, k) => Reached(i, k)'
  BY <1>1, Remains
<1>3. \A i : InConversion(i) => InConversion(i)'
  BY <1>1 DEF InConversion, At, WidthAt
<1>4. AtText' /\ AtFlag' /\ AtZero'
  BY <1>1, <1>2 DEF FormatInv, AtText, AtFlag, AtZero, Reached
<1>5. AtWidth' /\ AtConvert' /\ AtNumber'
  BY <1>1, <1>2, <1>3, ZenonT(60) DEF FormatInv, AtWidth, AtConvert, AtNumber, Reached
<1>6. \A r : Walked(r) => Walked(r)'
  BY <1>1, TextIs, WalkLasts
<1>7. AtEnd'
  BY <1>1, <1>6 DEF FormatInv, AtEnd
<1> QED
  BY <1>4, <1>5, <1>7 DEF FormatInv

\* Every step keeps what is known of the walk.
LEMMA FormatNext == IInv /\ NumberInv /\ FormatInv /\ [Next]_vars => FormatInv'
<1> SUFFICES ASSUME IInv, NumberInv, FormatInv, [Next]_vars PROVE FormatInv'
  OBVIOUS
<1>1. call' = call /\ text' = text
  BY DEF Next, Plain, EndOfText, Percent, Flag, Zero, Width, Abort, ConvertPercent,
         ConvertOther, ConvertCharacter, ConvertString, ConvertNumber, GrowDivisor,
         WriteDigit, PutNumber, UartPuts, UartHex, Strlen, Streq, Returned, vars
<1>10. Understood' <=> Understood
  BY <1>1, TextOnly DEF Understood
<1>11. Formats' <=> Formats
  BY <1>1 DEF Formats
<1> SUFFICES ASSUME Formats, Understood PROVE FormatInv'
  BY <1>10, <1>11 DEF FormatInv
<1>2. ASSUME NEW c \in Characters, ConvertCharacter(c) PROVE FormatInv'
  BY <1>2, ArgumentFormats
<1>3. ASSUME NEW s \in Strings, ConvertString(s) PROVE FormatInv'
  BY <1>3, ArgumentFormats
<1>4. ASSUME NEW n \in Words, ConvertNumber(n) PROVE FormatInv'
  BY <1>4, NumberFormats
<1>5. ~ (UartPuts \/ UartHex \/ Strlen \/ Streq)
  BY DEF IInv, CallInv, UartPuts, UartHex, Strlen, Streq
<1>6. CASE UNCHANGED vars
  BY <1>6, StutterFormats
<1>7. CASE Flag
  BY <1>7, FlagFormats
<1>8. CASE Zero
  BY <1>8, ZeroFormats
<1>9. CASE Width
  BY <1>9, WidthFormats
<1> QED
  BY <1>2, <1>3, <1>4, <1>5, <1>6, <1>7, <1>8, <1>9, PlainFormats, EndFormats, PercentFormats,
     AbortFormats, PercentConvertFormats, OtherFormats, DivisionFormats, PutFormats
     DEF Next, Returned

\* The output of any of the functions.
LEMMA OutputIs ==
  ASSUME IInv, FormatInv, OtherInv PROVE OutputIsFormatted
<1> SUFFICES ASSUME pc = "done", Formats => Understood
             PROVE  out = CASE call = "sprintf" -> Append(Rendered, NUL)
                            [] call = "printf_no_lock" -> Rendered
                            [] call = "uart_puts" -> text
                            [] call = "uart_hex" ->
                                 LET n == Numeral(num, 16, Upper)
                                     width == Len(Numeral(Modulus - 1, 16, Upper))
                                 IN  Fill("0", n, width)
                            [] call = "strlen" -> <<Len(text)>>
                            [] call = "streq" -> <<text = given[1]>>
  BY DEF OutputIsFormatted, Formats
<1>1. CASE Formats
  <2>1. PICK r : /\ Walked(r) /\ r.next > Len(text)
                 /\ out = IF call = "sprintf" THEN Append(r.sent, NUL) ELSE r.sent
    BY <1>1 DEF FormatInv, AtEnd
  <2>2. Rendered = r.sent
    BY <2>1, TextIs, WalkEnds
  <2> QED
    BY <1>1, <2>1, <2>2 DEF Formats
<1>2. CASE call = "uart_puts"
  <2>1. out = [k \in 1 .. fmt - 1 |-> text[k]] /\ fmt - 1 = Len(text)
    BY <1>2 DEF OtherInv, PutsInv
  <2>2. text \in Seq(STRING)
    BY TextIs
  <2>3. out = text
    BY <2>1, <2>2
  <2> QED
    BY <1>2, <2>3
<1>3. CASE call = "uart_hex"
  BY <1>3, HexEnds DEF OtherInv
<1>4. CASE call = "strlen"
  BY <1>4 DEF OtherInv, StrlenInv
<1>5. CASE call = "streq"
  BY <1>5 DEF OtherInv, StreqInv
<1> QED
  BY <1>1, <1>2, <1>3, <1>4, <1>5 DEF IInv, TypeOK, Formats

\* For every argument, and every text that is Understood (its widths do not exceed
\* the largest int and no `a' follows one), the output of printf_no_lock and
\* sprintf is what the text means; that of the others always is what it should
\* be (printf.cpp:63-204, uart.cpp:68-84, libk.cpp:4-24).
THEOREM OutputFormatted == Spec => []OutputIsFormatted
<1>1. Init => IInv /\ NumberInv /\ FormatInv /\ OtherInv
  BY InitInv, NumberInit, FormatInit, OtherInit
<1>2. /\ IInv /\ NumberInv /\ FormatInv /\ OtherInv /\ [Next]_vars
      => IInv' /\ NumberInv' /\ FormatInv' /\ OtherInv'
  BY NextInv, NumberNext, FormatNext, OtherNext
<1>3. IInv /\ NumberInv /\ FormatInv /\ OtherInv => OutputIsFormatted
  BY OutputIs
<1> QED
  BY <1>1, <1>2, <1>3, PTL DEF Spec
=============================================================================
