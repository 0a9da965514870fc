---------------------------- MODULE ConsoleProof ----------------------------
(***************************************************************************)
(* What the console shows of cores that print and are struck by exceptions *)
(* but do not panic: whole texts, and a carriage return before every line  *)
(* feed, for any number of cores and of texts.                             *)
(***************************************************************************)
EXTENDS Console, SequenceTheorems, TLAPS

Piece == Bytes \union {"newline"}
Sent(n) == [call : 1 .. n, byte : Bytes, last : BOOLEAN]
Last == output[Len(output)]

\* Nobody is in panic.
NoPanic ==
  \A c \in Core :
    /\ pc[c] \in {"out", "registers", "spin", "lock", "emit", "unlock", "exception", "lost"}
    /\ after[c] \in {"out", "registers", "spin"}

\* The core between lock and unlock owns the lock.
OneSender == \A c \in Core : pc[c] \in {"emit", "unlock"} => owner = c

\* A core in printf has a text of its own, and none of it is out before it
\* has the lock.
OwnCall ==
  \A c \in Core : pc[c] \in {"lock", "emit"} =>
    call[c] # 0 /\ \A d \in Core \ {c} : call[d] # call[c]
Fresh ==
  \A c \in Core : pc[c] = "lock" =>
    \A i \in 1 .. Len(output) : output[i].call # call[c]

\* Once the sender has begun, nothing else comes after.
Together ==
  \A c \in Core : pc[c] = "emit" =>
    \A i, j \in 1 .. Len(output) :
      i <= j /\ output[i].call = call[c] => output[j].call = call[c]

\* A text that is not at its end is that of the owner, which goes on with it
\* or was struck.
Open ==
  output # <<>> /\ Last.last = FALSE =>
    /\ owner \in Core
    /\ pc[owner] # "unlock"
    /\ pc[owner] = "emit" => text[owner] # <<>> /\ Last.call = call[owner]

\* A line feed still to be sent is the next byte, and its carriage return
\* the last one sent.
Feeds ==
  \A c \in Core :
    /\ \A i \in 2 .. Len(text[c]) : text[c][i] # "LF"
    /\ pc[c] = "lock" => text[c][1] # "LF"
    /\ pc[c] = "emit" /\ text[c] # <<>> /\ text[c][1] = "LF" =>
         output # <<>> /\ Last.byte = "CR" /\ Last.call = call[c]

ConsoleInv ==
  /\ TypeOK
  /\ NoPanic /\ OneSender /\ OwnCall
  /\ Fresh /\ Together /\ Open /\ Feeds
  /\ TextsAreWhole /\ LineEndings

LEMMA InitConsoleInv == Init => ConsoleInv
<1> SUFFICES ASSUME Init PROVE ConsoleInv
  OBVIOUS
<1>1. TypeOK
  BY ConsoleAssumption DEF ConsoleAssumption, Init, TypeOK, Step, Returns
<1>2. NoPanic /\ OneSender /\ OwnCall /\ Fresh /\ Together /\ Open
  BY DEF Init, NoPanic, OneSender, OwnCall, Fresh, Together, Open
<1>3. Feeds
  BY DEF Init, Feeds
<1>4. TextsAreWhole /\ LineEndings
  BY DEF Init, TextsAreWhole, LineEndings
<1> QED
  BY <1>1, <1>2, <1>3, <1>4 DEF ConsoleInv

\* A core begins a text: nothing of it is out yet.
LEMMA BeginStep ==
  ASSUME ConsoleInv, NEW c \in Core, pc[c] \in {"out", "exception", "registers"},
         NEW r \in {"out", "registers", "spin"},
         NEW s \in Seq({"char", "newline"}), s # <<>>,
         pc' = [pc EXCEPT ![c] = "lock"],
         after' = [after EXCEPT ![c] = r],
         Begin(c, s),
         UNCHANGED <<owner, output>>
  PROVE  ConsoleInv'
<1> USE DEF ConsoleInv, Last
<1>1. /\ calls \in Nat /\ calls' = calls + 1
      /\ call \in [Core -> 0 .. calls] /\ call' = [call EXCEPT ![c] = calls + 1]
      /\ text' = [text EXCEPT ![c] = s]
      /\ output \in Seq(Sent(calls))
  BY DEF TypeOK, Begin, Sent
<1>2. \A d \in Core : /\ pc'[d] = IF d = c THEN "lock" ELSE pc[d]
                      /\ call'[d] = IF d = c THEN calls + 1 ELSE call[d]
                      /\ text'[d] = IF d = c THEN s ELSE text[d]
  BY <1>1 DEF TypeOK
<1>3. \A i \in 1 .. Len(output) : output[i].call \in 1 .. calls
  <2>1. ASSUME NEW i \in 1 .. Len(output) PROVE output[i] \in Sent(calls)
    BY <1>1, ElementOfSeq
  <2> QED
    BY <2>1 DEF Sent
<1>4. s \in Seq(Piece) /\ \A i \in 1 .. Len(s) : s[i] # "LF"
  <2>1. s \in Seq(Piece)
    BY SeqMonotonic DEF Piece, Bytes
  <2>2. \A i \in 1 .. Len(s) : s[i] \in {"char", "newline"}
    BY ElementOfSeq
  <2> QED
    BY <2>1, <2>2
<1>5. Len(s) \in Nat \ {0}
  BY EmptySeq
<1>6. TypeOK'
  <2>1. output' \in Seq(Sent(calls'))
    <3>1. Sent(calls) \subseteq Sent(calls')
      BY <1>1 DEF Sent
    <3> QED
      BY <1>1, <3>1, SeqMonotonic
  <2>2. pc' \in [Core -> Step] /\ after' \in [Core -> Returns]
    BY DEF TypeOK, Step, Returns
  <2>3. text' \in [Core -> Seq(Piece)]
    BY <1>1, <1>4 DEF TypeOK, Piece
  <2>4. call' \in [Core -> 0 .. calls'] /\ calls' \in Nat
    BY <1>1
  <2> QED
    BY <2>1, <2>2, <2>3, <2>4 DEF TypeOK, Sent, Piece
<1>7. NoPanic' /\ OneSender'
  BY <1>2 DEF NoPanic, OneSender, TypeOK
<1>8. OwnCall'
  BY <1>1, <1>2 DEF OwnCall
<1>9. Fresh' /\ Together'
  BY <1>1, <1>2, <1>3 DEF Fresh, Together
<1>10. Open'
  BY <1>2 DEF Open
<1>11. Feeds'
  BY <1>2, <1>4, <1>5 DEF Feeds
<1>12. TextsAreWhole' /\ LineEndings'
  BY DEF TextsAreWhole, LineEndings
<1> QED
  BY <1>6, <1>7, <1>8, <1>9, <1>10, <1>11, <1>12

\* The steps that send nothing and begin nothing.
LEMMA SilentStep ==
  ASSUME ConsoleInv, NEW c \in Core,
         Acquire(c) \/ Formatted(c) \/ Unlock(c) \/ Exception(c)
  PROVE  ConsoleInv'
<1> USE DEF ConsoleInv, Last, Goto
<1>1. UNCHANGED <<after, text, call, calls, output>>
  BY DEF Acquire, Formatted, Unlock, Exception
<1>2. TextsAreWhole' /\ LineEndings'
  BY <1>1 DEF TextsAreWhole, LineEndings
<1>3. TypeOK' /\ NoPanic'
  BY <1>1 DEF TypeOK, NoPanic, Step, Returns, Acquire, Formatted, Unlock, Exception,
              Lock!Acquire, Lock!Release
<1>4. CASE Acquire(c)
  <2>1. /\ owner = NoCore /\ owner' = c /\ pc[c] = "lock"
        /\ \A d \in Core : pc'[d] = IF d = c THEN "emit" ELSE pc[d]
    BY <1>4 DEF Acquire, Lock!Acquire, TypeOK
  <2>2. \A d \in Core : pc[d] \notin {"emit", "unlock"}
    BY <2>1, ConsoleAssumption DEF OneSender, ConsoleAssumption
  <2>3. OneSender' /\ OwnCall' /\ Fresh'
    BY <1>1, <2>1, <2>2 DEF OneSender, OwnCall, Fresh
  <2>4. Together'
    BY <1>1, <2>1, <2>2 DEF Together, Fresh
  <2>5. Open'
    BY <1>1, <2>1, ConsoleAssumption DEF Open, ConsoleAssumption
  <2>6. Feeds'
    BY <1>1, <2>1 DEF Feeds
  <2> QED
    BY <1>2, <1>3, <2>3, <2>4, <2>5, <2>6
<1>5. CASE Formatted(c)
  <2>1. /\ pc[c] = "emit" /\ owner' = owner /\ text[c] = <<>> /\ owner = c
        /\ \A d \in Core : pc'[d] = IF d = c THEN "unlock" ELSE pc[d]
    BY <1>5 DEF Formatted, TypeOK, OneSender
  <2>2. OneSender' /\ OwnCall' /\ Fresh' /\ Together'
    BY <1>1, <2>1 DEF OneSender, OwnCall, Fresh, Together
  <2>3. Open'
    BY <1>1, <2>1 DEF Open
  <2>4. Feeds'
    BY <1>1, <2>1 DEF Feeds
  <2> QED
    BY <1>2, <1>3, <2>2, <2>3, <2>4
<1>6. CASE Unlock(c)
  <2>1. /\ pc[c] = "unlock" /\ owner = c /\ owner' = NoCore
        /\ \A d \in Core : pc'[d] = IF d = c THEN after[c] ELSE pc[d]
        /\ after[c] \in {"out", "registers", "spin"}
    BY <1>6 DEF Unlock, Lock!Release, TypeOK, NoPanic
  <2>2. OneSender' /\ OwnCall' /\ Fresh' /\ Together'
    BY <1>1, <2>1 DEF OneSender, OwnCall, Fresh, Together
  <2>3. Open'
    BY <1>1, <2>1 DEF Open
  <2>4. Feeds'
    BY <1>1, <2>1 DEF Feeds
  <2> QED
    BY <1>2, <1>3, <2>2, <2>3, <2>4
<1>7. CASE Exception(c)
  <2>1. /\ owner' = owner /\ pc'[c] \in {"exception", "lost"}
        /\ \A d \in Core \ {c} : pc'[d] = pc[d]
    BY <1>7 DEF Exception, TypeOK
  <2>2. OneSender' /\ OwnCall' /\ Fresh' /\ Together'
    BY <1>1, <2>1 DEF OneSender, OwnCall, Fresh, Together
  <2>3. Open'
    BY <1>1, <2>1 DEF Open
  <2>4. Feeds'
    BY <1>1, <2>1 DEF Feeds
  <2> QED
    BY <1>2, <1>3, <2>2, <2>3, <2>4
<1> QED
  BY <1>4, <1>5, <1>6, <1>7

\* A byte goes out: the sender's next one.
LEMMA EmitStep ==
  ASSUME ConsoleInv, NEW c \in Core, Emit(c)
  PROVE  ConsoleInv'
<1> USE DEF ConsoleInv
<1> DEFINE string == IF Head(text[c]) = "newline"
                       THEN <<"CR", "LF">> \o Tail(text[c]) ELSE text[c]
           end == Tail(string) = <<>>
           entry == [call |-> call[c], byte |-> Head(string), last |-> end]
           n == Len(output)
<1>1. /\ pc[c] = "emit" /\ owner = c /\ text[c] # <<>>
      /\ output' = Append(output, entry)
      /\ text' = [text EXCEPT ![c] = Tail(string)]
      /\ UNCHANGED <<pc, after, call, calls, owner>>
  BY DEF Emit, Put, NoPanic, OneSender
<1>2. /\ text[c] \in Seq(Piece) /\ Tail(text[c]) \in Seq(Piece)
      /\ Head(text[c]) = text[c][1] /\ Head(text[c]) \in Piece
      /\ Len(Tail(text[c])) = Len(text[c]) - 1
      /\ \A i \in 1 .. Len(Tail(text[c])) : Tail(text[c])[i] = text[c][i + 1]
  <2>1. text[c] \in Seq(Piece)
    BY DEF TypeOK, Piece
  <2> QED
    BY <2>1, <1>1, HeadTailProperties
<1>3. /\ string \in Seq(Piece) /\ string # <<>> /\ Head(string) \in Bytes
      /\ Tail(string) \in Seq(Piece)
      /\ \A i \in 2 .. Len(Tail(string)) : Tail(string)[i] # "LF"
      /\ Tail(string) # <<>> /\ Tail(string)[1] = "LF" => Head(string) = "CR"
      /\ Head(string) = "LF" => text[c][1] = "LF"
  <2>1. \A i \in 2 .. Len(text[c]) : text[c][i] # "LF"
    BY DEF Feeds
  <2>2. CASE Head(text[c]) = "newline"
    <3>1. string = <<"CR", "LF">> \o Tail(text[c])
      BY <2>2
    <3>2. Tail(string) = <<"LF">> \o Tail(text[c]) /\ Head(string) = "CR"
      BY <3>1, <1>2
    <3>3. <<"LF">> \in Seq(Piece) /\ <<"CR", "LF">> \in Seq(Piece) /\ Len(<<"LF">>) = 1
      BY DEF Piece, Bytes
    <3>4. string \in Seq(Piece) /\ Tail(string) \in Seq(Piece) /\ string # <<>>
      BY <1>2, <3>1, <3>2, <3>3, ConcatProperties
    <3>5. /\ Len(Tail(string)) = Len(text[c])
          /\ \A i \in 2 .. Len(Tail(string)) : Tail(string)[i] = Tail(text[c])[i - 1]
      BY <1>2, <3>2, <3>3, ConcatProperties
    <3>6. \A i \in 2 .. Len(Tail(string)) : Tail(string)[i] = text[c][i]
      BY <1>2, <3>5
    <3>7. "CR" \in Bytes
      BY DEF Bytes
    <3> QED
      BY <2>1, <3>2, <3>4, <3>5, <3>6, <3>7
  <2>3. CASE Head(text[c]) # "newline"
    <3>1. string = text[c]
      BY <2>3
    <3> QED
      BY <1>1, <1>2, <2>1, <2>3, <3>1 DEF Piece
  <2> QED
    BY <2>2, <2>3
<1>4. entry \in Sent(calls) /\ output \in Seq(Sent(calls)) /\ n \in Nat
  <2>1. call[c] \in 1 .. calls
    BY <1>1 DEF TypeOK, OwnCall
  <2>2. end \in BOOLEAN
    OBVIOUS
  <2>3. output \in Seq(Sent(calls))
    BY DEF TypeOK, Sent
  <2> QED
    BY <1>3, <2>1, <2>2, <2>3, LenProperties DEF Sent
<1> HIDE DEF string, end
<1>5. /\ entry.call = call[c] /\ entry.byte = Head(string) /\ entry.last = end
  OBVIOUS
<1> HIDE DEF entry
<1>6. /\ output' \in Seq(Sent(calls)) /\ output' # <<>> /\ Len(output') = n + 1
      /\ \A i \in 1 .. n : output'[i] = output[i]
      /\ output'[n + 1] = entry
  BY <1>1, <1>4, AppendProperties
<1> HIDE DEF n
<1>7. Last' = entry
  BY <1>6 DEF Last
<1>8. output = <<>> <=> n = 0
  BY <1>4, EmptySeq DEF n
<1>9. \A d \in Core : text'[d] = IF d = c THEN Tail(string) ELSE text[d]
  BY <1>1 DEF TypeOK
<1>10. \A d \in Core \ {c} : pc[d] \notin {"emit", "unlock"} /\ call[d] # call[c]
  BY <1>1 DEF OneSender, OwnCall
<1>11. TypeOK'
  BY <1>1, <1>3, <1>6 DEF TypeOK, Sent, Piece
<1>12. NoPanic' /\ OneSender' /\ OwnCall'
  BY <1>1 DEF NoPanic, OneSender, OwnCall
<1>13. Fresh'
  BY <1>1, <1>4, <1>5, <1>6, <1>10 DEF Fresh, n
<1>14. Together'
  BY <1>1, <1>4, <1>5, <1>6, <1>10 DEF Together, n
<1>15. Open'
  <2>1. owner \in Core
    BY <1>1
  <2>2. entry.last = FALSE => Tail(string) # <<>>
    BY <1>5 DEF end
  <2> QED
    BY <1>1, <1>5, <1>7, <1>9, <2>1, <2>2 DEF Open
<1>16. Feeds'
  <2>1. \A d \in Core \ {c} : pc'[d] # "emit" /\ pc'[d] = pc[d] /\ text'[d] = text[d]
    BY <1>1, <1>9, <1>10
  <2>2. \A d \in Core \ {c} :
          /\ \A i \in 2 .. Len(text'[d]) : text'[d][i] # "LF"
          /\ pc'[d] = "lock" => text'[d][1] # "LF"
    BY <2>1 DEF Feeds
  <2>3. text'[c] = Tail(string) /\ pc'[c] = "emit" /\ call'[c] = call[c]
    BY <1>1, <1>9
  <2>4. Tail(string) # <<>> /\ Tail(string)[1] = "LF" =>
          output' # <<>> /\ Last'.byte = "CR" /\ Last'.call = call[c]
    BY <1>3, <1>5, <1>6, <1>7
  <2>5. \A i \in 2 .. Len(Tail(string)) : Tail(string)[i] # "LF"
    BY <1>3
  <2> QED
    BY <2>1, <2>2, <2>3, <2>4, <2>5 DEF Feeds
<1>17. TextsAreWhole'
  <2>1. n # 0 => output[n].call = call[c] \/ output[n].last
    <3>1. n # 0 => output[n].last \in BOOLEAN
      <4>1. n # 0 => output[n] \in Sent(calls)
        BY <1>4, ElementOfSeq DEF n
      <4> QED
        BY <4>1 DEF Sent
    <3>2. n # 0 => output # <<>>
      BY <1>8
    <3> QED
      BY <1>1, <3>1, <3>2 DEF Open, Last, n
  <2>2. ASSUME NEW i \in 1 .. n, output'[i].call # output'[i + 1].call
        PROVE  /\ output'[i].last
               /\ \A j \in i + 1 .. n + 1 : output'[j].call # output'[i].call
    <3>1. CASE i = n
      BY <1>4, <1>5, <1>6, <2>1, <2>2, <3>1
    <3>2. CASE i < n
      <4>1. /\ output'[i] = output[i] /\ output'[i + 1] = output[i + 1]
            /\ i + 1 \in 1 .. n
        BY <1>4, <1>6, <3>2
      <4>2. /\ output[i].last
            /\ \A j \in i + 1 .. n : output[j].call # output[i].call
        BY <1>4, <2>2, <3>2, <4>1 DEF TextsAreWhole, n
      <4>3. output[i].call # call[c]
        BY <1>1, <1>4, <2>2, <3>2, <4>1 DEF Together, n
      <4> QED
        BY <1>4, <1>5, <1>6, <4>1, <4>2, <4>3, SMTT(30)
    <3> QED
      BY <1>4, <3>1, <3>2
  <2> QED
    BY <1>4, <1>6, <2>2 DEF TextsAreWhole
<1>18. LineEndings'
  <2>1. ASSUME NEW i \in 1 .. n + 1, output'[i].byte = "LF"
        PROVE  i > 1 /\ output'[i - 1].byte = "CR" /\ output'[i - 1].call = output'[i].call
    <3>1. CASE i <= n
      <4>1. i \in 1 .. n /\ output'[i] = output[i]
        BY <1>4, <1>6, <3>1
      <4>2. i > 1 /\ output[i - 1].byte = "CR" /\ output[i - 1].call = output[i].call
        BY <2>1, <4>1 DEF LineEndings, n
      <4> QED
        BY <1>4, <1>6, <4>1, <4>2
    <3>2. CASE i = n + 1
      <4>1. output # <<>> /\ Last.byte = "CR" /\ Last.call = call[c]
        BY <1>1, <1>3, <1>5, <1>6, <2>1, <3>2 DEF Feeds
      <4> QED
        BY <1>4, <1>5, <1>6, <1>8, <3>2, <4>1 DEF Last, n
    <3> QED
      BY <1>4, <3>1, <3>2
  <2> QED
    BY <1>6, <2>1 DEF LineEndings
<1> QED
  BY <1>11, <1>12, <1>13, <1>14, <1>15, <1>16, <1>17, <1>18

LEMMA ConsoleInvariant == Spec => []ConsoleInv
<1>1. ASSUME ConsoleInv, Next PROVE ConsoleInv'
  <2>1. ASSUME NEW c \in Core, Printf(c) PROVE ConsoleInv'
    <3>1. <<"char", "newline">> \in Seq({"char", "newline"}) /\ <<"char", "newline">> # <<>>
      OBVIOUS
    <3> QED
      BY <1>1, <2>1, <3>1, BeginStep DEF Printf, Goto
  <2>2. ASSUME NEW c \in Core, ExcHandler(c) PROVE ConsoleInv'
    <3>1. /\ <<"char", "newline">> \in Seq({"char", "newline"})
          /\ <<"char">> \in Seq({"char", "newline"})
          /\ <<"char", "newline">> # <<>> /\ <<"char">> # <<>>
      OBVIOUS
    <3>2. CASE Goto(c, "exception", "lock")
      BY <1>1, <2>2, <3>1, <3>2, BeginStep DEF ExcHandler, Goto
    <3>3. CASE Goto(c, "registers", "lock")
      BY <1>1, <2>2, <3>1, <3>3, BeginStep DEF ExcHandler, Goto
    <3> QED
      BY <2>2, <3>2, <3>3 DEF ExcHandler
  <2>3. ASSUME NEW c \in Core, Acquire(c) \/ Formatted(c) \/ Unlock(c) \/ Exception(c)
        PROVE  ConsoleInv'
    BY <1>1, <2>3, SilentStep
  <2>4. ASSUME NEW c \in Core, Emit(c) PROVE ConsoleInv'
    BY <1>1, <2>4, EmitStep
  <2>5. CASE Quiet
    BY <1>1, <2>5 DEF Quiet, vars, ConsoleInv, TypeOK, NoPanic, OneSender, OwnCall, Fresh,
                      Together, Open, Feeds, TextsAreWhole, LineEndings, Last
  <2> QED
    BY <1>1, <2>1, <2>2, <2>3, <2>4, <2>5 DEF Next, Run
<1>2. ASSUME ConsoleInv, UNCHANGED vars PROVE ConsoleInv'
  BY <1>2 DEF vars, ConsoleInv, TypeOK, NoPanic, OneSender, OwnCall, Fresh,
              Together, Open, Feeds, TextsAreWhole, LineEndings, Last
<1> QED
  BY <1>1, <1>2, InitConsoleInv, PTL DEF Spec

\* Every variable of the console keeps its type, whatever is printed and
\* wherever an exception strikes (printf.cpp:213-221, exec.cpp:26-73).
THEOREM ConsoleTypes == Spec => []TypeOK
<1>1. ConsoleInv => TypeOK
  BY DEF ConsoleInv
<1> QED
  BY <1>1, ConsoleInvariant, PTL

\* The texts of any number of cores come out whole, but for one cut short by
\* an exception, which is the last (printf.cpp:213-221, exec.cpp:26-73).
THEOREM TextsComeOutWhole == Spec => []TextsAreWhole
<1>1. ConsoleInv => TextsAreWhole
  BY DEF ConsoleInv
<1> QED
  BY <1>1, ConsoleInvariant, PTL

\* No line feed without its carriage return, whatever the other cores send
\* (kernel.cpp:40-46).
THEOREM LinesEndWell == Spec => []LineEndings
<1>1. ConsoleInv => LineEndings
  BY DEF ConsoleInv
<1> QED
  BY <1>1, ConsoleInvariant, PTL
=============================================================================
