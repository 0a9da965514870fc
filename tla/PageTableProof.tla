--------------------------- MODULE PageTableProof ---------------------------
(***************************************************************************)
(* The bring-up of the MMU for FIFOs of any depth, any number of foreign   *)
(* words, tables and blocks of any size and any split of the memory.       *)
(***************************************************************************)
EXTENDS PageTable, Numbers, SequenceTheorems, TLAPS

-----------------------------------------------------------------------------
(***************************************************************************)
(* The one word for Tags in a FIFO.                                        *)
(***************************************************************************)
None(s) == \A i \in 1 .. Len(s) : s[i] # Tags
Once(s) ==
  \E i \in 1 .. Len(s) :
    s[i] = Tags /\ \A j \in 1 .. Len(s) : s[j] = Tags => j = i

\* A word is added at the end of a FIFO.
LEMMA WordAdded ==
  ASSUME NEW s \in Seq(Channel), NEW w \in Channel
  PROVE  /\ Append(s, w) \in Seq(Channel) /\ Len(Append(s, w)) = Len(s) + 1
         /\ None(s) /\ w # Tags => None(Append(s, w))
         /\ None(s) /\ w = Tags => Once(Append(s, w))
         /\ Once(s) /\ w # Tags => Once(Append(s, w))
<1> DEFINE t == Append(s, w)
           n == Len(s)
<1>1. /\ t \in Seq(Channel) /\ n \in Nat /\ Len(t) = n + 1
      /\ \A i \in 1 .. n : t[i] = s[i]
      /\ t[n + 1] = w
  BY AppendProperties, LenProperties
<1> HIDE DEF t
<1>2. \A i \in 1 .. Len(t) : i \in 1 .. n \/ i = n + 1
  BY <1>1
<1>3. None(s) /\ w # Tags => None(t)
  BY <1>1, <1>2 DEF None
<1>4. None(s) /\ w = Tags => Once(t)
  <2>1. n + 1 \in 1 .. Len(t)
    BY <1>1
  <2> QED
    BY <1>1, <1>2, <2>1 DEF None, Once
<1>5. Once(s) /\ w # Tags => Once(t)
  <2>1. \A i \in 1 .. n : i \in 1 .. Len(t)
    BY <1>1
  <2> QED
    BY <1>1, <1>2, <2>1 DEF Once
<1> QED
  BY <1>1, <1>3, <1>4, <1>5 DEF t

\* The first word of a FIFO is taken.
LEMMA WordTaken ==
  ASSUME NEW s \in Seq(Channel), s # <<>>
  PROVE  /\ Tail(s) \in Seq(Channel) /\ Len(Tail(s)) = Len(s) - 1 /\ Len(s) \in Nat \ {0}
         /\ None(s) => Head(s) # Tags /\ None(Tail(s))
         /\ Once(s) /\ Head(s) = Tags => None(Tail(s))
         /\ Once(s) /\ Head(s) # Tags => Once(Tail(s))
<1> DEFINE t == Tail(s)
           n == Len(t)
<1>1. /\ t \in Seq(Channel) /\ n \in Nat /\ Len(s) = n + 1 /\ Head(s) = s[1]
      /\ \A i \in 1 .. n : t[i] = s[i + 1]
  <2>1. t \in Seq(Channel) /\ Len(t) = Len(s) - 1 /\ \A i \in 1 .. n : t[i] = s[i + 1]
    BY HeadTailProperties
  <2>2. Len(s) \in Nat \ {0} /\ Head(s) = s[1]
    BY EmptySeq
  <2>3. n \in Nat /\ Len(s) = n + 1
    BY <2>1, <2>2
  <2> QED
    BY <2>1, <2>2, <2>3
<1> HIDE DEF t
<1>2. \A i \in 1 .. n : i + 1 \in 1 .. Len(s) /\ i + 1 # 1
  BY <1>1
<1>3. \A i \in 1 .. Len(s) : i # 1 => i - 1 \in 1 .. n /\ t[i - 1] = s[i]
  <2> TAKE i \in 1 .. Len(s)
  <2>1. i # 1 => i - 1 \in 1 .. n /\ (i - 1) + 1 = i
    BY <1>1
  <2> QED
    BY <1>1, <2>1
<1>4. None(s) => Head(s) # Tags /\ None(t)
  <2>1. 1 \in 1 .. Len(s)
    BY <1>1
  <2> QED
    BY <1>1, <1>2, <2>1 DEF None
<1>5. Once(s) /\ Head(s) = Tags => None(t)
  <2>1. 1 \in 1 .. Len(s)
    BY <1>1
  <2> QED
    BY <1>1, <1>2, <2>1 DEF None, Once
<1>6. Once(s) /\ Head(s) # Tags => Once(t)
  <2> SUFFICES ASSUME Once(s), Head(s) # Tags PROVE Once(t)
    OBVIOUS
  <2>1. PICK i \in 1 .. Len(s) : s[i] = Tags /\ \A j \in 1 .. Len(s) : s[j] = Tags => j = i
    BY DEF Once
  <2>2. i - 1 \in 1 .. n /\ t[i - 1] = Tags
    BY <1>1, <1>3, <2>1
  <2>3. ASSUME NEW j \in 1 .. n, t[j] = Tags PROVE j = i - 1
    BY <1>1, <1>2, <2>1, <2>3
  <2> QED
    BY <2>2, <2>3 DEF Once
<1> QED
  BY <1>1, <1>4, <1>5, <1>6 DEF t

-----------------------------------------------------------------------------
(***************************************************************************)
(* The call.                                                               *)
(***************************************************************************)
Reply == (message[1] = Answered /\ message[5] = vcBase) \/ message[1] = Refused

\* The address of the message is in one place at a time: with the ARM, in
\* Write1, with the VideoCore, or in Read0.
Token ==
  /\ pc \in {"call", "write"} => vc = "idle" /\ None(toVC) /\ None(toARM)
  /\ pc = "read" =>
       \/ vc = "idle" /\ Once(toVC) /\ None(toARM)
       \/ vc = "asked" /\ None(toVC) /\ None(toARM)
       \/ vc = "written" /\ None(toVC) /\ None(toARM) /\ Reply
       \/ vc = "idle" /\ None(toVC) /\ Once(toARM) /\ Reply
  /\ pc \in {"answered", "true", "false", "done"} =>
       vc = "idle" /\ None(toVC) /\ None(toARM) /\ Reply

\* The caller's array is touched only by an answer.
Result ==
  /\ pc \notin {"true", "done"} => \A i \in 0 .. DataCount - 1 : msg[i] = 0
  /\ pc = "true" => message[1] = Answered /\ msg[3] = message[5] /\ msg[4] = message[6]
  /\ pc = "false" => message[1] # Answered

Places == {"call", "write", "read", "answered", "true", "false", "done"}

CallInv == pc \in Places /\ MailboxTypeOK /\ Token /\ Result

LEMMA InitCallInv == Init => CallInv
<1> SUFFICES ASSUME Init PROVE CallInv
  OBVIOUS
<1> USE MailboxAssumption DEF Init, MailboxInit, MailboxAssumption
<1>1. toVC \in Seq(Channel) /\ Len(toVC) <= Depth /\ None(toVC)
  <2>1. CASE toVC = <<>>
    BY <2>1 DEF None
  <2>2. CASE toVC \in [1 .. Depth -> Channel \ {Tags}]
    <3>1. toVC \in Seq(Channel) /\ Len(toVC) = Depth
      BY <2>2
    <3> QED
      BY <2>2, <3>1 DEF None
  <2> QED
    BY <2>1, <2>2
<1>2. toARM \in Seq(Channel) /\ Len(toARM) <= Depth /\ None(toARM)
  BY DEF None
<1>3. MailboxTypeOK
  BY <1>1, <1>2 DEF MailboxTypeOK, Word, DataCount
<1> QED
  BY <1>1, <1>2, <1>3 DEF CallInv, Token, Result, Places, DataCount

\* The ARM's steps.
LEMMA ArmStep == CallInv /\ ARM => CallInv'
<1> SUFFICES ASSUME CallInv, ARM PROVE CallInv'
  OBVIOUS
<1> USE DEF CallInv
<1>1. CASE MailboxTagMessage
  <2>1. message' \in [0 .. DataCount + 2 -> Word]
    BY <1>1 DEF MailboxTagMessage, Word, DataCount
  <2> QED
    BY <1>1, <2>1 DEF MailboxTagMessage, MailboxTypeOK, Token, Result, Places
<1>2. CASE MailboxWrite
  <2>1. toVC \in Seq(Channel) /\ Tags \in Channel /\ None(toVC) /\ vc = "idle" /\ None(toARM)
    BY <1>2, MailboxAssumption DEF MailboxWrite, MailboxTypeOK, MailboxAssumption, Token
  <2>2. toVC' \in Seq(Channel) /\ Once(toVC') /\ Len(toVC') = Len(toVC) + 1
    BY <1>2, <2>1, WordAdded DEF MailboxWrite
  <2>3. Len(toVC') <= Depth
    BY <1>2, <2>1, <2>2, MailboxAssumption, LenProperties DEF MailboxWrite, MailboxAssumption
  <2>4. MailboxTypeOK'
    BY <1>2, <2>2, <2>3 DEF MailboxWrite, MailboxTypeOK
  <2> QED
    BY <1>2, <2>1, <2>2, <2>4 DEF MailboxWrite, Token, Result, Places
<1>3. CASE MailboxRead
  <2>1. toARM \in Seq(Channel) /\ toARM # <<>> /\ toARM' = Tail(toARM) /\ Len(toARM) <= Depth
    BY <1>3 DEF MailboxRead, MailboxTypeOK
  <2>2. toARM' \in Seq(Channel) /\ Len(toARM') <= Depth
    BY <2>1, WordTaken, MailboxAssumption DEF MailboxAssumption
  <2>3. MailboxTypeOK'
    BY <1>3, <2>2 DEF MailboxRead, MailboxTypeOK
  <2>4. CASE Head(toARM) = Tags
    <3>1. Once(toARM) /\ vc = "idle" /\ None(toVC) /\ Reply
      BY <1>3, <2>1, <2>4, WordTaken DEF MailboxRead, Token
    <3>2. None(toARM')
      BY <2>1, <2>4, <3>1, WordTaken
    <3> QED
      BY <1>3, <2>3, <2>4, <3>1, <3>2 DEF MailboxRead, Token, Result, Reply, Places
  <2>5. CASE Head(toARM) # Tags
    <3>1. /\ None(toARM) => None(toARM')
          /\ Once(toARM) => Once(toARM')
      BY <2>1, <2>5, WordTaken
    <3> QED
      BY <1>3, <2>3, <2>5, <3>1 DEF MailboxRead, Token, Result, Reply, Places
  <2> QED
    BY <2>4, <2>5
<1>4. CASE TagResult
  <2>1. MailboxTypeOK'
    BY <1>4 DEF TagResult, MailboxTypeOK, DataCount
  <2>2. Token' /\ pc' \in Places
    BY <1>4 DEF TagResult, Token, Reply, Places
  <2>3. Result'
    BY <1>4 DEF TagResult, Result, DataCount
  <2> QED
    BY <2>1, <2>2, <2>3
<1> QED
  BY <1>1, <1>2, <1>3, <1>4 DEF ARM

\* The VideoCore's steps.
LEMMA VideoCoreStep ==
  ASSUME CallInv, VideoCore \/ \E channel \in Channel \ {Tags} : VCPostForeign(channel)
  PROVE  CallInv' /\ pc' = pc
<1> USE DEF CallInv
<1>1. CASE VCTake
  <2>1. toVC \in Seq(Channel) /\ toVC # <<>> /\ toVC' = Tail(toVC) /\ Len(toVC) <= Depth
    BY <1>1 DEF VCTake, MailboxTypeOK
  <2>2. toVC' \in Seq(Channel) /\ Len(toVC') <= Depth
    BY <2>1, WordTaken, MailboxAssumption DEF MailboxAssumption
  <2>3. MailboxTypeOK'
    BY <1>1, <2>2 DEF VCTake, MailboxTypeOK
  <2>4. CASE Head(toVC) = Tags
    <3>1. ~ None(toVC)
      BY <2>1, <2>4, WordTaken
    <3>2. pc = "read" /\ Once(toVC) /\ None(toARM)
      BY <3>1 DEF Token, Places
    <3>3. None(toVC')
      BY <2>1, <2>4, <3>2, WordTaken
    <3> QED
      BY <1>1, <2>3, <2>4, <3>2, <3>3 DEF VCTake, Token, Result, Places
  <2>5. CASE Head(toVC) # Tags
    <3>1. /\ None(toVC) => None(toVC')
          /\ Once(toVC) => Once(toVC')
      BY <2>1, <2>5, WordTaken
    <3> QED
      BY <1>1, <2>3, <2>5, <3>1 DEF VCTake, Token, Result, Reply, Places
  <2> QED
    BY <2>4, <2>5
<1>2. CASE VCWrite
  <2>1. pc = "read" /\ None(toVC) /\ None(toARM)
    BY <1>2 DEF VCWrite, Token, Places
  <2>2. vcBase \in Word /\ Answered \in Word /\ Refused \in Word
    BY MailboxAssumption DEF MailboxAssumption, MailboxTypeOK, Word
  <2>3. MailboxTypeOK'
    BY <1>2, <2>2 DEF VCWrite, MailboxTypeOK, DataCount
  <2>4. Reply'
    BY <1>2 DEF VCWrite, MailboxTypeOK, Reply, DataCount
  <2> QED
    BY <1>2, <2>1, <2>3, <2>4 DEF VCWrite, Token, Result, Places
<1>3. CASE VCPost
  <2>1. pc = "read" /\ None(toVC) /\ None(toARM) /\ Reply
    BY <1>3 DEF VCPost, Token, Places
  <2>2. toARM \in Seq(Channel) /\ Tags \in Channel
    BY MailboxAssumption DEF MailboxAssumption, MailboxTypeOK
  <2>3. toARM' \in Seq(Channel) /\ Once(toARM') /\ Len(toARM') = Len(toARM) + 1
    BY <1>3, <2>1, <2>2, WordAdded DEF VCPost
  <2>4. Len(toARM') <= Depth
    BY <1>3, <2>2, <2>3, MailboxAssumption, LenProperties DEF VCPost, MailboxAssumption
  <2>5. MailboxTypeOK'
    BY <1>3, <2>3, <2>4 DEF VCPost, MailboxTypeOK
  <2> QED
    BY <1>3, <2>1, <2>3, <2>5 DEF VCPost, Token, Result, Reply, Places
<1>4. ASSUME NEW channel \in Channel \ {Tags}, VCPostForeign(channel)
      PROVE  CallInv' /\ pc' = pc
  <2>1. toARM \in Seq(Channel)
    BY DEF MailboxTypeOK
  <2>2. /\ toARM' \in Seq(Channel) /\ Len(toARM') = Len(toARM) + 1
        /\ None(toARM) => None(toARM')
        /\ Once(toARM) => Once(toARM')
    BY <1>4, <2>1, WordAdded DEF VCPostForeign
  <2>3. Len(toARM') <= Depth
    BY <1>4, <2>1, <2>2, MailboxAssumption, LenProperties DEF VCPostForeign, MailboxAssumption
  <2>4. MailboxTypeOK'
    BY <1>4, <2>2, <2>3, MailboxAssumption DEF VCPostForeign, MailboxTypeOK, MailboxAssumption
  <2> QED
    BY <1>4, <2>2, <2>4 DEF VCPostForeign, Token, Result, Reply, Places
<1> QED
  BY <1>1, <1>2, <1>3, <1>4 DEF VideoCore

-----------------------------------------------------------------------------
(***************************************************************************)
(* MMU_enable.                                                             *)
(***************************************************************************)
Roots == {"mair_el1", "ttbr0_el1", "ttbr1_el1"}

\* What is written and what is in effect at each line of enable_mmu_tables.
EnableInv ==
  /\ line \in 1 .. 9 /\ drained \in BOOLEAN
  /\ posted \subseteq Register /\ effective \subseteq Register
  /\ pc # "done" => line = 1 /\ posted = {} /\ effective = {}
  /\ line > 1 => drained = TRUE
  /\ line > 4 => Roots \subseteq posted \union effective
  /\ line > 5 => Roots \subseteq effective
  /\ line > 6 => "tcr_el1" \in posted \union effective
  /\ line > 7 => "tcr_el1" \in effective
  /\ "sctlr_el1" \in posted \union effective => line = 9
  /\ line = 3 => "mair_el1" \in posted \union effective
  /\ line = 4 => {"mair_el1", "ttbr0_el1"} \subseteq posted \union effective

LEMMA EnableStep ==
  ASSUME EnableInv, Enable \/ StoresDrain \/ \E register \in Register : TakesEffect(register)
  PROVE  EnableInv'
<1> USE DEF EnableInv, Roots
<1>1. /\ Len(EnableMmuTables) = 8
      /\ EnableMmuTables[1] = "dsb" /\ EnableMmuTables[2] = "mair_el1"
      /\ EnableMmuTables[3] = "ttbr0_el1" /\ EnableMmuTables[4] = "ttbr1_el1"
      /\ EnableMmuTables[5] = "isb" /\ EnableMmuTables[6] = "tcr_el1"
      /\ EnableMmuTables[7] = "isb" /\ EnableMmuTables[8] = "sctlr_el1"
  BY DEF EnableMmuTables
<1>2. ASSUME Enable PROVE line \in 1 .. 8 /\ line' = line + 1 /\ pc = "done" /\ pc' = pc
  BY <1>1, <1>2 DEF Enable, Dsb, Msr, Isb, At
<1>3. CASE Dsb
  <2>1. line = 1
    BY <1>1, <1>2, <1>3 DEF Enable, Dsb, At
  <2> QED
    BY <1>2, <1>3, <2>1 DEF Enable, Dsb
<1>4. CASE Msr
  <2>1. line \in {2, 3, 4, 6, 8}
    <3>1. line \in 1 .. 8 /\ EnableMmuTables[line] \in Register
      BY <1>2, <1>4 DEF Enable, Msr, At
    <3> QED
      BY <1>1, <3>1 DEF Register
  <2>2. /\ effective' = effective /\ drained' = drained /\ line' = line + 1
        /\ posted' = posted \union {EnableMmuTables[line]}
    BY <1>2, <1>4 DEF Enable, Msr
  <2>3. /\ pc' = "done" /\ line' \in 1 .. 9 /\ drained' = TRUE
        /\ posted' \subseteq Register /\ effective' \subseteq Register
    <3>1. drained = TRUE
      BY <2>1
    <3>2. posted' \subseteq Register
      <4>1. EnableMmuTables[line] \in Register
        BY <1>4 DEF Msr, At
      <4> QED
        BY <2>2, <4>1
    <3> QED
      BY <1>2, <1>4, <2>2, <3>1, <3>2 DEF Enable
  <2>4. line' > 4 => Roots \subseteq posted' \union effective'
    BY <1>1, <2>1, <2>2
  <2>5. line' > 5 => Roots \subseteq effective'
    BY <2>1, <2>2
  <2>6. line' > 6 => "tcr_el1" \in posted' \union effective'
    BY <1>1, <2>1, <2>2
  <2>7. line' > 7 => "tcr_el1" \in effective'
    BY <2>1, <2>2
  <2>8. "sctlr_el1" \in posted' \union effective' => line' = 9
    <3>1. "sctlr_el1" \notin posted \union effective
      BY <2>1
    <3>2. EnableMmuTables[line] = "sctlr_el1" => line = 8
      BY <1>1, <2>1
    <3> QED
      BY <2>2, <3>1, <3>2
  <2>9. line' = 3 => "mair_el1" \in posted' \union effective'
    BY <1>1, <2>1, <2>2
  <2>10. line' = 4 => {"mair_el1", "ttbr0_el1"} \subseteq posted' \union effective'
    BY <1>1, <2>1, <2>2
  <2> QED
    BY <2>3, <2>4, <2>5, <2>6, <2>7, <2>8, <2>9, <2>10
<1>5. CASE Isb
  <2>1. line \in {5, 7}
    BY <1>1, <1>2, <1>5 DEF Enable, Isb, At
  <2>2. CASE line = 5
    BY <1>2, <1>5, <2>2 DEF Enable, Isb
  <2>3. CASE line = 7
    BY <1>2, <1>5, <2>3 DEF Enable, Isb
  <2> QED
    BY <2>1, <2>2, <2>3
<1>6. ASSUME NEW register \in Register, TakesEffect(register) PROVE EnableInv'
  <2>1. posted' \union effective' = posted \union effective /\ effective \subseteq effective'
    BY <1>6 DEF TakesEffect
  <2>2. UNCHANGED <<pc, line, drained>> /\ posted' \subseteq Register /\ effective' \subseteq Register
    BY <1>6 DEF TakesEffect
  <2>3. pc = "done"
    BY <1>6 DEF TakesEffect
  <2> QED
    BY <2>1, <2>2, <2>3
<1>7. CASE StoresDrain
  BY <1>7 DEF StoresDrain
<1> QED
  BY <1>3, <1>4, <1>5, <1>6, <1>7 DEF Enable

-----------------------------------------------------------------------------
(***************************************************************************)
(* The tables.                                                             *)
(***************************************************************************)
\* Where the RAM ends: nowhere, if the VideoCore refused.
Border == IF message[1] = Answered THEN message[5] \div BlockSize ELSE 0

BlockOf(b) ==
  IF b < Border THEN Block(b, "MT_NORMAL", "inner")
  ELSE IF b < VCLimit THEN Block(b, "MT_NORMAL_NC", "none")
  ELSE IF b <= Entries THEN Block(b, "MT_DEVICE_NGNRNE", "none")
  ELSE Invalid

LastOnly(table) ==
  [i \in 0 .. Entries - 1 |-> IF i = Entries - 1 THEN TableAt(table, 0) ELSE Invalid]

TablesInv ==
  IF pc = "done"
    THEN /\ Stage2map1to1 = [b \in 0 .. 2 * Entries - 1 |-> BlockOf(b)]
         /\ page_table_map1to1 = [i \in 0 .. Entries - 1 |->
              IF i = 0 THEN TableAt("Stage2map1to1", 0)
              ELSE IF i = 1 THEN TableAt("Stage2map1to1", Entries) ELSE Invalid]
         /\ page_table_virtualmap = LastOnly("Stage2virtual")
         /\ Stage2virtual = LastOnly("Stage3virtual")
    ELSE /\ Stage2map1to1 = [b \in 0 .. 2 * Entries - 1 |-> Invalid]
         /\ page_table_map1to1 = [i \in 0 .. Entries - 1 |-> Invalid]
         /\ page_table_virtualmap = [i \in 0 .. Entries - 1 |-> Invalid]
         /\ Stage2virtual = [i \in 0 .. Entries - 1 |-> Invalid]

\* The tables have two entries and more, and the border is below the devices.
LEMMA BorderInside ==
  ASSUME CallInv, pc \in {"true", "false", "done"}
  PROVE  /\ Entries \in Nat /\ Entries >= 2
         /\ VCLimit \in Nat /\ VCLimit < Entries
         /\ Border \in Nat /\ Border <= VCLimit
         /\ message[1] = Answered => message[5] = vcBase
<1> USE DEF CallInv
<1>1. /\ Entries \in Nat /\ DeviceBlocks \in 1 .. Entries
      /\ BlockSize \in Nat /\ BlockSize >= 1
      /\ vcBase \in Nat /\ vcBase > 0 /\ vcBase <= (Entries - DeviceBlocks) * BlockSize
  BY PageTableAssumption, MailboxAssumption
     DEF PageTableAssumption, MailboxAssumption, MailboxTypeOK
<1>2. VCLimit \in Nat /\ VCLimit < Entries
  BY <1>1 DEF VCLimit
<1>3. VCLimit # 0
  <2> SUFFICES ASSUME VCLimit = 0 PROVE FALSE
    OBVIOUS
  <2>1. (Entries - DeviceBlocks) * BlockSize = 0
    BY <1>1 DEF VCLimit
  <2> QED
    BY <1>1, <2>1
<1>4. message[1] = Answered => message[5] = vcBase
  BY MailboxAssumption DEF MailboxAssumption, Token, Reply
<1>5. Border \in Nat /\ Border <= VCLimit
  <2>1. CASE message[1] = Answered
    <3> DEFINE q == vcBase \div BlockSize
    <3>1. Border = q
      BY <1>4, <2>1 DEF Border
    <3>2. q \in Nat /\ BlockSize * q <= vcBase
      BY <1>1, Division
    <3> HIDE DEF q
    <3>3. ~ VCLimit + 1 <= q
      <4> SUFFICES ASSUME VCLimit + 1 <= q PROVE FALSE
        OBVIOUS
      <4>1. BlockSize * (VCLimit + 1) <= BlockSize * q
        BY <1>1, <1>2, <3>2, FactorsInOrder
      <4>2. BlockSize * (VCLimit + 1) = VCLimit * BlockSize + BlockSize /\ VCLimit * BlockSize \in Nat
        BY <1>1, <1>2
      <4>3. vcBase <= VCLimit * BlockSize
        BY <1>1 DEF VCLimit
      <4>4. BlockSize * q \in Nat
        BY <1>1, <3>2
      <4> HIDE DEF VCLimit
      <4> QED
        BY <1>1, <1>2, <3>2, <4>1, <4>2, <4>3, <4>4
    <3> QED
      BY <1>2, <3>1, <3>2, <3>3
  <2>2. CASE message[1] # Answered
    BY <1>2, <2>2 DEF Border
  <2> QED
    BY <2>1, <2>2
<1> QED
  BY <1>1, <1>2, <1>3, <1>4, <1>5

LEMMA SetupStep ==
  ASSUME CallInv, TablesInv, EnableInv, SetupPageTable
  PROVE  CallInv' /\ TablesInv' /\ EnableInv'
<1>1. /\ pc \in {"true", "false"} /\ pc' = "done"
      /\ UNCHANGED <<message, msg, toVC, toARM, vc, vcBase, foreign>>
      /\ UNCHANGED <<line, drained, posted, effective>>
  BY DEF SetupPageTable, mailboxVars, enabling
<1>2. CallInv'
  BY <1>1 DEF CallInv, MailboxTypeOK, Token, Result, Reply, Places
<1>3. EnableInv'
  BY <1>1 DEF EnableInv
<1>4. /\ Entries \in Nat /\ Entries >= 2
      /\ VCLimit \in Nat /\ VCLimit < Entries
      /\ Border \in Nat /\ Border <= VCLimit
  BY <1>1, BorderInside
<1>5. Split = Border
  BY <1>1 DEF CallInv, Result, Split, Border, DataCount
<1>6. After(Split, VCLimit) = VCLimit
  BY <1>4, <1>5 DEF After
<1>7. Stage2map1to1' = [b \in 0 .. 2 * Entries - 1 |-> BlockOf(b)]
  <2> DEFINE none == [b \in 0 .. 2 * Entries - 1 |-> Invalid]
             ram == Stored(none, Ram(Border))
             vcram == Stored(ram, VCRam(Border))
             devices == Stored(vcram, Devices(VCLimit))
  <2>1. Stage2map1to1' = Stored(devices, Mailboxes)
    BY <1>1, <1>5, <1>6 DEF SetupPageTable, TablesInv
  <2>2. ram = [b \in 0 .. 2 * Entries - 1 |->
                IF b < Border THEN Block(b, "MT_NORMAL", "inner") ELSE Invalid]
    BY <1>4 DEF Stored, Ram
  <2> HIDE DEF ram
  <2>3. vcram = [b \in 0 .. 2 * Entries - 1 |->
                  IF b \in Border .. VCLimit - 1 THEN Block(b, "MT_NORMAL_NC", "none") ELSE ram[b]]
    BY <2>2 DEF Stored, VCRam
  <2> HIDE DEF vcram
  <2>4. devices = [b \in 0 .. 2 * Entries - 1 |->
                    IF b \in VCLimit .. Entries - 1
                      THEN Block(b, "MT_DEVICE_NGNRNE", "none") ELSE vcram[b]]
    BY <2>3 DEF Stored, Devices
  <2> HIDE DEF devices
  <2>5. Stored(devices, Mailboxes) =
          [b \in 0 .. 2 * Entries - 1 |->
            IF b = Entries THEN Block(b, "MT_DEVICE_NGNRNE", "none") ELSE devices[b]]
    BY <2>4 DEF Stored, Mailboxes
  <2>6. \A b \in 0 .. 2 * Entries - 1 :
          (IF b = Entries THEN Block(b, "MT_DEVICE_NGNRNE", "none") ELSE devices[b]) = BlockOf(b)
    BY <1>4, <2>2, <2>3, <2>4 DEF BlockOf
  <2> QED
    BY <2>1, <2>5, <2>6
<1>8. page_table_map1to1' = [i \in 0 .. Entries - 1 |->
              IF i = 0 THEN TableAt("Stage2map1to1", 0)
              ELSE IF i = 1 THEN TableAt("Stage2map1to1", Entries) ELSE Invalid]
  <2>1. page_table_map1to1' = Stored([i \in 0 .. Entries - 1 |-> Invalid], Root)
    BY <1>1 DEF SetupPageTable, TablesInv
  <2>2. 0 * Entries = 0 /\ 1 * Entries = Entries
    BY <1>4
  <2> QED
    BY <1>4, <2>1, <2>2 DEF Stored, Root
<1>9. /\ page_table_virtualmap' = LastOnly("Stage2virtual")
      /\ Stage2virtual' = LastOnly("Stage3virtual")
  <2> DEFINE none == [i \in 0 .. Entries - 1 |-> Invalid]
  <2>1. /\ page_table_virtualmap' = Stored(none, VirtualEntry("Stage2virtual"))
        /\ Stage2virtual' = Stored(none, VirtualEntry("Stage3virtual"))
    BY <1>1 DEF SetupPageTable, TablesInv
  <2>2. ASSUME NEW table PROVE Stored(none, VirtualEntry(table)) = LastOnly(table)
    BY <1>4 DEF Stored, VirtualEntry, LastOnly
  <2> QED
    BY <2>1, <2>2
<1>10. [b \in 0 .. 2 * Entries - 1 |-> BlockOf(b)]' = [b \in 0 .. 2 * Entries - 1 |-> BlockOf(b)]
  BY <1>1 DEF BlockOf, Border
<1> QED
  BY <1>1, <1>2, <1>3, <1>7, <1>8, <1>9, <1>10 DEF TablesInv

-----------------------------------------------------------------------------
(***************************************************************************)
(* The invariant of the specification.                                     *)
(***************************************************************************)
PageTableInv == CallInv /\ TablesInv /\ EnableInv

LEMMA PageTableInvariant == Spec => []PageTableInv
<1> USE DEF PageTableInv
<1>1. Init => PageTableInv
  <2> SUFFICES ASSUME Init PROVE PageTableInv
    OBVIOUS
  <2>1. CallInv
    BY InitCallInv
  <2>2. pc = "call"
    BY DEF Init, MailboxInit
  <2>3. TablesInv
    BY <2>2 DEF Init, TablesInv
  <2>4. EnableInv
    <3>1. line = 1 /\ drained = FALSE /\ posted = {} /\ effective = {}
      BY DEF Init
    <3>2. "sctlr_el1" \notin posted \union effective
      BY <3>1
    <3>3. /\ line \in 1 .. 9 /\ ~ line > 1 /\ ~ line > 4 /\ ~ line > 5 /\ ~ line > 6
          /\ ~ line > 7 /\ line # 3 /\ line # 4
      BY <3>1
    <3>4. drained \in BOOLEAN /\ posted \subseteq Register /\ effective \subseteq Register
      BY <3>1
    <3> QED
      BY <3>1, <3>2, <3>3, <3>4 DEF EnableInv
  <2> QED
    BY <2>1, <2>3, <2>4
<1>2. ASSUME PageTableInv, UNCHANGED <<tables, enabling, pc, message>> PROVE TablesInv' /\ EnableInv'
  BY <1>2 DEF tables, enabling, TablesInv, BlockOf, Border, EnableInv
<1>3. ASSUME PageTableInv, Next PROVE PageTableInv'
  <2>1. CASE ARM /\ UNCHANGED <<tables, enabling>>
    <3>1. CallInv'
      BY <1>3, <2>1, ArmStep
    <3>2. pc # "done" /\ pc' # "done"
      BY <2>1 DEF ARM, MailboxTagMessage, MailboxWrite, MailboxRead, TagResult
    <3> QED
      BY <1>3, <2>1, <3>1, <3>2 DEF tables, enabling, TablesInv, EnableInv
  <2>2. CASE VideoCore /\ UNCHANGED <<tables, enabling>>
    <3>1. CallInv' /\ pc' = pc
      BY <1>3, <2>2, VideoCoreStep
    <3>2. CASE VCWrite
      <4>1. pc # "done"
        BY <1>3, <3>2 DEF VCWrite, CallInv, Token
      <4> QED
        BY <1>3, <2>2, <3>1, <4>1 DEF tables, enabling, TablesInv, EnableInv
    <3>3. CASE VCTake \/ VCPost
      <4>1. message' = message
        BY <3>3 DEF VCTake, VCPost
      <4> QED
        BY <1>2, <1>3, <2>2, <3>1, <4>1
    <3> QED
      BY <2>2, <3>2, <3>3 DEF VideoCore
  <2>3. ASSUME NEW channel \in Channel \ {Tags},
               VCPostForeign(channel) /\ UNCHANGED <<tables, enabling>>
        PROVE  PageTableInv'
    <3>1. CallInv' /\ pc' = pc
      BY <1>3, <2>3, VideoCoreStep
    <3>2. message' = message
      BY <2>3 DEF VCPostForeign
    <3> QED
      BY <1>2, <1>3, <2>3, <3>1, <3>2
  <2>4. CASE SetupPageTable
    BY <1>3, <2>4, SetupStep
  <2>5. CASE Enable \/ StoresDrain \/ \E register \in Register : TakesEffect(register)
    <3>1. EnableInv'
      BY <1>3, <2>5, EnableStep
    <3>2. UNCHANGED <<pc, mailboxVars, tables>>
      BY <2>5 DEF Enable, Dsb, Msr, Isb, At, StoresDrain, TakesEffect
    <3>3. CallInv'
      BY <1>3, <3>2 DEF mailboxVars, CallInv, MailboxTypeOK, Token, Result, Reply
    <3>4. TablesInv'
      BY <1>3, <3>2 DEF mailboxVars, tables, TablesInv, BlockOf, Border
    <3> QED
      BY <3>1, <3>3, <3>4
  <2>6. CASE UNCHANGED vars
    <3>1. CallInv'
      BY <1>3, <2>6 DEF vars, mailboxVars, CallInv, MailboxTypeOK, Token, Result, Reply
    <3> QED
      BY <1>2, <1>3, <2>6, <3>1 DEF vars, mailboxVars
  <2> QED
    BY <1>3, <2>1, <2>2, <2>3, <2>4, <2>5, <2>6 DEF Next, Finished
<1>4. ASSUME PageTableInv, UNCHANGED vars PROVE PageTableInv'
  <2>1. CallInv'
    BY <1>4 DEF vars, mailboxVars, CallInv, MailboxTypeOK, Token, Result, Reply
  <2> QED
    BY <1>2, <1>4, <2>1 DEF vars, mailboxVars
<1> QED
  BY <1>1, <1>3, <1>4, PTL DEF Spec

\* An address is a place in one of the tables a root entry names.
LEMMA AddressSplit ==
  ASSUME NEW e \in Nat, e >= 1, NEW a \in 0 .. e * e - 1
  PROVE  /\ a \div e \in 0 .. e - 1 /\ a % e \in 0 .. e - 1
         /\ a = e * (a \div e) + (a % e)
<1> DEFINE q == a \div e
<1>1. a \in Nat /\ a <= e * e - 1 /\ e * e \in Nat
  OBVIOUS
<1>2. a = e * q + (a % e) /\ a % e \in 0 .. e - 1
  <2>1. a \in Nat /\ e \in Nat /\ e >= 1
    BY <1>1
  <2> QED
    BY <2>1
<1>3. q \in Nat /\ e * q <= a
  BY <1>1, Division
<1> HIDE DEF q
<1>4. ~ e <= q
  <2> SUFFICES ASSUME e <= q PROVE FALSE
    OBVIOUS
  <2>1. e * e <= e * q
    BY <1>3, FactorsInOrder
  <2>2. e * q \in Nat
    BY <1>3
  <2> QED
    BY <1>1, <1>3, <2>1, <2>2
<1> QED
  BY <1>2, <1>3, <1>4 DEF q

\* What the processor finds for a block of the lower half.
LEMMA WalkFinds ==
  ASSUME PageTableInv, pc = "done", NEW b \in AddressSpace
  PROVE  Walk1to1(b) = BlockOf(b)
<1>1. /\ Entries \in Nat /\ Entries >= 2
      /\ VCLimit \in Nat /\ VCLimit < Entries /\ Border \in Nat /\ Border <= VCLimit
  BY BorderInside DEF PageTableInv
<1> DEFINE q == b \div Entries
           r == b % Entries
<1>2. q \in 0 .. Entries - 1 /\ r \in 0 .. Entries - 1 /\ b = Entries * q + r
  <2>1. b \in 0 .. Entries * Entries - 1 /\ Entries >= 1
    BY <1>1 DEF AddressSpace
  <2> QED
    BY <1>1, <2>1, AddressSplit
<1>3. /\ \A i \in 0 .. 2 * Entries - 1 : Stage2map1to1[i] = BlockOf(i)
      /\ page_table_map1to1[q] = IF q = 0 THEN TableAt("Stage2map1to1", 0)
              ELSE IF q = 1 THEN TableAt("Stage2map1to1", Entries) ELSE Invalid
  BY <1>2 DEF PageTableInv, TablesInv
<1>4. Walk1to1(b) = IF page_table_map1to1[q].type = "table"
                      THEN Stage2map1to1[page_table_map1to1[q].index + r] ELSE Invalid
  BY DEF Walk1to1
<1> HIDE DEF q, r
<1>5. CASE q = 0
  <2>1. b = r
    BY <1>1, <1>2, <1>5
  <2>2. 0 + r = r /\ r \in 0 .. 2 * Entries - 1
    BY <1>1, <1>2
  <2> QED
    BY <1>3, <1>4, <1>5, <2>1, <2>2 DEF TableAt
<1>6. CASE q = 1
  <2>1. b = Entries + r /\ Entries + r \in 0 .. 2 * Entries - 1
    BY <1>1, <1>2, <1>6
  <2> QED
    BY <1>3, <1>4, <1>6, <2>1 DEF TableAt
<1>7. CASE q >= 2
  <2>1. Entries * 2 <= Entries * q
    BY <1>1, <1>2, <1>7, FactorsInOrder
  <2>2. Entries * q \in Nat /\ Entries * 2 = Entries + Entries
    BY <1>1, <1>2
  <2>3. b \in Nat /\ b > Entries
    BY <1>1, <1>2, <2>1, <2>2
  <2>4. BlockOf(b) = Invalid
    BY <1>1, <2>3 DEF BlockOf
  <2> QED
    BY <1>2, <1>3, <1>4, <1>7, <2>4 DEF Invalid
<1> QED
  BY <1>2, <1>5, <1>6, <1>7

\* A block is below the border exactly when all of it is below the
\* VideoCore's memory, if the VideoCore told where that is.
LEMMA BorderIsBlocks ==
  ASSUME PageTableInv, pc = "done", NEW b \in Nat
  PROVE  /\ b < Border => (b + 1) * BlockSize <= vcBase
         /\ message[1] = Answered /\ (b + 1) * BlockSize <= vcBase => b < Border
<1>1. BlockSize \in Nat /\ BlockSize >= 1 /\ vcBase \in Nat
  BY PageTableAssumption, MailboxAssumption
     DEF PageTableAssumption, MailboxAssumption, MailboxTypeOK, PageTableInv, CallInv
<1> DEFINE q == vcBase \div BlockSize
<1>2. Border = IF message[1] = Answered THEN q ELSE 0
  BY BorderInside DEF PageTableInv, Border
<1>3. q \in Nat /\ BlockSize * q <= vcBase /\ vcBase < BlockSize * q + BlockSize
  BY <1>1, Division
<1> HIDE DEF q
<1>4. /\ (b + 1) * BlockSize = BlockSize * (b + 1) /\ BlockSize * (b + 1) \in Nat
      /\ BlockSize * q \in Nat /\ BlockSize * (q + 1) = BlockSize * q + BlockSize
  BY <1>1, <1>3
<1>5. b < q => BlockSize * (b + 1) <= BlockSize * q
  <2>1. b < q => b + 1 <= q
    BY <1>3
  <2> QED
    BY <1>1, <1>3, <2>1, FactorsInOrder
<1>6. q <= b => BlockSize * (q + 1) <= BlockSize * (b + 1)
  <2>1. q <= b => q + 1 <= b + 1
    BY <1>3
  <2> QED
    BY <1>1, <1>3, <2>1, FactorsInOrder
<1> QED
  <2>1. b < q \/ q <= b
    BY <1>3
  <2>2. b < q => (b + 1) * BlockSize <= vcBase
    BY <1>1, <1>3, <1>4, <1>5
  <2>3. q <= b => ~ (b + 1) * BlockSize <= vcBase
    BY <1>1, <1>3, <1>4, <1>6
  <2>4. b < Border => message[1] = Answered /\ b < q
    BY <1>2
  <2>5. message[1] = Answered /\ b < q => b < Border
    BY <1>2
  <2> DEFINE end == (b + 1) * BlockSize
  <2>6. /\ b < q => end <= vcBase
        /\ q <= b => ~ (end <= vcBase)
    BY <2>2, <2>3
  <2> HIDE DEF Border, end
  <2>7. /\ b < Border => end <= vcBase
        /\ message[1] = Answered /\ end <= vcBase => b < Border
    BY <2>1, <2>4, <2>5, <2>6
  <2> QED
    BY <2>7 DEF end

-----------------------------------------------------------------------------
\* Every variable keeps its type: no FIFO holds more words than it has room
\* for, no table entry points outside the tables (rpi-SmartStart.cpp:31-72,
\* mmu.cpp:118-312).
THEOREM PageTableTypes == Spec => []TypeOK
<1>1. ASSUME PageTableInv PROVE TypeOK
  <2> USE DEF PageTableInv
  <2>1. Entries \in Nat
    BY PageTableAssumption DEF PageTableAssumption
  <2>2. Stage2map1to1 \in [0 .. 2 * Entries - 1 -> BlockEntry]
    <3>1. \A b \in 0 .. 2 * Entries - 1 : BlockOf(b) \in BlockEntry
      BY <2>1 DEF BlockOf, BlockEntry, Block, Attr
    <3>2. Invalid \in BlockEntry
      BY DEF BlockEntry
    <3> QED
      BY <1>1, <3>1, <3>2 DEF TablesInv
  <2>3. /\ Invalid \in TableEntry
        /\ TableAt("Stage2map1to1", 0) \in TableEntry
        /\ TableAt("Stage2map1to1", Entries) \in TableEntry
        /\ TableAt("Stage2virtual", 0) \in TableEntry
        /\ TableAt("Stage3virtual", 0) \in TableEntry
    BY DEF TableEntry, TableAt
  <2>4. /\ page_table_map1to1 \in [0 .. Entries - 1 -> TableEntry]
        /\ page_table_virtualmap \in [0 .. Entries - 1 -> TableEntry]
        /\ Stage2virtual \in [0 .. Entries - 1 -> TableEntry]
    BY <1>1, <2>3 DEF TablesInv, LastOnly
  <2>5. Len(EnableMmuTables) = 8
    BY DEF EnableMmuTables
  <2> QED
    BY <1>1, <2>2, <2>4, <2>5 DEF TypeOK, CallInv, EnableInv, Places
<1> QED
  BY <1>1, PageTableInvariant, PTL

\* For FIFOs of any depth and any words for other channels, the VideoCore
\* never has the address of a frame mailbox_tag_message has left
\* (rpi-SmartStart.cpp:48, 66-67).
THEOREM FrameIsInUse == Spec => []FrameOutlivesRequest
<1>1. PageTableInv => FrameOutlivesRequest
  BY DEF PageTableInv, CallInv, Token, Places, FrameOutlivesRequest
<1> QED
  BY <1>1, PageTableInvariant, PTL

\* The call returns the answer to its own message, whatever else comes
\* through the mailbox (rpi-SmartStart.cpp:64-71).
THEOREM CallReturnsTheAnswer == Spec => []ResultIsTheAnswer
<1>1. ASSUME PageTableInv PROVE ResultIsTheAnswer
  <2>1. pc = "true" => message[1] = Answered /\ msg[3] = vcBase /\ msg[4] = message[6]
    BY <1>1, MailboxAssumption
       DEF MailboxAssumption, PageTableInv, CallInv, Token, Reply, Result
  <2>2. pc = "false" => message[1] = Refused /\ \A i \in DOMAIN msg : msg[i] = 0
    BY <1>1 DEF PageTableInv, CallInv, Token, Reply, Result, MailboxTypeOK
  <2> QED
    BY <2>1, <2>2 DEF ResultIsTheAnswer
<1> QED
  BY <1>1, PageTableInvariant, PTL

\* The tables map one to one for every size and every split
\* (mmu.cpp:118, 260-309).
THEOREM TablesMapOneToOne == Spec => []MapsOneToOne
<1>1. ASSUME PageTableInv, pc = "done"
      PROVE  /\ \A block \in AddressSpace :
                  IF block <= Entries
                    THEN Walk1to1(block).type = "block" /\ Walk1to1(block).address = block
                    ELSE Walk1to1(block).type = "invalid"
             /\ {block \in AddressSpace : WalkVirtual(block)} = {Entries * Entries - 1}
  <2>1. /\ Entries \in Nat /\ Entries >= 2
        /\ VCLimit \in Nat /\ VCLimit < Entries /\ Border \in Nat /\ Border <= VCLimit
    BY <1>1, BorderInside DEF PageTableInv
  <2>2. ASSUME NEW block \in AddressSpace
        PROVE  IF block <= Entries
                 THEN Walk1to1(block).type = "block" /\ Walk1to1(block).address = block
                 ELSE Walk1to1(block).type = "invalid"
    <3>1. Walk1to1(block) = BlockOf(block)
      BY <1>1, <2>2, WalkFinds
    <3>2. block \in Nat
      BY <2>1 DEF AddressSpace
    <3> QED
      BY <2>1, <3>1, <3>2 DEF BlockOf, Block, Invalid
  <2>3. ASSUME NEW block \in AddressSpace
        PROVE  WalkVirtual(block) <=> block = Entries * Entries - 1
    <3> DEFINE q == block \div Entries
               r == block % Entries
    <3>1. q \in 0 .. Entries - 1 /\ r \in 0 .. Entries - 1 /\ block = Entries * q + r
      <4>1. block \in 0 .. Entries * Entries - 1 /\ Entries >= 1
        BY <2>1 DEF AddressSpace
      <4> QED
        BY <2>1, <4>1, AddressSplit
    <3>2. /\ page_table_virtualmap[q].type = "table" <=> q = Entries - 1
          /\ Stage2virtual[r].type = "table" <=> r = Entries - 1
      BY <1>1, <3>1 DEF PageTableInv, TablesInv, LastOnly, TableAt, Invalid
    <3>3. WalkVirtual(block) <=> q = Entries - 1 /\ r = Entries - 1
      BY <3>2 DEF WalkVirtual
    <3> HIDE DEF q, r
    <3>4. Entries * (Entries - 1) = Entries * Entries - Entries /\ Entries * Entries \in Nat
      BY <2>1
    <3>5. q = Entries - 1 /\ r = Entries - 1 => block = Entries * Entries - 1
      BY <2>1, <3>1, <3>4
    <3>6. block = Entries * Entries - 1 => q = Entries - 1
      <4> SUFFICES ASSUME block = Entries * Entries - 1, q < Entries - 1 PROVE FALSE
        BY <2>1, <3>1
      <4>1. Entries * (q + 1) <= Entries * (Entries - 1)
        BY <2>1, <3>1, FactorsInOrder
      <4>2. Entries * (q + 1) = Entries * q + Entries /\ Entries * q \in Nat
        BY <2>1, <3>1
      <4> QED
        BY <2>1, <3>1, <3>4, <4>1, <4>2
    <3>7. block = Entries * Entries - 1 => r = Entries - 1
      BY <2>1, <3>1, <3>4, <3>6
    <3> QED
      BY <3>3, <3>5, <3>6, <3>7
  <2>4. Entries * Entries - 1 \in AddressSpace
    <3>1. Entries * Entries \in Nat /\ Entries * 1 <= Entries * Entries /\ Entries * 1 = Entries
      BY <2>1, FactorsInOrder
    <3> QED
      BY <2>1, <3>1 DEF AddressSpace
  <2> QED
    BY <2>2, <2>3, <2>4
<1>2. PageTableInv => MapsOneToOne
  BY <1>1 DEF MapsOneToOne
<1> QED
  BY <1>2, PageTableInvariant, PTL

\* The blocks up to the mailboxes' are inside the lower half.
LEMMA DeviceBlocksAreAddresses ==
  ASSUME PageTableInv, pc = "done"
  PROVE  0 .. Entries \subseteq AddressSpace
<1>1. Entries \in Nat /\ Entries >= 2
  BY BorderInside DEF PageTableInv
<1>2. Entries * 2 <= Entries * Entries /\ Entries * 2 = Entries + Entries /\ Entries * Entries \in Nat
  BY <1>1, FactorsInOrder
<1> QED
  BY <1>1, <1>2 DEF AddressSpace

\* No VideoCore memory and no device is ever cached, for every size and every
\* answer (mmu.cpp:194-278).
THEOREM SharedMemoryStaysUncached == Spec => []SharedMemoryIsNotCached
<1>1. ASSUME PageTableInv, pc = "done", NEW block \in 0 .. Entries
      PROVE  /\ (block + 1) * BlockSize > vcBase => Walk1to1(block).attr # "MT_NORMAL"
             /\ block >= Entries - DeviceBlocks <=> Walk1to1(block).attr = "MT_DEVICE_NGNRNE"
  <2>1. /\ Entries \in Nat /\ Entries >= 2
        /\ VCLimit \in Nat /\ VCLimit < Entries /\ Border \in Nat /\ Border <= VCLimit
    BY <1>1, BorderInside DEF PageTableInv
  <2>2. Walk1to1(block) = BlockOf(block) /\ block \in Nat
    BY <1>1, <2>1, WalkFinds, DeviceBlocksAreAddresses
  <2>3. BlockOf(block).attr =
          IF block < Border THEN "MT_NORMAL"
          ELSE IF block < VCLimit THEN "MT_NORMAL_NC" ELSE "MT_DEVICE_NGNRNE"
    BY <1>1, <2>1 DEF BlockOf, Block
  <2>4. block < Border => (block + 1) * BlockSize <= vcBase
    BY <1>1, <2>2, BorderIsBlocks
  <2>5. vcBase \in Nat /\ (block + 1) * BlockSize \in Nat
    BY <1>1, <2>2, PageTableAssumption, MailboxAssumption
       DEF PageTableAssumption, MailboxAssumption, MailboxTypeOK, PageTableInv, CallInv
  <2>6. (block + 1) * BlockSize > vcBase => Walk1to1(block).attr # "MT_NORMAL"
    BY <2>2, <2>3, <2>4, <2>5
  <2>7. block >= Entries - DeviceBlocks <=> Walk1to1(block).attr = "MT_DEVICE_NGNRNE"
    <3>1. VCLimit = Entries - DeviceBlocks
      BY DEF VCLimit
    <3> HIDE DEF VCLimit
    <3> QED
      BY <2>1, <2>2, <2>3, <3>1
  <2> QED
    BY <2>6, <2>7
<1>2. PageTableInv => SharedMemoryIsNotCached
  BY <1>1 DEF SharedMemoryIsNotCached
<1> QED
  BY <1>2, PageTableInvariant, PTL

\* If the VideoCore answers, every whole block of RAM below its memory is
\* cached and shared between the cores (mmu.cpp:146-165).
THEOREM AnsweredRamIsCached == Spec => []RamIsCachedOnAnswer
<1>1. ASSUME PageTableInv, pc = "done", message[1] = Answered, NEW block \in 0 .. Entries,
             (block + 1) * BlockSize <= vcBase
      PROVE  Walk1to1(block).attr = "MT_NORMAL" /\ Walk1to1(block).sh = "inner"
  <2>1. Entries \in Nat
    BY PageTableAssumption DEF PageTableAssumption
  <2>2. Walk1to1(block) = BlockOf(block) /\ block \in Nat
    BY <1>1, <2>1, WalkFinds, DeviceBlocksAreAddresses
  <2>3. block < Border
    BY <1>1, <2>2, BorderIsBlocks
  <2> QED
    BY <2>2, <2>3 DEF BlockOf, Block
<1>2. PageTableInv => RamIsCachedOnAnswer
  BY <1>1 DEF RamIsCachedOnAnswer, RamIsCached
<1> QED
  BY <1>2, PageTableInvariant, PTL

\* The MMU never translates before the tables, the roots, the attributes and
\* the sizes are in place (utils.S:84-110).
THEOREM MmuFindsItsTables == Spec => []WalksAreReady
<1>1. ASSUME PageTableInv, "sctlr_el1" \in effective PROVE drained /\ effective = Register
  <2>1. line = 9 /\ drained = TRUE /\ Roots \subseteq effective /\ "tcr_el1" \in effective
    BY <1>1 DEF PageTableInv, EnableInv
  <2>2. effective \subseteq Register
    BY <1>1 DEF PageTableInv, EnableInv
  <2>3. Register \subseteq effective
    BY <1>1, <2>1 DEF Register, Roots
  <2> QED
    BY <2>1, <2>2, <2>3
<1>2. PageTableInv => WalksAreReady
  BY <1>1 DEF WalksAreReady
<1> QED
  BY <1>2, PageTableInvariant, PTL
=============================================================================
