------------------------------ MODULE Mailbox ------------------------------
(***************************************************************************)
(* mailbox_tag_message and the two FIFOs between the ARM and the           *)
(* VideoCore (rpi-SmartStart.cpp).  The ARM passes the address of an array *)
(* in its stack frame; the VideoCore writes its answer there and then      *)
(* sends the address back.  Words for other channels may be in either      *)
(* FIFO.  The caches are off when the kernel makes its only call, so the   *)
(* cache maintenance around it has no effect.                              *)
(***************************************************************************)
EXTENDS Naturals, Sequences

CONSTANTS Channel,
          Tags,           \* MB_CHANNEL_TAGS
          Depth,          \* external: the words a FIFO holds
          MaxForeign,     \* bounds the words the VideoCore sends unasked
          VCBase,         \* external: where the VideoCore's memory may begin, in MB
          GetVCMemory,    \* MAILBOX_TAG_GET_VC_MEMORY
          Answered,       \* 0x80000000
          Refused         \* 0x80000001

ASSUME MailboxAssumption ==
  /\ Tags \in Channel
  /\ Depth \in Nat \ {0}
  /\ MaxForeign \in Nat
  /\ VCBase \subseteq Nat
  /\ Answered # Refused

VARIABLES pc,        \* of the ARM
          message,   \* the words of the message, in mailbox_tag_message's frame
          msg,       \* response_buf, the caller's array
          toVC,      \* the channels of the words in Write1
          toARM,     \* the channels of the words in Read0
          vc,        \* what the VideoCore does with the message
          vcBase,    \* where its memory begins
          foreign    \* the words it sent unasked

mailboxVars == <<message, msg, toVC, toARM, vc, vcBase, foreign>>

DataCount == 5
Word == Nat \union {GetVCMemory, Answered, Refused}

MailboxTypeOK ==
  /\ message \in [0 .. DataCount + 2 -> Word]
  /\ msg \in [0 .. DataCount - 1 -> Word]
  /\ toVC \in Seq(Channel) /\ Len(toVC) <= Depth
  /\ toARM \in Seq(Channel) /\ Len(toARM) <= Depth
  /\ vc \in {"idle", "asked", "written"}
  /\ vcBase \in VCBase
  /\ foreign \in 0 .. MaxForeign

\* An earlier boot stage may have left words of its own, none for Tags.
MailboxInit ==
  /\ pc = "call"
  /\ message = [i \in 0 .. DataCount + 2 |-> 0]
  /\ msg = [i \in 0 .. DataCount - 1 |-> 0]
  /\ toVC \in {<<>>} \union [1 .. Depth -> Channel \ {Tags}]
  /\ toARM = <<>>
  /\ vc = "idle"
  /\ vcBase \in VCBase
  /\ foreign = 0

-----------------------------------------------------------------------------
(***************************************************************************)
(* The ARM.                                                                *)
(***************************************************************************)
MailboxTagMessage ==
  /\ pc = "call"
  /\ pc' = "write"
  /\ message' = [i \in 0 .. DataCount + 2 |->
       CASE i = 0 -> (DataCount + 3) * 4
         [] i = 2 -> GetVCMemory
         [] i \in {3, 4} -> 8
         [] OTHER -> 0]
  /\ UNCHANGED <<msg, toVC, toARM, vc, vcBase, foreign>>

\* Mistake: the word is stored without waiting for room; a full FIFO drops it.
MailboxWriteAtOnce ==
  /\ pc = "write"
  /\ pc' = "read"
  /\ toVC' = IF Len(toVC) < Depth THEN Append(toVC, Tags) ELSE toVC
  /\ UNCHANGED <<message, msg, toARM, vc, vcBase, foreign>>

MailboxWrite ==
  /\ pc = "write"
  /\ Len(toVC) < Depth
  /\ pc' = "read"
  /\ toVC' = Append(toVC, Tags)
  /\ UNCHANGED <<message, msg, toARM, vc, vcBase, foreign>>

\* Mistake: the first word that comes is taken for the answer.
MailboxReadAny ==
  /\ pc = "read"
  /\ toARM # <<>>
  /\ toARM' = Tail(toARM)
  /\ pc' = "answered"
  /\ UNCHANGED <<message, msg, toVC, vc, vcBase, foreign>>

\* One word; those for other channels are thrown away.
MailboxRead ==
  /\ pc = "read"
  /\ toARM # <<>>
  /\ toARM' = Tail(toARM)
  /\ pc' = IF Head(toARM) = Tags THEN "answered" ELSE "read"
  /\ UNCHANGED <<message, msg, toVC, vc, vcBase, foreign>>

\* Mistake: nobody looks whether the VideoCore did what it was asked.
TagResultUnchecked ==
  /\ pc = "answered"
  /\ msg' = [i \in 0 .. DataCount - 1 |-> message[2 + i]]
  /\ pc' = "true"
  /\ UNCHANGED <<message, toVC, toARM, vc, vcBase, foreign>>

TagResult ==
  /\ pc = "answered"
  /\ msg' = IF message[1] = Answered
              THEN [i \in 0 .. DataCount - 1 |-> message[2 + i]] ELSE msg
  /\ pc' = IF message[1] = Answered THEN "true" ELSE "false"
  /\ UNCHANGED <<message, toVC, toARM, vc, vcBase, foreign>>

-----------------------------------------------------------------------------
(***************************************************************************)
(* The VideoCore.                                                          *)
(***************************************************************************)
VCTake ==
  /\ vc = "idle"
  /\ toVC # <<>>
  /\ toVC' = Tail(toVC)
  /\ vc' = IF Head(toVC) = Tags THEN "asked" ELSE "idle"
  /\ UNCHANGED <<pc, message, msg, toARM, vcBase, foreign>>

VCWrite ==
  /\ vc = "asked"
  /\ vc' = "written"
  /\ \/ message' = [message EXCEPT ![1] = Answered, ![5] = vcBase]
     \/ message' = [message EXCEPT ![1] = Refused]
  /\ UNCHANGED <<pc, msg, toVC, toARM, vcBase, foreign>>

VCPost ==
  /\ vc = "written"
  /\ Len(toARM) < Depth
  /\ vc' = "idle"
  /\ toARM' = Append(toARM, Tags)
  /\ UNCHANGED <<pc, message, msg, toVC, vcBase, foreign>>

VCPostForeign(channel) ==
  /\ foreign < MaxForeign
  /\ Len(toARM) < Depth
  /\ foreign' = foreign + 1
  /\ toARM' = Append(toARM, channel)
  /\ UNCHANGED <<pc, message, msg, toVC, vc, vcBase>>

ARM == MailboxTagMessage \/ MailboxWrite \/ MailboxRead \/ TagResult
VideoCore == VCTake \/ VCWrite \/ VCPost

-----------------------------------------------------------------------------
\* The VideoCore has the address of the message only while the frame that
\* holds it is in use: it never writes to a stack that has moved on
\* (rpi-SmartStart.cpp:48, 66-67).
FrameOutlivesRequest ==
  vc \in {"asked", "written"} => pc = "read"

\* What the call returns is the VideoCore's answer to this message: its memory
\* on success, and on failure "the response buffer is untouched"
\* (rpi-SmartStart.h:414-422).
ResultIsTheAnswer ==
  /\ pc = "true" => message[1] = Answered /\ msg[3] = vcBase /\ msg[4] = message[6]
  /\ pc = "false" => message[1] = Refused /\ \A i \in DOMAIN msg : msg[i] = 0
=============================================================================
