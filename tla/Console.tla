------------------------------ MODULE Console ------------------------------
(***************************************************************************)
(* Console output once all cores run: printf with its lock and the UART    *)
(* one character at a time, panic(), and exc_handler for an exception that *)
(* may strike at any character (printf.cpp, kernel.cpp, exec.cpp).         *)
(*                                                                         *)
(*     panic:   lock.lock(); tfp_printf(banner); tfp_format(message);      *)
(*              tfp_printf("\n"); lock.unlock(); for ever wfi              *)
(*     exc_handler: printf(kind); ... printf(registers); while(1)          *)
(*                                                                         *)
(* A text is a sequence of "char" and "newline".  The printf lock is the   *)
(* abstract Mutex that SpinLock implements.                                *)
(***************************************************************************)
EXTENDS Naturals, Sequences, FiniteSets

CONSTANTS Core,
          Boot,      \* core 0, the only one with an exception vector
          NoCore,
          MaxTexts   \* bounds the texts after which no core calls printf

ASSUME ConsoleAssumption == Boot \in Core /\ NoCore \notin Core /\ MaxTexts \in Nat

VARIABLES pc,       \* where each core is
          after,    \* where it goes when the printf it is in returns
          text,     \* what is left of the text it is sending
          call,     \* the number of that text
          calls,    \* the texts begun so far
          owner,    \* the core that owns the printf lock, or NoCore
          output    \* every byte the UART took, with the number of its text
                    \* and whether that text ends there

vars == <<pc, after, text, call, calls, owner, output>>

Returns == {"out",                       \* to the caller
            "message", "close",          \* into panic
            "registers", "spin"}         \* into exc_handler
Step == Returns \union {"lock", "emit", "unlock",
                        "panic", "panic lock", "body", "halt",
                        "exception", "lost"}

Bytes == {"char", "CR", "LF"}

TypeOK ==
  /\ pc \in [Core -> Step]
  /\ after \in [Core -> Returns]
  /\ text \in [Core -> Seq(Bytes \union {"newline"})]
  /\ call \in [Core -> 0 .. calls]
  /\ calls \in Nat
  /\ owner \in Core \union {NoCore}
  /\ output \in Seq([call : 1 .. calls, byte : Bytes, last : BOOLEAN])

Init ==
  /\ pc = [c \in Core |-> "out"]
  /\ after = [c \in Core |-> "out"]
  /\ text = [c \in Core |-> <<>>]
  /\ call = [c \in Core |-> 0]
  /\ calls = 0
  /\ owner = NoCore
  /\ output = <<>>

Lock == INSTANCE Mutex WITH
  owner <- owner,
  want <- {c \in Core : pc[c] \in {"lock", "panic lock"}}

Goto(c, from, to) == pc[c] = from /\ pc' = [pc EXCEPT ![c] = to]

\* Core c begins a text of its own.
Begin(c, string) ==
  /\ calls' = calls + 1
  /\ call' = [call EXCEPT ![c] = calls']
  /\ text' = [text EXCEPT ![c] = string]

\* The UART takes the first byte of the string that core c has still to send.
Put(c, string) ==
  /\ pc[c] \in {"emit", "body"}
  /\ text[c] # <<>>
  /\ output' = Append(output, [call |-> call[c], byte |-> Head(string),
                               last |-> Tail(string) = <<>>])
  /\ text' = [text EXCEPT ![c] = Tail(string)]
  /\ UNCHANGED <<pc, after, call, calls, owner>>

-----------------------------------------------------------------------------
(***************************************************************************)
(* tfp_printf.                                                             *)
(***************************************************************************)
Printf(c) ==
  /\ calls < MaxTexts
  /\ Goto(c, "out", "lock")
  /\ after' = [after EXCEPT ![c] = "out"]
  /\ Begin(c, <<"char", "newline">>)
  /\ UNCHANGED <<owner, output>>

\* Mistake: printf sends its text without the lock.
AcquireNothing(c) ==
  /\ Goto(c, "lock", "emit")
  /\ UNCHANGED <<after, text, call, calls, owner, output>>

Acquire(c) ==
  /\ Goto(c, "lock", "emit")
  /\ Lock!Acquire(c)
  /\ UNCHANGED <<after, text, call, calls, output>>

\* Mistake: the line feed goes before the carriage return.
EmitSwapped(c) ==
  Put(c, IF Head(text[c]) = "newline" THEN <<"LF", "CR">> \o Tail(text[c]) ELSE text[c])

\* tfp_format sends the next character, for a newline first a carriage return.
Emit(c) ==
  Put(c, IF Head(text[c]) = "newline" THEN <<"CR", "LF">> \o Tail(text[c]) ELSE text[c])

Formatted(c) ==
  /\ text[c] = <<>>
  /\ Goto(c, "emit", "unlock")
  /\ UNCHANGED <<after, text, call, calls, owner, output>>

\* Mistake: a return between lock() and unlock().
ReturnLocked(c) ==
  /\ Goto(c, "unlock", after[c])
  /\ UNCHANGED <<after, text, call, calls, owner, output>>

Unlock(c) ==
  /\ Goto(c, "unlock", after[c])
  /\ Lock!Release(c)
  /\ UNCHANGED <<after, text, call, calls, output>>

-----------------------------------------------------------------------------
(***************************************************************************)
(* panic.                                                                  *)
(***************************************************************************)
Panic(c) ==
  /\ Goto(c, "out", "panic lock")
  /\ UNCHANGED <<after, text, call, calls, owner, output>>

PanicLock(c) ==
  /\ Goto(c, "panic lock", "panic")
  /\ Lock!Acquire(c)
  /\ UNCHANGED <<after, text, call, calls, output>>

\* tfp_printf takes the printf lock, which this core holds already.
Banner(c) ==
  /\ Goto(c, "panic", "lock")
  /\ after' = [after EXCEPT ![c] = "message"]
  /\ Begin(c, <<"newline">>)
  /\ UNCHANGED <<owner, output>>

Message(c) ==
  /\ Goto(c, "message", "body")
  /\ after' = [after EXCEPT ![c] = "close"]
  /\ Begin(c, <<"char">>)
  /\ UNCHANGED <<owner, output>>

LastNewline(c) ==
  /\ text[c] = <<>>
  /\ Goto(c, "body", "lock")
  /\ Begin(c, <<"newline">>)
  /\ UNCHANGED <<after, owner, output>>

PanicUnlock(c) ==
  /\ Goto(c, "close", "halt")
  /\ Lock!Release(c)
  /\ UNCHANGED <<after, text, call, calls, output>>

-----------------------------------------------------------------------------
(***************************************************************************)
(* An exception strikes a core inside or outside printf.  What the core    *)
(* did is never resumed.  Core 0 enters exc_handler; the others never set  *)
(* vbar_el1 and are not heard of again.  An exception inside exc_handler   *)
(* or panic is not modelled.                                               *)
(***************************************************************************)
Exception(c) ==
  /\ pc[c] \in {"out", "lock", "emit", "unlock"}
  /\ after[c] = "out"
  /\ pc' = [pc EXCEPT ![c] = IF c = Boot THEN "exception" ELSE "lost"]
  /\ UNCHANGED <<after, text, call, calls, owner, output>>

\* Two of the handler's printf calls, the first with no newline.
ExcHandler(c) ==
  /\ \/ /\ Goto(c, "exception", "lock")
        /\ after' = [after EXCEPT ![c] = "registers"]
        /\ Begin(c, <<"char">>)
     \/ /\ Goto(c, "registers", "lock")
        /\ after' = [after EXCEPT ![c] = "spin"]
        /\ Begin(c, <<"char", "newline">>)
  /\ UNCHANGED <<owner, output>>

\* No core is in a printf it could go on with.
Quiet ==
  /\ \A c \in Core : pc[c] \notin {"emit", "unlock", "exception", "registers"}
  /\ \A c \in Core : pc[c] = "lock" => owner # NoCore
  /\ UNCHANGED vars

\* What a core does without waiting for the lock.
Run(c) ==
  \/ Emit(c)
  \/ Formatted(c)
  \/ Unlock(c)
  \/ ExcHandler(c)

Next ==
  \/ \E c \in Core : Printf(c) \/ Exception(c) \/ Acquire(c) \/ Run(c)
  \/ Quiet

Spec == Init /\ [][Next]_vars

(***************************************************************************)
(* Cores run; a free lock goes to one of its callers.  Every core prints   *)
(* finitely often, so that nobody waits for the others' lines for ever.    *)
(***************************************************************************)
FairSpec ==
  /\ Spec
  /\ \A c \in Core : WF_vars(Run(c))
  /\ WF_vars(\E c \in Core : Acquire(c))

(***************************************************************************)
(* The same with cores that panic.                                         *)
(***************************************************************************)
PanicRun(c) ==
  \/ Run(c)
  \/ Banner(c)
  \/ Message(c)
  \/ LastNewline(c)
  \/ PanicUnlock(c)

PanicNext ==
  \/ Next
  \/ \E c \in Core : Panic(c) \/ PanicLock(c) \/ PanicRun(c)

PanicSpec ==
  /\ Init
  /\ [][PanicNext]_vars
  /\ \A c \in Core : WF_vars(PanicRun(c))
  /\ WF_vars(\E c \in Core : Acquire(c) \/ PanicLock(c))

-----------------------------------------------------------------------------
\* The bytes of one printf stay together, and where another text follows, the
\* one before is complete: a text cut short by an exception is the last on the
\* console (printf.cpp:213-221, exec.cpp:26-73).
TextsAreWhole ==
  \A i \in 1 .. Len(output) - 1 :
    output[i].call # output[i + 1].call =>
      /\ output[i].last
      /\ \A j \in i + 1 .. Len(output) : output[j].call # output[i].call

\* No line feed reaches the UART without the carriage return of the same
\* text right before it, whatever the other cores send (kernel.cpp:40-46).
LineEndings ==
  \A i \in 1 .. Len(output) : output[i].byte = "LF" =>
    /\ i > 1
    /\ output[i - 1].byte = "CR"
    /\ output[i - 1].call = output[i].call

\* The core that owns the printf lock was struck in the middle of its printf
\* and never gives the lock back.
OwnerIsStruck ==
  /\ owner \in Core
  /\ \/ pc[owner] \in {"exception", "lost"}
     \/ pc[owner] = "lock" /\ after[owner] = "registers"

\* A printf waits for ever only behind a core struck by an exception in the
\* middle of its own (printf.cpp:213-221).
PrintfReturns ==
  \A c \in Core : (pc[c] = "lock") ~> (pc[c] # "lock" \/ OwnerIsStruck)

\* A panic that has taken the printf lock prints "the caller's error
\* message" and gets to its final loop (printf.cpp:251-269).
PanicIsPrinted ==
  \A c \in Core : (pc[c] = "panic") ~> (pc[c] = "halt")
=============================================================================
