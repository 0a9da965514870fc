------------------------------- MODULE Kernel -------------------------------
(***************************************************************************)
(* The whole life of the machine, from the boot core's _start to every     *)
(* core in proc_hang: the boot core clears bss, builds the console, page   *)
(* tables, the heap and the two barriers, wakes the other cores through    *)
(* the firmware's spin table, and then every core turns on its MMU, meets  *)
(* the others, runs the test's work() in the critical section and meets    *)
(* them again (kernel.cpp, boot.S, tests/t0.cpp).                          *)
(*                                                                         *)
(* The critical-section lock and the printf lock are the abstract Mutex    *)
(* that SpinLock implements; add_fetch of a Barrier is one step, which is  *)
(* what Barrier shows of it.                                               *)
(***************************************************************************)
EXTENDS Naturals, Sequences, SequencesExt, FiniteSets

CONSTANTS Core,          \* the four cores
          Boot,          \* core 0
          NoCore,        \* no core
          Null,          \* a Barrier* that was never assigned
          BarrierCount,  \* the argument of the two `new Barrier(4)'
          Modulus        \* the number of values of a uint32_t

ASSUME KernelAssumption ==
  /\ Boot \in Core
  /\ NoCore \notin Core
  /\ Null \notin Nat
  /\ Modulus \in Nat
  /\ BarrierCount \in 0 .. Modulus - 1

VARIABLES pc,           \* where each core is
          line,         \* which of work()'s two printf calls it is in
          seen,         \* the value of `counter' it last read
          stack,        \* the stack its sp points into
          console,      \* uart_init and init_printf have run
          tables,       \* MMU_setup_pagetable has run
          mmu,          \* the cores whose MMU is on
          starting,     \* the counter of *starting, or Null
          stopping,     \* the counter of *stopping, or Null
          smpInitDone,  \* the flag pickKernelStack reads
          inflight,     \* spin-table stores that have left no trace yet
          slot,         \* the cores whose spin-table word is non-zero
          event,        \* the parked cores whose event register is set
          critical,     \* the owner of critical_section_lock
          printing,     \* the owner of the printf lock
          counter,      \* `counter' of tests/t0.cpp
          output        \* the lines sent to the UART

boot == <<console, tables, smpInitDone>>
park == <<inflight, slot, event>>
work == <<line, seen, counter, output>>
barriers == <<starting, stopping>>
locks == <<critical, printing>>
vars == <<pc, stack, mmu, boot, park, work, barriers, locks>>

Secondary == Core \ {Boot}
NoStack == <<"none", Boot>>
LowMemory(c) == <<"LOW_MEMORY", c>>    \* LOW_MEMORY + 2MB * id
PerCPU(c) == <<"stacks", c>>           \* stacks.forCPU(id)

RangeLine == <<"range", 0>>
Lines == {RangeLine} \union ({"hello", "goodbye"} \X Nat)

Step == {"_start", "el1 entry", "set stack", "pick stack",
         "console", "tables", "heap", "new starting", "new stopping", "smp",
         "table", "sev",
         "parked", "check", "el2", "el1",
         "mmu", "start", "starting", "critical", "read", "printf", "put",
         "unlock", "load", "store", "leave", "stop", "stopping", "hang",
         "fault"}

TypeOK ==
  /\ pc \in [Core -> Step]
  /\ line \in [Core -> {"hello", "goodbye"}]
  /\ seen \in [Core -> Nat]
  /\ stack \in [Core -> {"none", "stacks", "LOW_MEMORY"} \X Core]
  /\ console \in BOOLEAN /\ tables \in BOOLEAN /\ smpInitDone \in BOOLEAN
  /\ mmu \subseteq Core
  /\ starting \in {Null} \union 0 .. Modulus - 1
  /\ stopping \in {Null} \union 0 .. Modulus - 1
  /\ inflight \subseteq Secondary
  /\ slot \subseteq Secondary
  /\ event \subseteq Secondary
  /\ critical \in Core \union {NoCore}
  /\ printing \in Core \union {NoCore}
  /\ counter \in Nat
  /\ output \in Seq(Lines)

\* Mistake: the test of smpInitDone is the wrong way round.
PickWrongStack(c) == PerCPU(IF smpInitDone THEN Boot ELSE c)

\* pickKernelStack(): the core's own stack once smpInitDone, stack 0 before.
PickKernelStack(c) == PerCPU(IF smpInitDone THEN c ELSE Boot)

(***************************************************************************)
(* The boot core is at _start; the firmware holds the others in its wfe    *)
(* loop, and their event registers are in any state.  The variables in bss *)
(* are what RAM holds.                                                     *)
(***************************************************************************)
Init ==
  /\ pc = [c \in Core |-> IF c = Boot THEN "_start" ELSE "parked"]
  /\ line = [c \in Core |-> "hello"]
  /\ seen = [c \in Core |-> 0]
  /\ stack = [c \in Core |-> NoStack]
  /\ console = FALSE /\ tables = FALSE /\ smpInitDone \in BOOLEAN
  /\ mmu = {}
  /\ starting \in {Null, 0} /\ stopping \in {Null, 0}
  /\ inflight = {} /\ slot = {} /\ event \in SUBSET Secondary
  /\ critical \in {NoCore, Boot} /\ printing \in {NoCore, Boot}
  /\ counter \in 0 .. 1
  /\ output = <<>>

Goto(c, from, to) == pc[c] = from /\ pc' = [pc EXCEPT ![c] = to]

\* What the code does when what it needs is not there yet is not defined.
Needs(c, ready, from, to) == Goto(c, from, IF ready THEN to ELSE "fault")

-----------------------------------------------------------------------------
(***************************************************************************)
(* boot.S on the boot core.                                                *)
(***************************************************************************)
\* master: SPSR_EL2 is that of EL1t, so that the eret leaves sp at SP_EL0,
\* which nobody has set; the LOW_MEMORY of sp_el1 waits for an exception.
Master ==
  /\ Goto(Boot, "_start", "el1 entry")
  /\ UNCHANGED <<stack, mmu, boot, park, work, barriers, locks>>

\* el1_entry: memzero, which needs no stack, clears bss and the stacks in it.
ClearBss ==
  /\ Goto(Boot, "el1 entry", "set stack")
  /\ smpInitDone' = FALSE
  /\ starting' = Null /\ stopping' = Null
  /\ critical' = NoCore /\ printing' = NoCore
  /\ counter' = 0
  /\ UNCHANGED <<console, tables, stack, mmu, park, line, seen, output>>

\* pickKernelStack() is called on the stack at LOW_MEMORY ...
SetStack ==
  /\ Goto(Boot, "set stack", "pick stack")
  /\ stack' = [stack EXCEPT ![Boot] = LowMemory(Boot)]
  /\ UNCHANGED <<mmu, boot, park, work, barriers, locks>>

\* ... and kernel_init on the one it returns.
PickBootStack ==
  /\ Goto(Boot, "pick stack", "console")
  /\ stack' = [stack EXCEPT ![Boot] = PickKernelStack(Boot)]
  /\ UNCHANGED <<mmu, boot, park, work, barriers, locks>>

-----------------------------------------------------------------------------
(***************************************************************************)
(* kernel_init on the boot core.                                           *)
(***************************************************************************)
InitConsole ==
  /\ Goto(Boot, "console", "tables")
  /\ console' = TRUE
  /\ UNCHANGED <<tables, smpInitDone, stack, mmu, park, work, barriers, locks>>

SetupPageTable ==
  /\ Goto(Boot, "tables", "heap")
  /\ tables' = TRUE
  /\ UNCHANGED <<console, smpInitDone, stack, mmu, park, work, barriers, locks>>

\* heapInit announces the heap with printf_no_lock.
HeapInit ==
  /\ Needs(Boot, console, "heap", "new starting")
  /\ output' = Append(output, RangeLine)
  /\ UNCHANGED <<stack, mmu, boot, park, line, seen, counter, barriers, locks>>

NewStarting ==
  /\ Goto(Boot, "new starting", "new stopping")
  /\ starting' = BarrierCount
  /\ UNCHANGED <<stack, mmu, boot, park, work, stopping, locks>>

\* Mistake: a barrier for one core more than there are.
NewStoppingTooLarge ==
  /\ Goto(Boot, "new stopping", "smp")
  /\ stopping' = BarrierCount + 1
  /\ UNCHANGED <<stack, mmu, boot, park, work, starting, locks>>

NewStopping ==
  /\ Goto(Boot, "new stopping", "smp")
  /\ stopping' = BarrierCount
  /\ UNCHANGED <<stack, mmu, boot, park, work, starting, locks>>

SmpInitDone ==
  /\ Goto(Boot, "smp", "table")
  /\ smpInitDone' = TRUE
  /\ UNCHANGED <<console, tables, stack, mmu, park, work, barriers, locks>>

\* wake_up_cores stores the address of `secondary' in each spin-table word;
\* no barrier makes the stores visible before the sev.
WriteSpinTable ==
  /\ Goto(Boot, "table", "sev")
  /\ inflight' = Secondary
  /\ UNCHANGED <<slot, event, stack, mmu, boot, work, barriers, locks>>

SendEvent ==
  /\ Goto(Boot, "sev", "mmu")
  /\ event' = Secondary
  /\ UNCHANGED <<inflight, slot, stack, mmu, boot, work, barriers, locks>>

\* A store to the spin table reaches memory.
StoreLands(c) ==
  /\ c \in inflight
  /\ inflight' = inflight \ {c}
  /\ slot' = slot \union {c}
  /\ UNCHANGED <<event, pc, stack, mmu, boot, work, barriers, locks>>

-----------------------------------------------------------------------------
(***************************************************************************)
(* The other cores: the firmware's `wfe; ldr; cbz' loop, then boot.S.      *)
(***************************************************************************)
Wake(c) ==
  /\ c \in event
  /\ Goto(c, "parked", "check")
  /\ event' = event \ {c}
  /\ UNCHANGED <<inflight, slot, stack, mmu, boot, work, barriers, locks>>

\* wfe may return without an event; QEMU's always does.
WakeEarly(c) ==
  /\ c \notin event
  /\ Goto(c, "parked", "check")
  /\ UNCHANGED <<park, stack, mmu, boot, work, barriers, locks>>

CheckSlot(c) ==
  /\ Goto(c, "check", IF c \in slot THEN "el2" ELSE "parked")
  /\ UNCHANGED <<park, stack, mmu, boot, work, barriers, locks>>

\* `secondary' at EL2: sp is LOW_MEMORY + 2MB * id, then what
\* pickKernelStack returns.
SecondaryEntry(c) ==
  /\ Goto(c, "el2", "el1")
  /\ stack' = [stack EXCEPT ![c] = PickKernelStack(c)]
  /\ UNCHANGED <<park, mmu, boot, work, barriers, locks>>

\* setup_el1_for_secondary: the eret changes to SP_EL1, which is set anew.
EnterEL1(c) ==
  /\ Goto(c, "el1", "mmu")
  /\ stack' = [stack EXCEPT ![c] = LowMemory(c)]
  /\ UNCHANGED <<park, mmu, boot, work, barriers, locks>>

-----------------------------------------------------------------------------
(***************************************************************************)
(* kernel_init on every core.                                              *)
(***************************************************************************)
\* Mistake: MMU_enable() inside the boot core's branch of kernel_init.
EnableBootMMU(c) ==
  /\ Needs(c, tables, "mmu", "start")
  /\ mmu' = mmu \union ({c} \intersect {Boot})
  /\ UNCHANGED <<stack, boot, park, work, barriers, locks>>

EnableMMU(c) ==
  /\ Needs(c, tables, "mmu", "start")
  /\ mmu' = mmu \union {c}
  /\ UNCHANGED <<stack, boot, park, work, barriers, locks>>

Decrement(n) == IF n = 0 THEN Modulus - 1 ELSE n - 1

\* starting->sync() counts the core; an exclusive access needs the MMU on.
ArriveStarting(c) ==
  /\ Needs(c, c \in mmu /\ starting # Null, "start", "starting")
  /\ starting' = IF starting = Null THEN Null ELSE Decrement(starting)
  /\ UNCHANGED <<stack, mmu, boot, park, work, stopping, locks>>

\* Mistake: kernelMain() without the wait before it.
SkipStarting(c) ==
  /\ Goto(c, "starting", "critical")
  /\ UNCHANGED <<stack, mmu, boot, park, work, barriers, locks>>

\* kernelMain() calls critical(work).
LeaveStarting(c) ==
  /\ starting = 0
  /\ Goto(c, "starting", "critical")
  /\ UNCHANGED <<stack, mmu, boot, park, work, barriers, locks>>

ArriveStopping(c) ==
  /\ Needs(c, c \in mmu /\ stopping # Null, "stop", "stopping")
  /\ stopping' = IF stopping = Null THEN Null ELSE Decrement(stopping)
  /\ UNCHANGED <<stack, mmu, boot, park, work, starting, locks>>

\* Mistake: proc_hang without the wait before it.
SkipStopping(c) ==
  /\ Goto(c, "stopping", "hang")
  /\ UNCHANGED <<stack, mmu, boot, park, work, barriers, locks>>

\* kernel_init returns and the core falls into proc_hang.
LeaveStopping(c) ==
  /\ stopping = 0
  /\ Goto(c, "stopping", "hang")
  /\ UNCHANGED <<stack, mmu, boot, park, work, barriers, locks>>

-----------------------------------------------------------------------------
(***************************************************************************)
(* critical(work): two printf of `counter', then counter++.  The argument  *)
(* of printf is read before the printf lock is taken.                      *)
(***************************************************************************)
CriticalLock ==
  INSTANCE Mutex WITH owner <- critical,
                      want <- {c \in Core : pc[c] = "critical"}
PrintfLock ==
  INSTANCE Mutex WITH owner <- printing,
                      want <- {c \in Core : pc[c] = "printf"}

\* Mistake: work() outside the critical section.
EnterUnlocked(c) ==
  /\ Goto(c, "critical", "read")
  /\ critical' = c
  /\ line' = [line EXCEPT ![c] = "hello"]
  /\ UNCHANGED <<stack, mmu, boot, park, seen, counter, output, barriers, printing>>

EnterCritical(c) ==
  /\ Goto(c, "critical", "read")
  /\ CriticalLock!Acquire(c)
  /\ line' = [line EXCEPT ![c] = "hello"]
  /\ UNCHANGED <<stack, mmu, boot, park, seen, counter, output, barriers, printing>>

ReadArgument(c) ==
  /\ Goto(c, "read", "printf")
  /\ seen' = [seen EXCEPT ![c] = counter]
  /\ UNCHANGED <<stack, mmu, boot, park, line, counter, output, barriers, locks>>

EnterPrintf(c) ==
  /\ Goto(c, "printf", "put")
  /\ PrintfLock!Acquire(c)
  /\ UNCHANGED <<stack, mmu, boot, park, work, barriers, critical>>

Put(c) ==
  /\ Needs(c, console, "put", "unlock")
  /\ output' = Append(output, <<line[c], seen[c]>>)
  /\ UNCHANGED <<stack, mmu, boot, park, line, seen, counter, barriers, locks>>

LeavePrintf(c) ==
  /\ Goto(c, "unlock", IF line[c] = "hello" THEN "read" ELSE "load")
  /\ PrintfLock!Release(c)
  /\ line' = [line EXCEPT ![c] = "goodbye"]
  /\ UNCHANGED <<stack, mmu, boot, park, seen, counter, output, barriers, critical>>

LoadCounter(c) ==
  /\ Goto(c, "load", "store")
  /\ seen' = [seen EXCEPT ![c] = counter]
  /\ UNCHANGED <<stack, mmu, boot, park, line, counter, output, barriers, locks>>

StoreCounter(c) ==
  /\ Goto(c, "store", "leave")
  /\ counter' = seen[c] + 1
  /\ UNCHANGED <<stack, mmu, boot, park, line, seen, output, barriers, locks>>

LeaveCritical(c) ==
  /\ Goto(c, "leave", "stop")
  /\ CriticalLock!Release(c)
  /\ UNCHANGED <<stack, mmu, boot, park, work, barriers, printing>>

-----------------------------------------------------------------------------
\* Every core is in proc_hang: the machine has nothing left to do.
Halted ==
  /\ \A c \in Core : pc[c] = "hang"
  /\ UNCHANGED vars

BootSteps ==
  \/ Master
  \/ ClearBss
  \/ SetStack
  \/ PickBootStack
  \/ InitConsole
  \/ SetupPageTable
  \/ HeapInit
  \/ NewStarting
  \/ NewStopping
  \/ SmpInitDone
  \/ WriteSpinTable
  \/ SendEvent

\* What a core does without waiting for a lock.
Run(c) ==
  \/ CheckSlot(c)
  \/ SecondaryEntry(c)
  \/ EnterEL1(c)
  \/ EnableMMU(c)
  \/ ArriveStarting(c)
  \/ LeaveStarting(c)
  \/ ReadArgument(c)
  \/ Put(c)
  \/ LeavePrintf(c)
  \/ LoadCounter(c)
  \/ StoreCounter(c)
  \/ LeaveCritical(c)
  \/ ArriveStopping(c)
  \/ LeaveStopping(c)

Next ==
  \/ BootSteps
  \/ \E c \in Core : Run(c) \/ EnterCritical(c) \/ EnterPrintf(c)
  \/ \E c \in Secondary : StoreLands(c) \/ Wake(c) \/ WakeEarly(c)
  \/ Halted

Spec == Init /\ [][Next]_vars

(***************************************************************************)
(* Cores run, stores land, events wake.  A free lock goes to one of its    *)
(* callers, not to each in turn: SpinLock promises no more.                *)
(***************************************************************************)
MachineRuns ==
  /\ WF_vars(BootSteps)
  /\ \A c \in Core : WF_vars(Run(c))
  /\ \A c \in Secondary : WF_vars(StoreLands(c)) /\ WF_vars(Wake(c))
  /\ WF_vars(\E c \in Core : EnterCritical(c))
  /\ WF_vars(\E c \in Core : EnterPrintf(c))

HardwareSpec == Spec /\ MachineRuns
QemuSpec == Spec /\ MachineRuns /\ \A c \in Secondary : WF_vars(WakeEarly(c))

-----------------------------------------------------------------------------
\* No core prints before the console is up, turns on an MMU without tables,
\* uses an exclusive access with the MMU off or a barrier that is not built:
\* the order of kernel_init's lines is enough for all cores
\* (kernel.cpp:287-303, heap.cpp:152).
NoCoreFaults == \A c \in Core : pc[c] # "fault"

\* Two running cores never have their sp in the same stack, at no exception
\* level (boot.S:60-63, 70-87, kernel.cpp:36-38).
PrivateStacks ==
  \A c, d \in Core : c # d /\ stack[c] # NoStack => stack[c] # stack[d]

\* The lines of the test, in the order t0.ok lists them.
Greetings ==
  [i \in 1 .. 2 * Cardinality(Core) |->
     <<IF i % 2 = 1 THEN "hello" ELSE "goodbye", (i - 1) \div 2>>]

\* After the line heapInit prints, the console shows a prefix of the test's
\* lines: whole, in order, no number twice or skipped
\* (tests/t0.cpp:7-17, critical.h:13-30, printf.cpp:213-221).
OutputInOrder == IsPrefix(output, <<RangeLine>> \o Greetings)

Past(places) == {c \in Core : pc[c] \in places}
Ended == {"stopping", "hang"}
Inside == {"critical", "read", "printf", "put", "unlock", "load", "store",
           "leave", "stop"}

Start == INSTANCE Rendezvous WITH arrived <- Past({"starting"} \union Inside \union Ended),
                                  departed <- Past(Inside \union Ended)
Stop == INSTANCE Rendezvous WITH arrived <- Past(Ended), departed <- Past({"hang"})

\* No core calls kernelMain() before every core has its MMU on and has come
\* to starting->sync() (kernel.cpp:299-301).
StartTogether == Start!Spec

\* No core goes to proc_hang before every core has left kernelMain()
\* (kernel.cpp:301-302).
StopTogether == Stop!Spec

\* Under QEMU the machine finishes: every core ends in proc_hang and the
\* whole test is on the console.
EverythingIsPrinted ==
  <>[](/\ \A c \in Core : pc[c] = "hang"
       /\ output = <<RangeLine>> \o Greetings)

\* kernelMain is "Called by all cores" (tests/t0.cpp:13).
CalledByAllCores == \A c \in Core : <>(pc[c] = "critical")
=============================================================================
