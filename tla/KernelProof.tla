---------------------------- MODULE KernelProof ----------------------------
(***************************************************************************)
(* The bring-up, for any number of cores and any argument of the barriers: *)
(* no core uses what is not built yet, and no two share a stack.  Then the *)
(* meetings of the cores and the order of what they print.                 *)
(***************************************************************************)
EXTENDS Kernel, FiniteSetTheorems, SequenceTheorems, TLAPS

\* Where the boot core still has each piece of the bring-up before it.
BeforeConsole == {"_start", "el1 entry", "set stack", "pick stack", "console"}
BeforeTables == BeforeConsole \union {"tables"}
BeforeStarting == BeforeTables \union {"heap", "new starting"}
BeforeStopping == BeforeStarting \union {"new stopping"}
BeforeSmp == BeforeStopping \union {"smp"}
BeforeWake == BeforeSmp \union {"table"}
BootOnly == BeforeWake \union {"sev"}

Parked == {"parked", "check"}
BootRom == Parked \union {"el2", "el1"}     \* where only the other cores are
Translated == {"start", "starting", "critical", "read", "printf", "put", "unlock",
               "load", "store", "leave", "stop", "stopping", "hang"}

\* The boot core builds in the order of kernel_init.
Built ==
  /\ pc[Boot] \notin BeforeConsole => console = TRUE
  /\ pc[Boot] \notin BeforeTables => tables = TRUE
  /\ pc[Boot] \notin BeforeStarting => starting # Null
  /\ pc[Boot] \notin BeforeStopping => stopping # Null
  /\ pc[Boot] \notin BeforeSmp => smpInitDone = TRUE

\* Nobody else runs before it has built everything, and every core that is
\* past MMU_enable has its MMU on.
Separate ==
  /\ pc[Boot] \notin BootRom
  /\ \A c \in Secondary : pc[c] \notin BootOnly
  /\ pc[Boot] \in BeforeWake =>
       /\ inflight = {} /\ slot = {}
       /\ \A c \in Secondary : pc[c] \in Parked
  /\ \A c \in Core : pc[c] \in Translated => c \in mmu

BringUp == Built /\ Separate /\ NoCoreFaults

\* Every sp points into a stack of the core's own.
OwnStacks ==
  \A c \in Core : stack[c] \in {NoStack, LowMemory(c), PerCPU(c)}

KernelInv == TypeOK /\ BringUp /\ OwnStacks

LEMMA InitKernelInv == Init => KernelInv
<1> SUFFICES ASSUME Init PROVE KernelInv
  OBVIOUS
<1> USE KernelAssumption DEF KernelAssumption
<1>1. TypeOK
  <2>1. pc \in [Core -> Step]
    BY DEF Init, Step
  <2>2. stack \in [Core -> {"none", "stacks", "LOW_MEMORY"} \X Core]
    BY DEF Init, NoStack
  <2>3. output \in Seq(Lines)
    BY DEF Init
  <2>4. 0 \in 0 .. Modulus - 1 /\ counter \in Nat
    BY DEF Init
  <2> QED
    BY <2>1, <2>2, <2>3, <2>4 DEF Init, TypeOK, Secondary
<1>2. Built /\ Separate
  BY DEF Init, Built, Separate, Secondary, BootRom, Parked, BootOnly, BeforeWake,
         BeforeSmp, BeforeStopping, BeforeStarting, BeforeTables, BeforeConsole, Translated
<1>3. NoCoreFaults /\ OwnStacks
  BY DEF Init, NoCoreFaults, OwnStacks
<1> QED
  BY <1>1, <1>2, <1>3 DEF KernelInv, BringUp

\* A barrier's counter stays one of its values.
LEMMA CountdownStays ==
  ASSUME NEW n \in 0 .. Modulus - 1
  PROVE  Decrement(n) \in 0 .. Modulus - 1
BY KernelAssumption DEF KernelAssumption, Decrement

\* Every step keeps the types.
LEMMA StepKeepsTypes == TypeOK /\ [Next]_vars => TypeOK'
<1> SUFFICES ASSUME TypeOK, [Next]_vars PROVE TypeOK'
  OBVIOUS
<1> USE KernelAssumption DEF KernelAssumption, Goto, Needs, boot, park, work, barriers, locks
<1>1. CASE UNCHANGED vars
  BY <1>1 DEF vars, TypeOK
<1>2. CASE BootSteps
  <2>1. CASE Master
    BY <2>1 DEF Master, TypeOK, Step
  <2>2. CASE ClearBss
    BY <2>2 DEF ClearBss, TypeOK, Step
  <2>11. CASE SetStack
    BY <2>11 DEF SetStack, TypeOK, Step, LowMemory
  <2>12. CASE PickBootStack
    BY <2>12 DEF PickBootStack, TypeOK, Step, PickKernelStack, PerCPU
  <2>3. CASE InitConsole
    BY <2>3 DEF InitConsole, TypeOK, Step
  <2>4. CASE SetupPageTable
    BY <2>4 DEF SetupPageTable, TypeOK, Step
  <2>5. CASE HeapInit
    <3>1. RangeLine \in Lines
      BY DEF Lines
    <3>a. output \in Seq(Lines) /\ output' = Append(output, RangeLine)
      BY <2>5 DEF HeapInit, TypeOK
    <3>2. output' \in Seq(Lines)
      BY <3>a, <3>1
    <3> QED
      BY <2>5, <3>2 DEF HeapInit, TypeOK, Step
  <2>6. CASE NewStarting
    BY <2>6 DEF NewStarting, TypeOK, Step
  <2>7. CASE NewStopping
    BY <2>7 DEF NewStopping, TypeOK, Step
  <2>8. CASE SmpInitDone
    BY <2>8 DEF SmpInitDone, TypeOK, Step
  <2>9. CASE WriteSpinTable
    BY <2>9 DEF WriteSpinTable, TypeOK, Step
  <2>10. CASE SendEvent
    BY <2>10 DEF SendEvent, TypeOK, Step
  <2> QED
    BY <1>2, <2>1, <2>2, <2>3, <2>4, <2>5, <2>6, <2>7, <2>8, <2>9, <2>10, <2>11, <2>12
       DEF BootSteps
<1>3. ASSUME NEW c \in Core, Run(c) \/ EnterCritical(c) \/ EnterPrintf(c) PROVE TypeOK'
  <2>1. CASE CheckSlot(c)
    BY <2>1 DEF CheckSlot, TypeOK, Step
  <2>2. CASE SecondaryEntry(c)
    BY <2>2 DEF SecondaryEntry, TypeOK, Step, PickKernelStack, PerCPU
  <2>3. CASE EnterEL1(c)
    BY <2>3 DEF EnterEL1, TypeOK, Step, LowMemory
  <2>4. CASE EnableMMU(c)
    BY <2>4 DEF EnableMMU, TypeOK, Step
  <2>5. CASE ArriveStarting(c)
    <3>1. starting' \in {Null} \union 0 .. Modulus - 1
      BY <2>5, CountdownStays DEF ArriveStarting, TypeOK
    <3>2. pc' \in [Core -> Step]
      BY <2>5 DEF ArriveStarting, TypeOK, Step
    <3> QED
      BY <2>5, <3>1, <3>2 DEF ArriveStarting, TypeOK
  <2>6. CASE LeaveStarting(c)
    BY <2>6 DEF LeaveStarting, TypeOK, Step
  <2>7. CASE ReadArgument(c)
    BY <2>7 DEF ReadArgument, TypeOK, Step
  <2>8. CASE Put(c)
    <3>1. <<line[c], seen[c]>> \in Lines
      BY DEF TypeOK, Lines
    <3>2. output' \in Seq(Lines)
      BY <2>8, <3>1 DEF Put, TypeOK
    <3> QED
      BY <2>8, <3>2 DEF Put, TypeOK, Step
  <2>9. CASE LeavePrintf(c)
    BY <2>9 DEF LeavePrintf, TypeOK, Step, PrintfLock!Release
  <2>10. CASE LoadCounter(c)
    BY <2>10 DEF LoadCounter, TypeOK, Step
  <2>11. CASE StoreCounter(c)
    <3>1. counter' \in Nat
      BY <2>11 DEF StoreCounter, TypeOK
    <3> QED
      BY <2>11, <3>1 DEF StoreCounter, TypeOK, Step
  <2>12. CASE LeaveCritical(c)
    BY <2>12 DEF LeaveCritical, TypeOK, Step, CriticalLock!Release
  <2>13. CASE ArriveStopping(c)
    <3>1. stopping' \in {Null} \union 0 .. Modulus - 1
      BY <2>13, CountdownStays DEF ArriveStopping, TypeOK
    <3>2. pc' \in [Core -> Step]
      BY <2>13 DEF ArriveStopping, TypeOK, Step
    <3> QED
      BY <2>13, <3>1, <3>2 DEF ArriveStopping, TypeOK
  <2>14. CASE LeaveStopping(c)
    BY <2>14 DEF LeaveStopping, TypeOK, Step
  <2>15. CASE EnterCritical(c)
    BY <2>15 DEF EnterCritical, TypeOK, Step, CriticalLock!Acquire
  <2>16. CASE EnterPrintf(c)
    BY <2>16 DEF EnterPrintf, TypeOK, Step, PrintfLock!Acquire
  <2> QED
    BY <1>3, <2>1, <2>2, <2>3, <2>4, <2>5, <2>6, <2>7, <2>8, <2>9, <2>10, <2>11, <2>12,
       <2>13, <2>14, <2>15, <2>16 DEF Run
<1>4. ASSUME NEW c \in Secondary, StoreLands(c) \/ Wake(c) \/ WakeEarly(c) PROVE TypeOK'
  <2>1. c \in Core
    BY DEF Secondary
  <2>2. CASE StoreLands(c)
    BY <2>1, <2>2 DEF StoreLands, TypeOK
  <2>3. CASE Wake(c)
    BY <2>1, <2>3 DEF Wake, TypeOK, Step
  <2>4. CASE WakeEarly(c)
    BY <2>1, <2>4 DEF WakeEarly, TypeOK, Step
  <2> QED
    BY <1>4, <2>2, <2>3, <2>4
<1>5. CASE Halted
  BY <1>5, <1>1 DEF Halted
<1> QED
  BY <1>1, <1>2, <1>3, <1>4, <1>5 DEF Next

-----------------------------------------------------------------------------
\* The places of the bring-up and those after it have none in common.
LEMMA PlacesApart ==
  /\ BeforeConsole \subseteq BeforeTables /\ BeforeTables \subseteq BeforeStarting
  /\ BeforeStarting \subseteq BeforeStopping /\ BeforeStopping \subseteq BeforeSmp
  /\ BeforeSmp \subseteq BeforeWake /\ BeforeWake \subseteq BootOnly
  /\ Parked \subseteq BootRom
  /\ \A p \in {"mmu", "fault"} \union Translated : p \notin BootOnly \union BootRom
  /\ \A p \in BootRom : p \notin BootOnly
  /\ \A p \in BootRom \union BootOnly \union {"mmu"} : p \notin Translated
  /\ "fault" \notin BootRom \union BootOnly \union Translated
BY DEF BootRom, Parked, BootOnly, BeforeWake, BeforeSmp, BeforeStopping, BeforeStarting,
       BeforeTables, BeforeConsole, Translated

\* A core that turns on its MMU, or goes on with it on, disturbs nothing.
LEMMA LaterStep ==
  ASSUME TypeOK, BringUp, NEW c \in Core, NEW p \in Translated,
         pc[c] \in {"mmu"} \union Translated,
         pc' = [pc EXCEPT ![c] = p],
         c \in mmu', mmu \subseteq mmu',
         UNCHANGED <<console, tables, smpInitDone, inflight, slot>>,
         starting # Null => starting' # Null,
         stopping # Null => stopping' # Null
  PROVE  BringUp'
<1>1. /\ pc[c] \notin BootOnly /\ pc[c] \notin BootRom
      /\ p \notin BootOnly /\ p \notin BootRom /\ p # "fault"
  BY PlacesApart
<1>2. \A e \in Core : pc'[e] = IF e = c THEN p ELSE pc[e]
  BY DEF TypeOK
<1>3. Built'
  BY <1>1, <1>2, PlacesApart, KernelAssumption DEF KernelAssumption, BringUp, Built
<1>4. Separate'
  <2>1. c # Boot => pc[Boot] \notin BeforeWake
    BY <1>1, PlacesApart, KernelAssumption
       DEF KernelAssumption, BringUp, Separate, Secondary
  <2>2. pc'[Boot] \notin BeforeWake
    BY <1>1, <1>2, <2>1, PlacesApart, KernelAssumption DEF KernelAssumption
  <2> QED
    BY <1>1, <1>2, <2>2, KernelAssumption
       DEF KernelAssumption, BringUp, Separate, Secondary
<1>5. NoCoreFaults'
  BY <1>1, <1>2 DEF BringUp, NoCoreFaults
<1> QED
  BY <1>3, <1>4, <1>5 DEF BringUp

\* A core in the firmware or in boot.S stays parked while the boot core builds.
LEMMA SecondaryStep ==
  ASSUME TypeOK, BringUp, NEW c \in Core, pc[c] \in BootRom,
         NEW p \in BootRom \union {"mmu"},
         pc[Boot] \in BeforeWake => p \in Parked,
         pc' = [pc EXCEPT ![c] = p],
         UNCHANGED <<console, tables, smpInitDone, inflight, slot, mmu, starting, stopping>>
  PROVE  BringUp'
<1>1. c # Boot /\ p \notin BootOnly /\ p \notin Translated /\ p # "fault"
  BY PlacesApart DEF BringUp, Separate
<1>2. \A e \in Core : pc'[e] = IF e = c THEN p ELSE pc[e]
  BY DEF TypeOK
<1>3. pc'[Boot] = pc[Boot]
  BY <1>1, <1>2, KernelAssumption DEF KernelAssumption
<1>4. Built'
  BY <1>3 DEF BringUp, Built
<1>5. Separate'
  BY <1>1, <1>2, <1>3 DEF BringUp, Separate, Secondary
<1>6. NoCoreFaults'
  BY <1>1, <1>2 DEF BringUp, NoCoreFaults
<1> QED
  BY <1>4, <1>5, <1>6 DEF BringUp

\* A step of the boot core that builds, if what it built is there.
LEMMA BootStep ==
  ASSUME TypeOK, BringUp, pc[Boot] \in BootOnly, NEW p \in BootOnly \union {"mmu"},
         pc' = [pc EXCEPT ![Boot] = p],
         Built', mmu' = mmu,
         p \in BeforeWake =>
           pc[Boot] \in BeforeWake /\ UNCHANGED <<inflight, slot>>
  PROVE  BringUp'
<1>1. p \notin BootRom /\ p \notin Translated /\ p # "fault"
  <2>1. \A q \in BootOnly : q \notin BootRom
    BY PlacesApart
  <2> QED
    BY <2>1, PlacesApart
<1>2. \A e \in Core : pc'[e] = IF e = Boot THEN p ELSE pc[e]
  BY DEF TypeOK
<1>3. Separate'
  BY <1>1, <1>2, KernelAssumption DEF KernelAssumption, BringUp, Separate, Secondary
<1>4. NoCoreFaults'
  BY <1>1, <1>2 DEF BringUp, NoCoreFaults
<1> QED
  BY <1>3, <1>4 DEF BringUp

\* A core whose MMU is on came after the boot core had built everything.
LEMMA BuiltBeforeTranslated ==
  ASSUME BringUp, NEW c \in Core, pc[c] \in Translated
  PROVE  c \in mmu /\ pc[Boot] \notin BeforeWake
BY PlacesApart, KernelAssumption
   DEF KernelAssumption, BringUp, Separate, Secondary, Parked, Translated, BeforeWake,
       BeforeSmp, BeforeStopping, BeforeStarting, BeforeTables, BeforeConsole

\* The argument of the barriers is a number.
LEMMA BarrierCountIsNumber == BarrierCount # Null
<1>1. BarrierCount \in Nat
  BY KernelAssumption DEF KernelAssumption
<1> QED
  BY <1>1, KernelAssumption DEF KernelAssumption

\* Every step keeps the order of the bring-up, and finds what it needs.
LEMMA StepKeepsOrder == TypeOK /\ BringUp /\ [Next]_vars => BringUp'
<1> SUFFICES ASSUME TypeOK, BringUp, [Next]_vars PROVE BringUp'
  OBVIOUS
<1> USE DEF Goto, Needs, boot, park, work, barriers, locks
<1>1. CASE UNCHANGED vars
  BY <1>1 DEF vars, BringUp, Built, Separate, NoCoreFaults
<1>2. CASE BootSteps
  <2> USE DEF BeforeConsole, BeforeTables, BeforeStarting, BeforeStopping, BeforeSmp,
              BeforeWake, BootOnly
  <2>1. CASE Master
    <3>1. pc' = [pc EXCEPT ![Boot] = "el1 entry"] /\ pc[Boot] = "_start"
      BY <2>1 DEF Master
    <3>2. pc'[Boot] = "el1 entry"
      BY <3>1, KernelAssumption DEF KernelAssumption, TypeOK
    <3>3. Built'
      BY <2>1, <3>1, <3>2 DEF Master, BringUp, Built
    <3> QED
      BY <2>1, <3>1, <3>3, BootStep DEF Master
  <2>2. CASE ClearBss
    <3>1. pc' = [pc EXCEPT ![Boot] = "set stack"] /\ pc[Boot] = "el1 entry"
      BY <2>2 DEF ClearBss
    <3>2. pc'[Boot] = "set stack"
      BY <3>1, KernelAssumption DEF KernelAssumption, TypeOK
    <3>3. Built'
      BY <2>2, <3>1, <3>2 DEF ClearBss, BringUp, Built
    <3> QED
      BY <2>2, <3>1, <3>3, BootStep DEF ClearBss
  <2>11. CASE SetStack
    <3>1. pc' = [pc EXCEPT ![Boot] = "pick stack"] /\ pc[Boot] = "set stack"
      BY <2>11 DEF SetStack
    <3>2. pc'[Boot] = "pick stack"
      BY <3>1, KernelAssumption DEF KernelAssumption, TypeOK
    <3>3. Built'
      BY <2>11, <3>1, <3>2 DEF SetStack, BringUp, Built
    <3> QED
      BY <2>11, <3>1, <3>3, BootStep DEF SetStack
  <2>12. CASE PickBootStack
    <3>1. pc' = [pc EXCEPT ![Boot] = "console"] /\ pc[Boot] = "pick stack"
      BY <2>12 DEF PickBootStack
    <3>2. pc'[Boot] = "console"
      BY <3>1, KernelAssumption DEF KernelAssumption, TypeOK
    <3>3. Built'
      BY <2>12, <3>1, <3>2 DEF PickBootStack, BringUp, Built
    <3> QED
      BY <2>12, <3>1, <3>3, BootStep DEF PickBootStack
  <2>3. CASE InitConsole
    <3>1. pc' = [pc EXCEPT ![Boot] = "tables"] /\ pc[Boot] = "console"
      BY <2>3 DEF InitConsole
    <3>2. pc'[Boot] = "tables"
      BY <3>1, KernelAssumption DEF KernelAssumption, TypeOK
    <3>3. Built'
      BY <2>3, <3>1, <3>2 DEF InitConsole, BringUp, Built
    <3> QED
      BY <2>3, <3>1, <3>3, BootStep DEF InitConsole
  <2>4. CASE SetupPageTable
    <3>1. pc' = [pc EXCEPT ![Boot] = "heap"] /\ pc[Boot] = "tables"
      BY <2>4 DEF SetupPageTable
    <3>2. pc'[Boot] = "heap"
      BY <3>1, KernelAssumption DEF KernelAssumption, TypeOK
    <3>3. Built'
      BY <2>4, <3>1, <3>2 DEF SetupPageTable, BringUp, Built
    <3> QED
      BY <2>4, <3>1, <3>3, BootStep DEF SetupPageTable
  <2>5. CASE HeapInit
    <3>1. pc' = [pc EXCEPT ![Boot] = "new starting"] /\ pc[Boot] = "heap"
      BY <2>5 DEF HeapInit, BringUp, Built
    <3>2. pc'[Boot] = "new starting"
      BY <3>1, KernelAssumption DEF KernelAssumption, TypeOK
    <3>3. Built'
      BY <2>5, <3>1, <3>2 DEF HeapInit, BringUp, Built
    <3> QED
      BY <2>5, <3>1, <3>3, BootStep DEF HeapInit
  <2>6. CASE NewStarting
    <3>1. pc' = [pc EXCEPT ![Boot] = "new stopping"] /\ pc[Boot] = "new starting"
      BY <2>6 DEF NewStarting
    <3>2. pc'[Boot] = "new stopping"
      BY <3>1, KernelAssumption DEF KernelAssumption, TypeOK
    <3>3. starting' # Null
      BY <2>6, BarrierCountIsNumber DEF NewStarting
    <3>4. UNCHANGED <<console, tables, smpInitDone, stopping>>
      BY <2>6 DEF NewStarting
    <3>5. Built'
      BY <3>1, <3>2, <3>3, <3>4 DEF BringUp, Built
    <3> QED
      BY <2>6, <3>1, <3>5, BootStep DEF NewStarting
  <2>7. CASE NewStopping
    <3>1. pc' = [pc EXCEPT ![Boot] = "smp"] /\ pc[Boot] = "new stopping"
      BY <2>7 DEF NewStopping
    <3>2. pc'[Boot] = "smp"
      BY <3>1, KernelAssumption DEF KernelAssumption, TypeOK
    <3>3. stopping' # Null
      BY <2>7, BarrierCountIsNumber DEF NewStopping
    <3>4. UNCHANGED <<console, tables, smpInitDone, starting>>
      BY <2>7 DEF NewStopping
    <3>5. console = TRUE /\ tables = TRUE /\ starting # Null
      BY <3>1 DEF BringUp, Built
    <3>6. pc'[Boot] \in BeforeSmp
      BY <3>2
    <3>7. Built'
      BY <3>3, <3>4, <3>5, <3>6 DEF Built
    <3> QED
      BY <2>7, <3>1, <3>7, BootStep DEF NewStopping
  <2>8. CASE SmpInitDone
    <3>1. pc' = [pc EXCEPT ![Boot] = "table"] /\ pc[Boot] = "smp"
      BY <2>8 DEF SmpInitDone
    <3>2. pc'[Boot] = "table"
      BY <3>1, KernelAssumption DEF KernelAssumption, TypeOK
    <3>3. Built'
      BY <2>8, <3>1, <3>2 DEF SmpInitDone, BringUp, Built
    <3> QED
      BY <2>8, <3>1, <3>3, BootStep DEF SmpInitDone
  <2>9. CASE WriteSpinTable
    <3>1. pc' = [pc EXCEPT ![Boot] = "sev"] /\ pc[Boot] = "table"
      BY <2>9 DEF WriteSpinTable
    <3>2. pc'[Boot] = "sev"
      BY <3>1, KernelAssumption DEF KernelAssumption, TypeOK
    <3>3. Built'
      BY <2>9, <3>1, <3>2 DEF WriteSpinTable, BringUp, Built
    <3> QED
      BY <2>9, <3>1, <3>3, BootStep DEF WriteSpinTable
  <2>10. CASE SendEvent
    <3>1. pc' = [pc EXCEPT ![Boot] = "mmu"] /\ pc[Boot] = "sev"
      BY <2>10 DEF SendEvent
    <3>2. pc'[Boot] = "mmu"
      BY <3>1, KernelAssumption DEF KernelAssumption, TypeOK
    <3>3. Built'
      BY <2>10, <3>1, <3>2 DEF SendEvent, BringUp, Built
    <3> QED
      BY <2>10, <3>1, <3>3, BootStep DEF SendEvent
  <2> QED
    BY <1>2, <2>1, <2>2, <2>3, <2>4, <2>5, <2>6, <2>7, <2>8, <2>9, <2>10, <2>11, <2>12
       DEF BootSteps
<1>3. ASSUME NEW c \in Core, Run(c) \/ EnterCritical(c) \/ EnterPrintf(c) PROVE BringUp'
  <2>1. CASE CheckSlot(c)
    <3>1. pc[c] \in BootRom /\ slot' = slot
      BY <2>1 DEF CheckSlot, BootRom, Parked
    <3>2. CASE c \in slot
      <4>1. pc' = [pc EXCEPT ![c] = "el2"] /\ pc[Boot] \notin BeforeWake
        BY <2>1, <3>2 DEF CheckSlot, BringUp, Separate
      <4>2. "el2" \in BootRom
        BY DEF BootRom
      <4> QED
        BY <2>1, <3>1, <4>1, <4>2, SecondaryStep DEF CheckSlot
    <3>3. CASE c \notin slot
      <4>1. pc' = [pc EXCEPT ![c] = "parked"]
        BY <2>1, <3>3 DEF CheckSlot
      <4>2. "parked" \in BootRom /\ "parked" \in Parked
        BY DEF BootRom, Parked
      <4> QED
        BY <2>1, <3>1, <4>1, <4>2, SecondaryStep DEF CheckSlot
    <3> QED
      BY <3>2, <3>3
  <2>2. CASE SecondaryEntry(c)
    <3>1. pc[c] = "el2" /\ pc[c] \in BootRom /\ pc[c] \notin Parked
      BY <2>2 DEF SecondaryEntry, BootRom, Parked
    <3>2. pc[Boot] \notin BeforeWake
      BY <3>1 DEF BringUp, Separate, Secondary
    <3>3. pc' = [pc EXCEPT ![c] = "el1"] /\ "el1" \in BootRom
      BY <2>2 DEF SecondaryEntry, BootRom
    <3> QED
      BY <2>2, <3>1, <3>2, <3>3, SecondaryStep DEF SecondaryEntry
  <2>3. CASE EnterEL1(c)
    <3>1. pc[c] = "el1" /\ pc[c] \in BootRom /\ pc[c] \notin Parked
      BY <2>3 DEF EnterEL1, BootRom, Parked
    <3>2. pc[Boot] \notin BeforeWake
      BY <3>1 DEF BringUp, Separate, Secondary
    <3>3. pc' = [pc EXCEPT ![c] = "mmu"]
      BY <2>3 DEF EnterEL1
    <3> QED
      BY <2>3, <3>1, <3>2, <3>3, SecondaryStep DEF EnterEL1
  <2>4. CASE EnableMMU(c)
    <3>1. pc[Boot] \notin BeforeTables
      <4>1. c # Boot => pc[Boot] \notin BeforeWake
        BY <2>4, PlacesApart DEF EnableMMU, BringUp, Separate, Secondary, Parked
      <4> QED
        BY <2>4, <4>1, PlacesApart DEF EnableMMU
    <3>2. pc' = [pc EXCEPT ![c] = "start"] /\ pc[c] = "mmu"
      BY <2>4, <3>1 DEF EnableMMU, BringUp, Built
    <3> QED
      BY <2>4, <3>2, LaterStep DEF EnableMMU, Translated
  <2>5. CASE ArriveStarting(c)
    <3>1. c \in mmu /\ pc[Boot] \notin BeforeWake
      BY <2>5, BuiltBeforeTranslated DEF ArriveStarting, Translated
    <3>2. pc' = [pc EXCEPT ![c] = "starting"] /\ pc[c] = "start"
      BY <2>5, <3>1, PlacesApart DEF ArriveStarting, BringUp, Built
    <3>3. starting # Null => starting' # Null
      BY <2>5, CountdownStays, KernelAssumption DEF ArriveStarting, TypeOK, KernelAssumption
    <3> QED
      BY <2>5, <3>1, <3>2, <3>3, LaterStep DEF ArriveStarting, Translated
  <2>6. CASE LeaveStarting(c)
    BY <2>6, LaterStep, BuiltBeforeTranslated DEF LeaveStarting, Translated
  <2>7. CASE ReadArgument(c)
    BY <2>7, LaterStep, BuiltBeforeTranslated DEF ReadArgument, Translated
  <2>8. CASE Put(c)
    <3>1. c \in mmu /\ pc[Boot] \notin BeforeWake
      BY <2>8, BuiltBeforeTranslated DEF Put, Translated
    <3>2. pc' = [pc EXCEPT ![c] = "unlock"] /\ pc[c] = "put"
      BY <2>8, <3>1, PlacesApart DEF Put, BringUp, Built
    <3> QED
      BY <2>8, <3>1, <3>2, LaterStep DEF Put, Translated
  <2>9. CASE LeavePrintf(c)
    BY <2>9, LaterStep, BuiltBeforeTranslated DEF LeavePrintf, Translated, PrintfLock!Release
  <2>10. CASE LoadCounter(c)
    BY <2>10, LaterStep, BuiltBeforeTranslated DEF LoadCounter, Translated
  <2>11. CASE StoreCounter(c)
    BY <2>11, LaterStep, BuiltBeforeTranslated DEF StoreCounter, Translated
  <2>12. CASE LeaveCritical(c)
    BY <2>12, LaterStep, BuiltBeforeTranslated DEF LeaveCritical, Translated, CriticalLock!Release
  <2>13. CASE ArriveStopping(c)
    <3>1. c \in mmu /\ pc[Boot] \notin BeforeWake
      BY <2>13, BuiltBeforeTranslated DEF ArriveStopping, Translated
    <3>2. pc' = [pc EXCEPT ![c] = "stopping"] /\ pc[c] = "stop"
      BY <2>13, <3>1, PlacesApart DEF ArriveStopping, BringUp, Built
    <3>3. stopping # Null => stopping' # Null
      BY <2>13, CountdownStays, KernelAssumption DEF ArriveStopping, TypeOK, KernelAssumption
    <3> QED
      BY <2>13, <3>1, <3>2, <3>3, LaterStep DEF ArriveStopping, Translated
  <2>14. CASE LeaveStopping(c)
    BY <2>14, LaterStep, BuiltBeforeTranslated DEF LeaveStopping, Translated
  <2>15. CASE EnterCritical(c)
    BY <2>15, LaterStep, BuiltBeforeTranslated DEF EnterCritical, Translated, CriticalLock!Acquire
  <2>16. CASE EnterPrintf(c)
    BY <2>16, LaterStep, BuiltBeforeTranslated DEF EnterPrintf, Translated, PrintfLock!Acquire
  <2> QED
    BY <1>3, <2>1, <2>2, <2>3, <2>4, <2>5, <2>6, <2>7, <2>8, <2>9, <2>10, <2>11, <2>12,
       <2>13, <2>14, <2>15, <2>16 DEF Run
<1>4. ASSUME NEW c \in Secondary, StoreLands(c) \/ Wake(c) \/ WakeEarly(c) PROVE BringUp'
  <2>1. c \in Core /\ c # Boot
    BY DEF Secondary
  <2>2. CASE StoreLands(c)
    BY <2>2 DEF StoreLands, BringUp, Built, Separate, NoCoreFaults
  <2>3. CASE Wake(c)
    BY <2>1, <2>3, SecondaryStep DEF Wake, BootRom, Parked
  <2>4. CASE WakeEarly(c)
    BY <2>1, <2>4, SecondaryStep DEF WakeEarly, BootRom, Parked
  <2> QED
    BY <1>4, <2>2, <2>3, <2>4
<1>5. CASE Halted
  BY <1>5, <1>1 DEF Halted
<1> QED
  BY <1>1, <1>2, <1>3, <1>4, <1>5 DEF Next
-----------------------------------------------------------------------------
\* boot.S picks a stack on the boot core before, on the others after
\* smpInitDone: every core its own.
LEMMA StepKeepsStacks == TypeOK /\ BringUp /\ OwnStacks /\ [Next]_vars => OwnStacks'
<1> SUFFICES ASSUME TypeOK, BringUp, OwnStacks, [Next]_vars PROVE OwnStacks'
  OBVIOUS
<1> USE DEF boot, park, work, barriers, locks
<1>1. ASSUME NEW c \in Core, NEW s \in {LowMemory(c), PerCPU(c)},
             stack' = [stack EXCEPT ![c] = s]
      PROVE  OwnStacks'
  BY <1>1 DEF OwnStacks, TypeOK
<1>2. stack' = stack => OwnStacks'
  BY DEF OwnStacks
<1>3. CASE BootSteps
  <2>1. Boot \in Core
    BY KernelAssumption DEF KernelAssumption
  <2>2. CASE SetStack
    BY <2>1, <2>2, <1>1 DEF SetStack
  <2>3. CASE PickBootStack
    <3>1. stack' = [stack EXCEPT ![Boot] = PerCPU(Boot)]
      BY <2>3 DEF PickBootStack, PickKernelStack
    <3> QED
      BY <2>1, <3>1, <1>1
  <2> QED
    BY <1>2, <1>3, <2>2, <2>3
       DEF BootSteps, Master, ClearBss, InitConsole, SetupPageTable, HeapInit, NewStarting,
           NewStopping, SmpInitDone, WriteSpinTable, SendEvent
<1>4. ASSUME NEW c \in Core, Run(c) \/ EnterCritical(c) \/ EnterPrintf(c) PROVE OwnStacks'
  <2>1. CASE SecondaryEntry(c)
    <3>1. c \in Secondary /\ pc[c] \notin Parked
      BY <2>1 DEF SecondaryEntry, Goto, BringUp, Separate, Secondary, BootRom, Parked
    <3>2. pc[Boot] \notin BeforeWake
      BY <3>1 DEF BringUp, Separate
    <3>3. smpInitDone = TRUE
      BY <3>2, PlacesApart DEF BringUp, Built
    <3>4. stack' = [stack EXCEPT ![c] = PerCPU(c)]
      BY <2>1, <3>3 DEF SecondaryEntry, PickKernelStack
    <3> QED
      BY <3>4, <1>1
  <2>2. CASE EnterEL1(c)
    BY <2>2, <1>1 DEF EnterEL1
  <2> QED
    BY <1>2, <1>4, <2>1, <2>2
       DEF Run, CheckSlot, EnableMMU, ArriveStarting, LeaveStarting, ReadArgument, Put,
           LeavePrintf, LoadCounter, StoreCounter, LeaveCritical, ArriveStopping,
           LeaveStopping, EnterCritical, EnterPrintf
<1>5. ASSUME NEW c \in Secondary, StoreLands(c) \/ Wake(c) \/ WakeEarly(c) PROVE OwnStacks'
  BY <1>2, <1>5 DEF StoreLands, Wake, WakeEarly
<1>6. CASE Halted \/ UNCHANGED vars
  BY <1>2, <1>6 DEF Halted, vars
<1> QED
  BY <1>3, <1>4, <1>5, <1>6 DEF Next

LEMMA KernelInvariant == Spec => []KernelInv
<1>1. KernelInv /\ [Next]_vars => KernelInv'
  BY StepKeepsTypes, StepKeepsOrder, StepKeepsStacks DEF KernelInv
<1> QED
  BY <1>1, InitKernelInv, PTL DEF Spec

\* Every variable of the machine keeps its type: a barrier's counter is a
\* uint32_t or a Barrier* never assigned, a core's sp a stack of some core
\* (kernel.cpp:19-22, boot.S:60-87).
THEOREM KernelTypes == Spec => []TypeOK
<1>1. KernelInv => TypeOK
  BY DEF KernelInv
<1> QED
  BY <1>1, KernelInvariant, PTL

\* The order of kernel_init's lines and the spin table are enough for any
\* number of cores: no core uses what the boot core has not built yet, nor an
\* exclusive access before its MMU is on (kernel.cpp:287-303).
THEOREM BringUpIsSafe == Spec => []NoCoreFaults
<1>1. KernelInv => NoCoreFaults
  BY DEF KernelInv, BringUp
<1> QED
  BY <1>1, KernelInvariant, PTL

\* No two running cores have their sp in one stack, however many there are
\* and whatever RAM holds in place of smpInitDone before bss is cleared
\* (boot.S:60-63, 70-87, kernel.cpp:36-38).
THEOREM StacksArePrivate == Spec => []PrivateStacks
<1>1. OwnStacks => PrivateStacks
  BY DEF OwnStacks, PrivateStacks, LowMemory, PerCPU, NoStack
<1>2. KernelInv => PrivateStacks
  BY <1>1 DEF KernelInv
<1> QED
  BY <1>2, KernelInvariant, PTL

-----------------------------------------------------------------------------
(***************************************************************************)
(* The two meetings, if the barriers are built for as many cores as there  *)
(* are.                                                                    *)
(***************************************************************************)
StartCame == Past({"starting"} \union Inside \union Ended)
StartGone == Past(Inside \union Ended)
StopCame == Past(Ended)
StopGone == Past({"hang"})

\* Once a barrier is built, it counts the cores that have not come yet.
Counts ==
  /\ pc[Boot] \notin BeforeStarting => starting = Cardinality(Core \ StartCame)
  /\ pc[Boot] \notin BeforeStopping => stopping = Cardinality(Core \ StopCame)

\* A core that stays on its side of both barriers.
LEMMA SameSide ==
  ASSUME TypeOK, NEW c \in Core, NEW p, pc' = [pc EXCEPT ![c] = p],
         \/ {pc[c], p} \subseteq Inside
         \/ {pc[c], p} \intersect ({"starting"} \union Inside \union Ended) = {}
  PROVE  UNCHANGED <<StartCame, StartGone, StopCame, StopGone>>
<1>1. \A d \in Core : pc'[d] = IF d = c THEN p ELSE pc[d]
  BY DEF TypeOK
<1>2. \A q \in Inside : q \notin Ended /\ q # "hang" /\ q # "starting"
  BY DEF Inside, Ended
<1>3. "hang" \in Ended
  BY DEF Ended
<1>4. CASE {pc[c], p} \subseteq Inside
  BY <1>1, <1>2, <1>4 DEF StartCame, StartGone, StopCame, StopGone, Past
<1>5. CASE {pc[c], p} \intersect ({"starting"} \union Inside \union Ended) = {}
  BY <1>1, <1>3, <1>5 DEF StartCame, StartGone, StopCame, StopGone, Past
<1> QED
  BY <1>4, <1>5

\* The cores still to come, with one of them gone.
LEMMA OneLess ==
  ASSUME IsFiniteSet(Core), NEW S \in SUBSET Core, NEW c \in S, NEW n, n = Cardinality(S)
  PROVE  n \in Nat \ {0} /\ Cardinality(S \ {c}) = n - 1 /\ Decrement(n) = n - 1
<1>1. IsFiniteSet(S)
  BY FS_Subset
<1>2. Cardinality(S) \in Nat /\ Cardinality(S) # 0 /\ Cardinality(S \ {c}) = Cardinality(S) - 1
  BY <1>1, FS_CardinalityType, FS_RemoveElement, FS_EmptySet
<1> QED
  BY <1>2 DEF Decrement

\* Every step of the machine is a step of each meeting or of neither.
LEMMA StepMeets ==
  ASSUME IsFiniteSet(Core), BarrierCount = Cardinality(Core),
         KernelInv, KernelInv', [Next]_vars, Counts
  PROVE  /\ Counts'
         /\ [Start!Next]_(Start!vars)
         /\ [Stop!Next]_(Stop!vars)
<1> DEFINE Goal == Counts' /\ [Start!Next]_(Start!vars) /\ [Stop!Next]_(Stop!vars)
           Same == UNCHANGED <<StartCame, StartGone, StopCame, StopGone>>
<1> USE DEF boot, park, work, barriers, locks
<1>a. TypeOK /\ BringUp /\ \A c \in Core : pc'[c] # "fault"
  BY DEF KernelInv, BringUp, NoCoreFaults
<1>b. Same => UNCHANGED Start!vars /\ UNCHANGED Stop!vars
  BY DEF Start!vars, Stop!vars, StartCame, StartGone, StopCame, StopGone
<1>c. ASSUME Same, UNCHANGED <<starting, stopping>>,
             pc[Boot] \in BeforeStarting => pc'[Boot] \in BeforeStarting,
             pc[Boot] \in BeforeStopping => pc'[Boot] \in BeforeStopping
      PROVE  Goal
  BY <1>b, <1>c DEF Counts
<1>d. Boot \in Core
  BY KernelAssumption DEF KernelAssumption
<1>1. CASE UNCHANGED vars
  BY <1>1, <1>c DEF vars, StartCame, StartGone, StopCame, StopGone, Past
<1>2. CASE BootSteps
  <2> USE DEF Inside, Ended
  <2>1. CASE Master \/ ClearBss \/ SetStack \/ PickBootStack
               \/ InitConsole \/ SetupPageTable \/ HeapInit
    <3>1. PICK p \in {"el1 entry", "set stack", "pick stack", "console", "tables", "heap",
                      "new starting", "fault"} :
            pc[Boot] \in {"_start", "el1 entry", "set stack", "pick stack", "console", "tables",
                          "heap"}
              /\ pc' = [pc EXCEPT ![Boot] = p]
      BY <2>1 DEF Master, ClearBss, SetStack, PickBootStack, InitConsole, SetupPageTable,
                  HeapInit, Goto, Needs
    <3>2. pc'[Boot] = p
      BY <1>a, <1>d, <3>1 DEF TypeOK
    <3>3. Same
      BY <1>a, <1>d, <3>1, SameSide
    <3>4. pc'[Boot] \in BeforeStarting /\ pc'[Boot] \in BeforeStopping
      BY <1>a, <1>d, <3>1, <3>2 DEF BeforeStopping, BeforeStarting, BeforeTables, BeforeConsole
    <3> QED
      BY <1>b, <3>3, <3>4 DEF Counts
  <2>2. CASE NewStarting
    <3>1. /\ pc[Boot] = "new starting" /\ pc' = [pc EXCEPT ![Boot] = "new stopping"]
          /\ starting' = BarrierCount
      BY <2>2 DEF NewStarting, Goto
    <3>2. Same
      BY <1>a, <1>d, <3>1, SameSide
    <3>3. pc[Boot] \in BeforeWake
      BY <3>1 DEF BeforeWake, BeforeSmp, BeforeStopping, BeforeStarting
    <3>4. StartCame = {}
      BY <1>a, <3>1, <3>3 DEF StartCame, Past, BringUp, Separate, Secondary, Parked
    <3>5. starting' = Cardinality(Core \ StartCame')
      BY <3>1, <3>2, <3>4
    <3>6. pc'[Boot] \in BeforeStopping
      BY <1>a, <1>d, <3>1 DEF TypeOK, BeforeStopping
    <3> QED
      BY <1>b, <3>2, <3>5, <3>6 DEF Counts
  <2>3. CASE NewStopping
    <3>1. /\ pc[Boot] = "new stopping" /\ pc' = [pc EXCEPT ![Boot] = "smp"]
          /\ stopping' = BarrierCount /\ starting' = starting
      BY <2>3 DEF NewStopping, Goto
    <3>2. Same
      BY <1>a, <1>d, <3>1, SameSide
    <3>3. pc[Boot] \in BeforeWake /\ pc[Boot] \notin BeforeStarting
      BY <3>1 DEF BeforeWake, BeforeSmp, BeforeStopping, BeforeStarting, BeforeTables,
                  BeforeConsole
    <3>4. StopCame = {}
      BY <1>a, <3>1, <3>3 DEF StopCame, Past, BringUp, Separate, Secondary, Parked
    <3>5. stopping' = Cardinality(Core \ StopCame')
      BY <3>1, <3>2, <3>4
    <3>6. starting' = Cardinality(Core \ StartCame')
      BY <3>1, <3>2, <3>3 DEF Counts
    <3> QED
      BY <1>b, <3>2, <3>5, <3>6 DEF Counts
  <2>4. CASE SmpInitDone \/ WriteSpinTable \/ SendEvent
    <3>1. PICK p \in {"table", "sev", "mmu"} :
            /\ pc[Boot] \in {"smp", "table", "sev"} /\ pc' = [pc EXCEPT ![Boot] = p]
            /\ UNCHANGED <<starting, stopping>>
      BY <2>4 DEF SmpInitDone, WriteSpinTable, SendEvent, Goto
    <3>2. Same
      BY <1>a, <1>d, <3>1, SameSide
    <3>3. pc[Boot] \notin BeforeStarting /\ pc[Boot] \notin BeforeStopping
      BY <3>1 DEF BeforeStopping, BeforeStarting, BeforeTables, BeforeConsole
    <3> QED
      BY <1>c, <3>1, <3>2, <3>3
  <2> QED
    BY <1>2, <2>1, <2>2, <2>3, <2>4 DEF BootSteps
<1>e. ASSUME NEW c \in Core, NEW p, pc' = [pc EXCEPT ![c] = p], pc[c] \notin BootOnly
      PROVE  /\ pc[Boot] \in BeforeStarting => pc'[Boot] \in BeforeStarting
             /\ pc[Boot] \in BeforeStopping => pc'[Boot] \in BeforeStopping
  <2>1. c = Boot => pc[Boot] \notin BeforeStarting /\ pc[Boot] \notin BeforeStopping
    BY <1>e, PlacesApart
  <2>2. c # Boot => pc'[Boot] = pc[Boot]
    BY <1>a, <1>d, <1>e DEF TypeOK
  <2> QED
    BY <2>1, <2>2
<1>f. \A p \in BootRom \union {"mmu", "fault"} \union Translated : p \notin BootOnly
  BY PlacesApart
<1>3. ASSUME NEW c \in Core, CheckSlot(c) \/ SecondaryEntry(c) \/ EnterEL1(c) \/ EnableMMU(c)
      PROVE  Goal
  <2>1. PICK p \in {"el2", "parked", "el1", "mmu", "start", "fault"} :
          /\ pc[c] \in {"check", "el2", "el1", "mmu"} /\ pc' = [pc EXCEPT ![c] = p]
          /\ UNCHANGED <<starting, stopping>>
    BY <1>3 DEF CheckSlot, SecondaryEntry, EnterEL1, EnableMMU, Goto, Needs
  <2>2. Same
    BY <1>a, <2>1, SameSide DEF Inside, Ended
  <2>3. pc[c] \notin BootOnly
    BY <1>f, <2>1 DEF BootRom, Parked
  <2> QED
    BY <1>c, <1>e, <2>1, <2>2, <2>3
<1>4. ASSUME NEW c \in Core,
             ReadArgument(c) \/ Put(c) \/ LeavePrintf(c) \/ LoadCounter(c)
               \/ StoreCounter(c) \/ LeaveCritical(c) \/ EnterCritical(c) \/ EnterPrintf(c)
      PROVE  Goal
  <2>1. PICK p : /\ pc[c] \in Inside /\ pc' = [pc EXCEPT ![c] = p]
                 /\ p \in Inside \union {"fault"}
                 /\ UNCHANGED <<starting, stopping>>
    BY <1>4 DEF ReadArgument, Put, LeavePrintf, LoadCounter, StoreCounter, LeaveCritical,
                EnterCritical, EnterPrintf, Goto, Needs, Inside
  <2>2. p # "fault"
    BY <1>a, <2>1 DEF TypeOK
  <2>3. Same
    BY <1>a, <2>1, <2>2, SameSide
  <2>4. pc[c] \notin BootOnly
    BY <1>f, <2>1 DEF Inside, Translated
  <2> QED
    BY <1>c, <1>e, <2>1, <2>3, <2>4
<1>5. ASSUME NEW c \in Core, ArriveStarting(c) PROVE Goal
  <2>1. pc[c] = "start" /\ pc[c] \notin BootOnly /\ stopping' = stopping
    BY <1>5, <1>f DEF ArriveStarting, Needs, Goto, Translated
  <2>2. pc' = [pc EXCEPT ![c] = "starting"] /\ starting # Null
    BY <1>5, <1>a DEF ArriveStarting, Needs, Goto, TypeOK
  <2>3. \A d \in Core : pc'[d] = IF d = c THEN "starting" ELSE pc[d]
    BY <1>a, <2>2 DEF TypeOK
  <2>4. /\ c \notin StartCame /\ StartCame' = StartCame \union {c}
        /\ UNCHANGED <<StartGone, StopCame, StopGone>>
    BY <2>1, <2>3 DEF StartCame, StartGone, StopCame, StopGone, Past, Inside, Ended
  <2>5. pc[Boot] \notin BeforeStarting
    BY <1>a, <2>1, BuiltBeforeTranslated, PlacesApart DEF Translated
  <2>6. starting = Cardinality(Core \ StartCame) /\ starting' = Decrement(starting)
    BY <1>5, <2>2, <2>5 DEF Counts, ArriveStarting
  <2>7. Core \ StartCame' = (Core \ StartCame) \ {c} /\ c \in Core \ StartCame
    BY <2>4
  <2>8. starting' = Cardinality(Core \ StartCame')
    BY <2>6, <2>7, OneLess
  <2>9. Counts'
    BY <1>e, <2>1, <2>2, <2>4, <2>8 DEF Counts
  <2>10. Start!Arrive(c)
    BY <2>4 DEF Start!Arrive, StartCame, StartGone
  <2>11. UNCHANGED Stop!vars
    BY <2>4 DEF Stop!vars, StopCame, StopGone
  <2> QED
    BY <2>9, <2>10, <2>11 DEF Start!Next
<1>6. ASSUME NEW c \in Core, LeaveStarting(c) PROVE Goal
  <2>1. /\ pc[c] = "starting" /\ pc' = [pc EXCEPT ![c] = "critical"] /\ starting = 0
        /\ UNCHANGED <<starting, stopping>>
    BY <1>6 DEF LeaveStarting, Goto
  <2>2. pc[c] \notin BootOnly
    BY <1>f, <2>1 DEF Translated
  <2>3. \A d \in Core : pc'[d] = IF d = c THEN "critical" ELSE pc[d]
    BY <1>a, <2>1 DEF TypeOK
  <2>4. /\ c \notin StartGone /\ StartGone' = StartGone \union {c}
        /\ UNCHANGED <<StartCame, StopCame, StopGone>>
    BY <2>1, <2>3 DEF StartCame, StartGone, StopCame, StopGone, Past, Inside, Ended
  <2>5. pc[Boot] \notin BeforeStarting
    BY <1>a, <2>1, BuiltBeforeTranslated, PlacesApart DEF Translated
  <2>6. StartCame = Core
    <3>1. IsFiniteSet(Core \ StartCame) /\ Cardinality(Core \ StartCame) = 0
      BY <2>1, <2>5, FS_Subset DEF Counts
    <3>2. Core \ StartCame = {}
      BY <3>1, FS_EmptySet
    <3> QED
      BY <3>2 DEF StartCame, Past
  <2>7. Counts'
    BY <1>e, <2>1, <2>2, <2>4 DEF Counts
  <2>8. Start!Depart(c)
    BY <2>4, <2>6 DEF Start!Depart, StartCame, StartGone
  <2>9. UNCHANGED Stop!vars
    BY <2>4 DEF Stop!vars, StopCame, StopGone
  <2> QED
    BY <2>7, <2>8, <2>9 DEF Start!Next
<1>7. ASSUME NEW c \in Core, ArriveStopping(c) PROVE Goal
  <2>1. pc[c] = "stop" /\ pc[c] \notin BootOnly /\ starting' = starting
    BY <1>7, <1>f DEF ArriveStopping, Needs, Goto, Translated
  <2>2. pc' = [pc EXCEPT ![c] = "stopping"] /\ stopping # Null
    BY <1>7, <1>a DEF ArriveStopping, Needs, Goto, TypeOK
  <2>3. \A d \in Core : pc'[d] = IF d = c THEN "stopping" ELSE pc[d]
    BY <1>a, <2>2 DEF TypeOK
  <2>4. /\ c \notin StopCame /\ StopCame' = StopCame \union {c}
        /\ UNCHANGED <<StartCame, StartGone, StopGone>>
    BY <2>1, <2>3 DEF StartCame, StartGone, StopCame, StopGone, Past, Inside, Ended
  <2>5. pc[Boot] \notin BeforeStopping
    BY <1>a, <2>1, BuiltBeforeTranslated, PlacesApart DEF Translated
  <2>6. stopping = Cardinality(Core \ StopCame) /\ stopping' = Decrement(stopping)
    BY <1>7, <2>2, <2>5 DEF Counts, ArriveStopping
  <2>7. Core \ StopCame' = (Core \ StopCame) \ {c} /\ c \in Core \ StopCame
    BY <2>4
  <2>8. stopping' = Cardinality(Core \ StopCame')
    BY <2>6, <2>7, OneLess
  <2>9. Counts'
    BY <1>e, <2>1, <2>2, <2>4, <2>8 DEF Counts
  <2>10. Stop!Arrive(c)
    BY <2>4 DEF Stop!Arrive, StopCame, StopGone
  <2>11. UNCHANGED Start!vars
    BY <2>4 DEF Start!vars, StartCame, StartGone
  <2> QED
    BY <2>9, <2>10, <2>11 DEF Stop!Next
<1>8. ASSUME NEW c \in Core, LeaveStopping(c) PROVE Goal
  <2>1. /\ pc[c] = "stopping" /\ pc' = [pc EXCEPT ![c] = "hang"] /\ stopping = 0
        /\ UNCHANGED <<starting, stopping>>
    BY <1>8 DEF LeaveStopping, Goto
  <2>2. pc[c] \notin BootOnly
    BY <1>f, <2>1 DEF Translated
  <2>3. \A d \in Core : pc'[d] = IF d = c THEN "hang" ELSE pc[d]
    BY <1>a, <2>1 DEF TypeOK
  <2>4. /\ c \notin StopGone /\ StopGone' = StopGone \union {c}
        /\ UNCHANGED <<StartCame, StartGone, StopCame>>
    BY <2>1, <2>3 DEF StartCame, StartGone, StopCame, StopGone, Past, Inside, Ended
  <2>5. pc[Boot] \notin BeforeStopping
    BY <1>a, <2>1, BuiltBeforeTranslated, PlacesApart DEF Translated
  <2>6. StopCame = Core
    <3>1. IsFiniteSet(Core \ StopCame) /\ Cardinality(Core \ StopCame) = 0
      BY <2>1, <2>5, FS_Subset DEF Counts
    <3>2. Core \ StopCame = {}
      BY <3>1, FS_EmptySet
    <3> QED
      BY <3>2 DEF StopCame, Past
  <2>7. Counts'
    BY <1>e, <2>1, <2>2, <2>4 DEF Counts
  <2>8. Stop!Depart(c)
    BY <2>4, <2>6 DEF Stop!Depart, StopCame, StopGone
  <2>9. UNCHANGED Start!vars
    BY <2>4 DEF Start!vars, StartCame, StartGone
  <2> QED
    BY <2>7, <2>8, <2>9 DEF Stop!Next
<1>9. ASSUME NEW c \in Secondary, StoreLands(c) \/ Wake(c) \/ WakeEarly(c) PROVE Goal
  <2>1. CASE StoreLands(c)
    BY <1>c, <2>1 DEF StoreLands, StartCame, StartGone, StopCame, StopGone, Past
  <2>2. CASE Wake(c) \/ WakeEarly(c)
    <3>1. /\ c \in Core /\ pc[c] = "parked" /\ pc' = [pc EXCEPT ![c] = "check"]
          /\ UNCHANGED <<starting, stopping>>
      BY <2>2 DEF Wake, WakeEarly, Goto, Secondary
    <3>2. Same
      BY <1>a, <3>1, SameSide DEF Inside, Ended
    <3>3. pc[c] \notin BootOnly
      BY <1>f, <3>1 DEF BootRom, Parked
    <3> QED
      BY <1>c, <1>e, <3>1, <3>2, <3>3
  <2> QED
    BY <1>9, <2>1, <2>2
<1> QED
  BY <1>1, <1>2, <1>3, <1>4, <1>5, <1>6, <1>7, <1>8, <1>9 DEF Next, Run, Halted

\* The invariant and the two meetings go together, for a machine whose
\* barriers are built for all its cores.
LEMMA MeetingsInvariant ==
  ASSUME IsFiniteSet(Core), BarrierCount = Cardinality(Core)
  PROVE  Spec => []Counts /\ StartTogether /\ StopTogether
<1>1. Init => Counts
  BY KernelAssumption
     DEF KernelAssumption, Init, Counts, BeforeStopping, BeforeStarting, BeforeTables, BeforeConsole
<1>2. Init => Start!Init /\ Stop!Init
  BY DEF Init, Start!Init, Stop!Init, Past, Inside, Ended
<1>3. KernelInv /\ KernelInv' /\ [Next]_vars /\ Counts =>
        Counts' /\ [Start!Next]_(Start!vars) /\ [Stop!Next]_(Stop!vars)
  BY StepMeets
<1> QED
  BY <1>1, <1>2, <1>3, KernelInvariant, PTL
     DEF Spec, StartTogether, StopTogether, Start!Spec, Stop!Spec

\* kernel_init meets the abstract Rendezvous at starting: no core calls
\* kernelMain() before all have come, for any number of cores, if new
\* Barrier(n) is told their number (kernel.cpp:294-301).
THEOREM CoresStartTogether ==
  ASSUME IsFiniteSet(Core), BarrierCount = Cardinality(Core)
  PROVE  Spec => StartTogether
BY MeetingsInvariant, PTL

\* The same at stopping: no core goes to proc_hang before all have left
\* kernelMain() (kernel.cpp:301-302).
THEOREM CoresStopTogether ==
  ASSUME IsFiniteSet(Core), BarrierCount = Cardinality(Core)
  PROVE  Spec => StopTogether
BY MeetingsInvariant, PTL

-----------------------------------------------------------------------------
(***************************************************************************)
(* The output of work(), for any finite number of cores.                   *)
(***************************************************************************)
Uncleared == {"_start", "el1 entry"}
BeforeHeap == BeforeTables \union {"heap"}
Holding == {"read", "printf", "put", "unlock", "load", "store", "leave"}
Counted == {"leave", "stop", "stopping", "hang"}

\* The critical section has one core inside, its owner.
Owns == \A c \in Core : critical = c <=> pc[c] \in Holding

Greeting(k) == <<IF k % 2 = 1 THEN "hello" ELSE "goodbye", (k - 1) \div 2>>

Printed ==
  /\ output # <<>> /\ output[1] = RangeLine
  /\ \A i \in 2 .. Len(output) : output[i] = Greeting(i - 1)

\* How many of its two lines the core in the critical section has printed,
\* while `counter' does not count it.
Ahead(c) ==
  CASE pc[c] \in {"read", "printf", "put"} -> IF line[c] = "hello" THEN 0 ELSE 1
    [] pc[c] = "unlock" -> IF line[c] = "hello" THEN 1 ELSE 2
    [] pc[c] \in {"load", "store"} -> 2
    [] OTHER -> 0

\* The output is two lines for each counted core and what the owner has sent.
Abreast ==
  /\ critical = NoCore => Len(output) = 1 + 2 * counter
  /\ \A c \in Core : pc[c] \in Holding => Len(output) = 1 + 2 * counter + Ahead(c)

\* What a core read of `counter' is still so when it uses it.
Fresh == \A c \in Core : pc[c] \in {"printf", "put", "store"} => seen[c] = counter

WorkInv ==
  /\ pc[Boot] \notin Uncleared => Owns /\ counter = Cardinality(Past(Counted))
  /\ pc[Boot] \in BeforeHeap => output = <<>>
  /\ pc[Boot] \notin BeforeHeap => Printed /\ Abreast
  /\ Fresh

LEMMA WorkPlaces ==
  /\ Uncleared \subseteq BeforeHeap /\ BeforeHeap \subseteq BeforeWake
  /\ BeforeHeap \subseteq BootOnly
  /\ Holding \union Counted \subseteq Translated
  /\ {"printf", "put", "store"} \subseteq Holding
BY DEF Uncleared, BeforeHeap, BootOnly, BeforeWake, BeforeSmp, BeforeStopping, BeforeStarting,
       BeforeTables, BeforeConsole, Holding, Counted, Translated

\* The two lines of the n-th core.
LEMMA GreetingsOf ==
  ASSUME NEW n \in Nat
  PROVE  Greeting(2 * n + 1) = <<"hello", n>> /\ Greeting(2 * n + 2) = <<"goodbye", n>>
<1>1. (2 * n + 1) % 2 = 1 /\ ((2 * n + 1) - 1) \div 2 = n
  OBVIOUS
<1>2. (2 * n + 2) % 2 = 0 /\ ((2 * n + 2) - 1) \div 2 = n
  OBVIOUS
<1> QED
  BY <1>1, <1>2 DEF Greeting

\* While the boot core builds, nobody works.
LEMMA NobodyWorks ==
  ASSUME BringUp, pc[Boot] \in BeforeWake
  PROVE  \A c \in Core : pc[c] \notin Holding /\ pc[c] \notin Counted
BY BuiltBeforeTranslated, WorkPlaces

\* A step of a core that is not at a line of the bring-up leaves the boot core
\* on its side of each.
LEMMA BootStays ==
  ASSUME TypeOK, NEW c \in Core, NEW p, pc' = [pc EXCEPT ![c] = p],
         pc[c] \notin BeforeHeap, p \notin BeforeHeap
  PROVE  /\ pc'[Boot] \in BeforeHeap <=> pc[Boot] \in BeforeHeap
         /\ pc'[Boot] \in Uncleared <=> pc[Boot] \in Uncleared
BY WorkPlaces, KernelAssumption DEF KernelAssumption, TypeOK

\* A step outside the critical section.
LEMMA OutsideStep ==
  ASSUME TypeOK, WorkInv, NEW c \in Core, NEW p, pc' = [pc EXCEPT ![c] = p],
         pc[c] \notin BeforeHeap \union Holding, p \notin BeforeHeap \union Holding,
         p \in Counted <=> pc[c] \in Counted,
         UNCHANGED <<critical, counter, line, seen, output>>
  PROVE  WorkInv'
<1>1. \A d \in Core : pc'[d] = IF d = c THEN p ELSE pc[d]
  BY DEF TypeOK
<1>2. \A d \in Core : (pc'[d] \in Holding <=> pc[d] \in Holding)
                        /\ (pc[d] \in Holding => pc'[d] = pc[d])
  BY <1>1
<1>3. Past(Counted)' = Past(Counted)
  BY <1>1 DEF Past
<1>4. Owns => Owns'
  BY <1>2 DEF Owns
<1>5. Printed => Printed'
  BY DEF Printed, RangeLine
<1>6. Abreast => Abreast'
  BY <1>2 DEF Abreast, Ahead
<1>7. Fresh'
  BY <1>2, WorkPlaces DEF WorkInv, Fresh
<1> QED
  BY <1>3, <1>4, <1>5, <1>6, <1>7, BootStays DEF WorkInv

\* A step of the core that is in the critical section, of which only the
\* length of the output and its own reading are left to show.
LEMMA InsideStep ==
  ASSUME TypeOK, BringUp, WorkInv,
         NEW c \in Core, NEW p \in Holding, pc[c] \in Holding,
         pc' = [pc EXCEPT ![c] = p], critical' = critical,
         counter' = Cardinality(Past(Counted))',
         \A d \in Core : d # c => line'[d] = line[d],
         Printed', Len(output') = 1 + 2 * counter' + Ahead(c)',
         p \in {"printf", "put", "store"} => seen'[c] = counter'
  PROVE  WorkInv'
<1>1. \A d \in Core : pc'[d] = IF d = c THEN p ELSE pc[d]
  BY DEF TypeOK
<1>2. pc[Boot] \notin BeforeHeap /\ pc[Boot] \notin Uncleared
  BY BuiltBeforeTranslated, WorkPlaces
<1>3. pc'[Boot] \notin BeforeHeap /\ pc'[Boot] \notin Uncleared
  BY <1>2, BootStays, WorkPlaces, PlacesApart
<1>4. critical = c /\ \A d \in Core : d # c => pc[d] \notin Holding
  BY <1>2 DEF WorkInv, Owns
<1>5. Owns'
  BY <1>1, <1>4 DEF Owns
<1>6. critical' # NoCore
  BY <1>4, KernelAssumption DEF KernelAssumption
<1>7. Abreast'
  BY <1>1, <1>4, <1>6 DEF Abreast
<1>8. Fresh'
  BY <1>1, <1>4, WorkPlaces DEF Fresh
<1> QED
  BY <1>3, <1>5, <1>7, <1>8 DEF WorkInv

\* A step of the boot core that builds and does not print.
LEMMA BuildStep ==
  ASSUME TypeOK, BringUp, WorkInv, pc[Boot] \in BeforeWake, NEW p \in BootOnly,
         pc' = [pc EXCEPT ![Boot] = p],
         p \in BeforeHeap <=> pc[Boot] \in BeforeHeap,
         p \notin Uncleared =>
           \/ pc[Boot] \notin Uncleared /\ UNCHANGED <<critical, counter>>
           \/ critical' = NoCore /\ counter' = 0 /\ pc[Boot] \in BeforeHeap,
         output' = output
  PROVE  WorkInv'
<1>0. Boot \in Core /\ NoCore \notin Core
  BY KernelAssumption DEF KernelAssumption
<1>1. \A d \in Core : pc'[d] = IF d = Boot THEN p ELSE pc[d]
  BY DEF TypeOK
<1>2. \A d \in Core : pc[d] \notin Holding /\ pc[d] \notin Counted
                        /\ pc'[d] \notin Holding /\ pc'[d] \notin Counted
  BY <1>1, NobodyWorks, WorkPlaces, PlacesApart
<1>3. Past(Counted) = {} /\ Past(Counted)' = {}
  BY <1>2 DEF Past
<1>4. p \notin Uncleared => Owns' /\ counter' = Cardinality(Past(Counted))'
  <2>1. Cardinality({}) = 0
    BY FS_EmptySet
  <2>2. CASE pc[Boot] \notin Uncleared /\ UNCHANGED <<critical, counter>>
    BY <1>2, <1>3, <2>2 DEF WorkInv, Owns
  <2>3. CASE critical' = NoCore /\ counter' = 0
    BY <1>0, <1>2, <1>3, <2>1, <2>3 DEF Owns
  <2> QED
    BY <2>2, <2>3
<1>5. p \notin BeforeHeap => Printed' /\ Abreast'
  <2>1. p \notin BeforeHeap => Printed /\ Abreast /\ UNCHANGED <<critical, counter>>
    BY WorkPlaces DEF WorkInv
  <2> QED
    BY <1>2, <2>1 DEF Printed, RangeLine, Abreast
<1>6. Fresh'
  BY <1>2, WorkPlaces DEF Fresh
<1>7. pc'[Boot] = p
  BY <1>0, <1>1
<1> QED
  BY <1>4, <1>5, <1>6, <1>7 DEF WorkInv

\* Two lines more, or none, and one core more or none are counted.
LEMMA CountedMore ==
  ASSUME IsFiniteSet(Core), TypeOK, NEW c \in Core, NEW p, pc' = [pc EXCEPT ![c] = p]
  PROVE  /\ (p \in Counted <=> pc[c] \in Counted) => Past(Counted)' = Past(Counted)
         /\ p \in Counted /\ pc[c] \notin Counted =>
              Cardinality(Past(Counted))' = Cardinality(Past(Counted)) + 1
<1>1. \A d \in Core : pc'[d] = IF d = c THEN p ELSE pc[d]
  BY DEF TypeOK
<1>2. (p \in Counted <=> pc[c] \in Counted) => Past(Counted)' = Past(Counted)
  BY <1>1 DEF Past
<1>3. ASSUME p \in Counted, pc[c] \notin Counted
      PROVE  Cardinality(Past(Counted))' = Cardinality(Past(Counted)) + 1
  <2>1. Past(Counted)' = Past(Counted) \union {c} /\ c \notin Past(Counted)
    BY <1>1, <1>3 DEF Past
  <2>2. IsFiniteSet(Past(Counted))
    BY FS_Subset DEF Past
  <2> QED
    BY <2>1, <2>2, FS_AddElement
<1> QED
  BY <1>2, <1>3

\* Every step keeps the output in order.
LEMMA StepKeepsWork ==
  ASSUME IsFiniteSet(Core), KernelInv, WorkInv, [Next]_vars
  PROVE  WorkInv'
<1> USE DEF boot, park, work, barriers, locks, Goto, Needs
<1>a. TypeOK /\ BringUp /\ Boot \in Core /\ NoCore \notin Core
  BY KernelAssumption DEF KernelAssumption, KernelInv
<1>b. counter \in Nat /\ output \in Seq(Lines) /\ pc \in [Core -> Step]
      /\ line \in [Core -> {"hello", "goodbye"}] /\ seen \in [Core -> Nat]
  BY <1>a DEF TypeOK
<1>c. ASSUME UNCHANGED <<pc, critical, counter, line, seen, output>>
      PROVE  WorkInv'
  BY <1>c DEF WorkInv, Owns, Past, Printed, RangeLine, Abreast, Ahead, Fresh
<1>1. CASE UNCHANGED vars \/ Halted \/ \E c \in Secondary : StoreLands(c)
  BY <1>1, <1>c DEF vars, Halted, StoreLands
<1>2. CASE Master \/ SetStack \/ PickBootStack \/ InitConsole \/ SetupPageTable
           \/ NewStarting \/ NewStopping \/ SmpInitDone \/ WriteSpinTable
  <2>1. PICK p \in {"el1 entry", "pick stack", "console", "tables", "heap", "new stopping", "smp",
                    "table", "sev"} :
          /\ pc[Boot] \in {"_start", "set stack", "pick stack", "console", "tables",
                           "new starting", "new stopping", "smp", "table"}
          /\ p = "el1 entry" <=> pc[Boot] = "_start"
          /\ p \in {"pick stack", "console", "tables", "heap"} <=>
               pc[Boot] \in {"set stack", "pick stack", "console", "tables"}
          /\ pc' = [pc EXCEPT ![Boot] = p]
          /\ UNCHANGED <<critical, counter, output>>
    BY <1>2 DEF Master, SetStack, PickBootStack, InitConsole, SetupPageTable, NewStarting,
                NewStopping, SmpInitDone, WriteSpinTable
  <2>2. /\ pc[Boot] \in BeforeWake /\ p \in BootOnly
        /\ p \in BeforeHeap <=> pc[Boot] \in BeforeHeap
        /\ p \notin Uncleared => pc[Boot] \notin Uncleared
    BY <2>1 DEF BootOnly, BeforeWake, BeforeSmp, BeforeStopping, BeforeStarting, BeforeTables,
                BeforeConsole, BeforeHeap, Uncleared
  <2> QED
    BY <1>a, <2>1, <2>2, BuildStep
<1>3. CASE ClearBss
  <2>1. /\ pc[Boot] = "el1 entry" /\ pc' = [pc EXCEPT ![Boot] = "set stack"]
        /\ critical' = NoCore /\ counter' = 0 /\ output' = output
    BY <1>3 DEF ClearBss
  <2>2. /\ pc[Boot] \in BeforeWake /\ "set stack" \in BootOnly
        /\ pc[Boot] \in BeforeHeap /\ "set stack" \in BeforeHeap
    BY <2>1 DEF BootOnly, BeforeWake, BeforeSmp, BeforeStopping, BeforeStarting, BeforeTables,
                BeforeConsole, BeforeHeap
  <2> QED
    BY <1>a, <2>1, <2>2, BuildStep
<1>4. CASE HeapInit
  <2>1. /\ pc[Boot] = "heap" /\ console = TRUE
        /\ pc' = [pc EXCEPT ![Boot] = "new starting"]
        /\ output' = Append(output, RangeLine)
        /\ UNCHANGED <<critical, counter>>
    BY <1>4, <1>a DEF HeapInit, BringUp, Built, BeforeConsole
  <2>2. /\ pc[Boot] \in BeforeWake /\ pc[Boot] \in BeforeHeap /\ pc[Boot] \notin Uncleared
        /\ "new starting" \notin Holding \union Counted \union BeforeHeap
    BY <2>1 DEF BeforeWake, BeforeSmp, BeforeStopping, BeforeStarting, BeforeTables,
                BeforeConsole, BeforeHeap, Uncleared, Holding, Counted
  <2>3. \A d \in Core : pc[d] \notin Holding /\ pc[d] \notin Counted
                          /\ pc'[d] \notin Holding /\ pc'[d] \notin Counted
    BY <1>a, <1>b, <2>1, <2>2, NobodyWorks
  <2>4. Past(Counted) = {} /\ Past(Counted)' = {} /\ Cardinality({}) = 0
    BY <2>3, FS_EmptySet DEF Past
  <2>5. Owns' /\ counter' = Cardinality(Past(Counted))' /\ counter' = 0
    BY <2>1, <2>2, <2>3, <2>4 DEF WorkInv, Owns
  <2>6. output' = <<RangeLine>>
    <3> DEFINE first == RangeLine
    <3>1. output = <<>> /\ output' = Append(output, first)
      BY <2>1, <2>2 DEF WorkInv
    <3> HIDE DEF first
    <3>2. output' = <<first>>
      BY <3>1
    <3> QED
      BY <3>2 DEF first
  <2>7. Printed' /\ Abreast'
    BY <2>3, <2>5, <2>6 DEF Printed, RangeLine, Abreast
  <2>8. Fresh'
    BY <2>3, WorkPlaces DEF Fresh
  <2>9. pc'[Boot] = "new starting"
    BY <1>a, <1>b, <2>1
  <2> QED
    BY <2>2, <2>5, <2>7, <2>8, <2>9 DEF WorkInv
<1>5. ASSUME NEW c \in Core,
             \/ SendEvent /\ c = Boot
             \/ Wake(c) \/ WakeEarly(c) \/ CheckSlot(c) \/ SecondaryEntry(c) \/ EnterEL1(c)
             \/ EnableMMU(c) \/ ArriveStarting(c) \/ LeaveStarting(c)
             \/ ArriveStopping(c) \/ LeaveStopping(c)
      PROVE  WorkInv'
  <2>1. PICK p \in {"check", "parked", "el2", "el1", "mmu", "start", "starting", "critical",
                    "stopping", "hang", "fault"} :
          /\ pc[c] \in {"sev", "parked", "check", "el2", "el1", "mmu", "start", "starting",
                        "stop", "stopping"}
          /\ p \in {"stopping", "hang", "fault"} => pc[c] \in {"mmu", "start", "stop", "stopping"}
          /\ p \in {"stopping", "hang"} <=> pc[c] \in {"stop", "stopping"} /\ p # "fault"
          /\ pc' = [pc EXCEPT ![c] = p]
          /\ UNCHANGED <<critical, counter, line, seen, output>>
    BY <1>5 DEF SendEvent, Wake, WakeEarly, CheckSlot, SecondaryEntry, EnterEL1, EnableMMU,
                ArriveStarting, LeaveStarting, ArriveStopping, LeaveStopping
  <2>2. p # "fault"
    <3>1. BringUp' /\ TypeOK'
      BY <1>a, StepKeepsOrder, StepKeepsTypes
    <3> QED
      BY <1>b, <2>1, <3>1 DEF BringUp, NoCoreFaults
  <2>3. /\ pc[c] \notin BeforeHeap \union Holding /\ p \notin BeforeHeap \union Holding
        /\ p \in Counted <=> pc[c] \in Counted
    BY <2>1, <2>2 DEF BeforeHeap, BeforeTables, BeforeConsole, Holding, Counted
  <2> QED
    BY <1>a, <2>1, <2>3, OutsideStep
<1>6. ASSUME NEW c \in Core, EnterCritical(c) PROVE WorkInv'
  <2>1. /\ pc[c] = "critical" /\ pc' = [pc EXCEPT ![c] = "read"]
        /\ critical = NoCore /\ critical' = c
        /\ line' = [line EXCEPT ![c] = "hello"]
        /\ UNCHANGED <<counter, seen, output>>
    BY <1>6 DEF EnterCritical, CriticalLock!Acquire
  <2>2. \A d \in Core : pc'[d] = IF d = c THEN "read" ELSE pc[d]
    BY <1>b, <2>1
  <2>3. /\ pc[c] \in Translated /\ pc[c] \notin BeforeHeap /\ "read" \notin BeforeHeap
        /\ pc[c] \notin Holding \union Counted /\ "read" \in Holding /\ "read" \notin Counted
    BY <2>1 DEF BeforeHeap, BeforeTables, BeforeConsole, Translated, Holding, Counted
  <2>4. pc[Boot] \notin BeforeHeap /\ pc[Boot] \notin Uncleared
    BY <1>a, <2>3, BuiltBeforeTranslated, WorkPlaces
  <2>5. \A d \in Core : pc[d] \notin Holding
    BY <1>a, <2>1, <2>4 DEF WorkInv, Owns
  <2>6. Owns'
    BY <2>1, <2>2, <2>3, <2>5 DEF Owns
  <2>7. Past(Counted)' = Past(Counted)
    BY <1>a, <2>1, <2>3, CountedMore
  <2>8. Printed' /\ Len(output) = 1 + 2 * counter
    BY <2>1, <2>4 DEF WorkInv, Printed, RangeLine, Abreast
  <2>9. Ahead(c)' = 0
    BY <1>b, <2>1, <2>2 DEF Ahead
  <2>10. Abreast'
    BY <1>a, <1>b, <2>1, <2>2, <2>5, <2>8, <2>9 DEF Abreast
  <2>11. Fresh'
    BY <2>1, <2>2 DEF WorkInv, Fresh
  <2>12. pc'[Boot] \notin BeforeHeap /\ pc'[Boot] \notin Uncleared
    BY <1>a, <2>1, <2>3, <2>4, BootStays
  <2> QED
    BY <2>1, <2>4, <2>6, <2>7, <2>8, <2>10, <2>11, <2>12 DEF WorkInv
<1>d. ASSUME NEW c \in Core, pc[c] \in Holding
      PROVE  /\ Printed /\ Len(output) = 1 + 2 * counter + Ahead(c)
             /\ counter = Cardinality(Past(Counted)) /\ Owns /\ critical = c
             /\ pc[c] \in {"printf", "put", "store"} => seen[c] = counter
             /\ pc[Boot] \notin BeforeHeap /\ pc[Boot] \notin Uncleared
  <2>1. pc[Boot] \notin BeforeHeap /\ pc[Boot] \notin Uncleared
    BY <1>a, <1>d, BuiltBeforeTranslated, WorkPlaces
  <2> QED
    BY <1>d, <2>1 DEF WorkInv, Abreast, Fresh, Owns
<1>7. ASSUME NEW c \in Core, ReadArgument(c) \/ EnterPrintf(c) \/ LoadCounter(c)
      PROVE  WorkInv'
  <2>1. PICK p \in {"printf", "put", "store"} :
          /\ pc[c] \in {"read", "printf", "load"} /\ (pc[c] = "load" <=> p = "store")
          /\ pc' = [pc EXCEPT ![c] = p]
          /\ UNCHANGED <<critical, counter, line, output>>
          /\ seen'[c] = IF p = "put" THEN seen[c] ELSE counter
          /\ p = "put" => pc[c] = "printf"
    BY <1>7, <1>b DEF ReadArgument, EnterPrintf, LoadCounter
  <2>2. pc[c] \in Holding \ Counted /\ p \in Holding \ Counted
    BY <2>1 DEF Holding, Counted
  <2>3. pc'[c] = p
    BY <1>b, <2>1
  <2>4. Ahead(c)' = Ahead(c)
    BY <2>1, <2>3 DEF Ahead
  <2>5. counter' = Cardinality(Past(Counted))'
    BY <1>a, <1>d, <2>1, <2>2, CountedMore
  <2>6. Printed' /\ Len(output') = 1 + 2 * counter' + Ahead(c)'
    BY <1>d, <2>1, <2>2, <2>4 DEF Printed, RangeLine
  <2>7. seen'[c] = counter'
    BY <1>d, <2>1, <2>2
  <2> QED
    BY <1>a, <2>1, <2>2, <2>5, <2>6, <2>7, InsideStep
<1>8. ASSUME NEW c \in Core, Put(c) PROVE WorkInv'
  <2>1. pc[c] = "put" /\ pc[c] \in Holding \ Counted /\ "unlock" \in Holding \ Counted
        /\ pc[c] \in Translated
    BY <1>8 DEF Put, Holding, Counted, Translated
  <2>2. console = TRUE
    <3>1. pc[Boot] \notin BeforeConsole
      BY <1>a, <2>1, BuiltBeforeTranslated, PlacesApart
    <3> QED
      BY <1>a, <3>1 DEF BringUp, Built
  <2>3. /\ pc' = [pc EXCEPT ![c] = "unlock"]
        /\ output' = Append(output, <<line[c], seen[c]>>)
        /\ UNCHANGED <<critical, counter, line, seen>>
    BY <1>8, <2>2 DEF Put
  <2>4. pc'[c] = "unlock"
    BY <1>b, <2>3
  <2>5. seen[c] = counter /\ Printed /\ Len(output) = 1 + 2 * counter + Ahead(c)
    BY <1>d, <2>1
  <2>6. counter' = Cardinality(Past(Counted))'
    BY <1>a, <1>d, <2>1, <2>3, CountedMore
  <2>7. /\ Ahead(c) = IF line[c] = "hello" THEN 0 ELSE 1
        /\ Ahead(c)' = IF line[c] = "hello" THEN 1 ELSE 2
    BY <2>1, <2>3, <2>4 DEF Ahead
  <2>8. <<line[c], seen[c]>> = Greeting(Len(output))
    <3>1. CASE line[c] = "hello"
      BY <1>b, <2>5, <2>7, <3>1, GreetingsOf
    <3>2. CASE line[c] = "goodbye"
      BY <1>b, <2>5, <2>7, <3>2, GreetingsOf
    <3> QED
      BY <1>b, <3>1, <3>2
  <2>9. /\ Len(output') = Len(output) + 1 /\ Len(output) \in Nat \ {0}
        /\ output' # <<>> /\ output'[1] = output[1]
        /\ \A i \in 1 .. Len(output) : output'[i] = output[i]
        /\ output'[Len(output) + 1] = <<line[c], seen[c]>>
    <3>1. <<line[c], seen[c]>> \in Lines
      BY <1>b DEF Lines
    <3>2. output # <<>>
      BY <2>5 DEF Printed
    <3> HIDE DEF Lines
    <3> DEFINE new == <<line[c], seen[c]>>
    <3>3. output' = Append(output, new) /\ new \in Lines
      BY <2>3, <3>1
    <3> HIDE DEF new
    <3>4. Len(output') = Len(output) + 1 /\ Len(output) \in Nat \ {0}
      BY <1>b, <3>2, <3>3
    <3>5. \A i \in 1 .. Len(output) + 1 :
            output'[i] = IF i = Len(output) + 1 THEN new ELSE output[i]
      BY <1>b, <3>3
    <3>6. 1 \in 1 .. Len(output) /\ output' # <<>>
      BY <3>3, <3>4
    <3> QED
      BY <3>4, <3>5, <3>6 DEF new
  <2>10. Printed'
    <3>1. output'[1] = RangeLine /\ RangeLine' = RangeLine
      BY <2>5, <2>9 DEF Printed, RangeLine
    <3>2. ASSUME NEW i \in 2 .. Len(output') PROVE output'[i] = Greeting(i - 1)
      <4>1. CASE i = Len(output) + 1
        BY <2>8, <2>9, <4>1
      <4>2. CASE i # Len(output) + 1
        <5>1. i \in 2 .. Len(output) /\ i \in 1 .. Len(output)
          BY <2>9, <4>2
        <5> QED
          BY <2>5, <2>9, <5>1 DEF Printed
      <4> QED
        BY <4>1, <4>2
    <3> QED
      BY <2>9, <3>1, <3>2 DEF Printed
  <2>11. Len(output') = 1 + 2 * counter' + Ahead(c)'
    BY <1>b, <2>3, <2>5, <2>7, <2>9
  <2> QED
    BY <1>a, <2>1, <2>3, <2>6, <2>10, <2>11, InsideStep
<1>9. ASSUME NEW c \in Core, LeavePrintf(c) PROVE WorkInv'
  <2>1. PICK p \in {"read", "load"} :
          /\ pc[c] = "unlock" /\ p = (IF line[c] = "hello" THEN "read" ELSE "load")
          /\ pc' = [pc EXCEPT ![c] = p]
          /\ line' = [line EXCEPT ![c] = "goodbye"]
          /\ UNCHANGED <<critical, counter, seen, output>>
    BY <1>9 DEF LeavePrintf
  <2>2. pc[c] \in Holding \ Counted /\ p \in Holding \ Counted
    BY <2>1 DEF Holding, Counted
  <2>3. pc'[c] = p /\ line'[c] = "goodbye" /\ \A d \in Core : d # c => line'[d] = line[d]
    BY <1>b, <2>1
  <2>4. Ahead(c)' = Ahead(c)
    BY <2>1, <2>3 DEF Ahead
  <2>5. counter' = Cardinality(Past(Counted))'
    BY <1>a, <1>d, <2>1, <2>2, CountedMore
  <2>6. Printed' /\ Len(output') = 1 + 2 * counter' + Ahead(c)'
    BY <1>d, <2>1, <2>2, <2>4 DEF Printed, RangeLine
  <2> QED
    BY <1>a, <2>1, <2>2, <2>3, <2>5, <2>6, InsideStep
<1>10. ASSUME NEW c \in Core, StoreCounter(c) PROVE WorkInv'
  <2>1. /\ pc[c] = "store" /\ pc' = [pc EXCEPT ![c] = "leave"]
        /\ counter' = seen[c] + 1
        /\ UNCHANGED <<critical, line, seen, output>>
    BY <1>10 DEF StoreCounter
  <2>2. pc[c] \in Holding \ Counted /\ "leave" \in Holding \intersect Counted
    BY <2>1 DEF Holding, Counted
  <2>3. pc'[c] = "leave" /\ counter' = counter + 1
    BY <1>b, <1>d, <2>1, <2>2
  <2>4. Ahead(c) = 2 /\ Ahead(c)' = 0
    BY <2>1, <2>3 DEF Ahead
  <2>5. counter' = Cardinality(Past(Counted))'
    BY <1>a, <1>d, <2>1, <2>2, <2>3, CountedMore
  <2>6. Printed' /\ Len(output') = 1 + 2 * counter' + Ahead(c)'
    <3>1. Printed'
      BY <1>d, <2>1, <2>2 DEF Printed, RangeLine
    <3>2. Len(output) = 1 + 2 * counter + 2
      BY <1>d, <2>2, <2>4
    <3>3. 1 + 2 * counter' + Ahead(c)' = 1 + 2 * counter + 2
      BY <1>b, <2>3, <2>4
    <3> QED
      BY <2>1, <3>1, <3>2, <3>3
  <2> QED
    BY <1>a, <2>1, <2>2, <2>5, <2>6, InsideStep
<1>11. ASSUME NEW c \in Core, LeaveCritical(c) PROVE WorkInv'
  <2>1. /\ pc[c] = "leave" /\ pc' = [pc EXCEPT ![c] = "stop"]
        /\ critical' = NoCore
        /\ UNCHANGED <<counter, line, seen, output>>
    BY <1>11 DEF LeaveCritical, CriticalLock!Release
  <2>2. /\ pc[c] \in Holding \intersect Counted /\ "stop" \in Counted \ Holding
        /\ pc[c] \notin BeforeHeap /\ "stop" \notin BeforeHeap
    BY <2>1 DEF Holding, Counted, BeforeHeap, BeforeTables, BeforeConsole
  <2>3. \A d \in Core : pc'[d] = IF d = c THEN "stop" ELSE pc[d]
    BY <1>b, <2>1
  <2>4. Ahead(c) = 0
    BY <2>1 DEF Ahead
  <2>5. \A d \in Core : pc'[d] \notin Holding
    BY <1>d, <2>2, <2>3 DEF Owns
  <2>6. Owns' /\ counter' = Cardinality(Past(Counted))'
    BY <1>a, <1>d, <2>1, <2>2, <2>5, CountedMore DEF Owns
  <2>7. Printed' /\ Abreast'
    BY <1>b, <1>d, <2>1, <2>2, <2>4, <2>5 DEF Printed, RangeLine, Abreast
  <2>8. Fresh'
    BY <2>5, WorkPlaces DEF Fresh
  <2>9. pc'[Boot] \notin BeforeHeap /\ pc'[Boot] \notin Uncleared
    BY <1>a, <1>d, <2>1, <2>2, BootStays
  <2> QED
    BY <2>6, <2>7, <2>8, <2>9 DEF WorkInv
<1> QED
  BY <1>a, <1>1, <1>2, <1>3, <1>4, <1>5, <1>6, <1>7, <1>8, <1>9, <1>10, <1>11
     DEF Next, BootSteps, Run, Secondary

\* Printed and Abreast bound the output by the lines of the test.
LEMMA WorkIsInOrder ==
  ASSUME IsFiniteSet(Core), KernelInv, WorkInv
  PROVE  OutputInOrder
<1> DEFINE all == <<RangeLine>> \o Greetings
           N == Cardinality(Core)
           length == Len(output)
<1>1. N \in Nat /\ TypeOK /\ BringUp /\ Boot \in Core /\ NoCore \notin Core
  BY FS_CardinalityType, KernelAssumption DEF KernelAssumption, KernelInv
<1>2. /\ Greetings \in Seq(Lines) /\ Len(Greetings) = 2 * N
      /\ \A i \in 1 .. 2 * N : Greetings[i] = Greeting(i)
  <2>1. \A i \in 1 .. 2 * N : Greeting(i) \in Lines
    <3>1. \A i \in 1 .. 2 * N : (i - 1) \div 2 \in Nat
      BY <1>1
    <3> QED
      BY <3>1 DEF Greeting, Lines
  <2>2. Greetings = [i \in 1 .. 2 * N |-> Greeting(i)]
    BY DEF Greetings, Greeting
  <2> HIDE DEF N, Lines, Greeting, Greetings
  <2>3. 2 * N \in Nat
    BY <1>1
  <2> QED
    BY <2>1, <2>2, <2>3
<1>3. /\ all \in Seq(Lines) /\ Len(all) = 1 + 2 * N /\ all[1] = RangeLine
      /\ \A i \in 2 .. 1 + 2 * N : all[i] = Greeting(i - 1)
  <2>1. RangeLine \in Lines
    BY DEF Lines
  <2> DEFINE first == <<RangeLine>>
  <2>2. first \in Seq(Lines) /\ Len(first) = 1 /\ first[1] = RangeLine
    BY <2>1
  <2> HIDE DEF N, Lines, Greeting, Greetings, RangeLine, first
  <2>3. /\ all \in Seq(Lines) /\ Len(all) = Len(first) + Len(Greetings)
        /\ \A i \in 1 .. Len(first) + Len(Greetings) :
             all[i] = IF i <= Len(first) THEN first[i] ELSE Greetings[i - Len(first)]
    <3>1. Greetings \in Seq(Lines)
      BY <1>2
    <3>2. all = first \o Greetings
      BY DEF first
    <3> HIDE DEF all
    <3> QED
      BY <2>2, <3>1, <3>2, ConcatProperties, Zenon
  <2> HIDE DEF all
  <2>4. Len(first) + Len(Greetings) = 1 + 2 * N
    BY <1>1, <1>2, <2>2
  <2>5. \A i \in 1 .. 1 + 2 * N : all[i] = IF i <= 1 THEN first[i] ELSE Greetings[i - 1]
    BY <2>2, <2>3, <2>4
  <2>6. \A i \in 2 .. 1 + 2 * N : i - 1 \in 1 .. 2 * N /\ ~(i <= 1) /\ i \in 1 .. 1 + 2 * N
    BY <1>1
  <2>7. \A i \in 2 .. 1 + 2 * N : all[i] = Greeting(i - 1)
    BY <1>2, <2>5, <2>6
  <2>8. all[1] = RangeLine
    BY <1>1, <2>2, <2>5
  <2> QED
    BY <2>3, <2>4, <2>7, <2>8
<1>4. output \in Seq(Lines) /\ length \in Nat /\ counter \in Nat
  BY <1>1 DEF TypeOK
<1>5. length <= 1 + 2 * N
  <2>1. CASE pc[Boot] \in BeforeHeap
    BY <1>1, <2>1 DEF WorkInv
  <2>2. CASE pc[Boot] \notin BeforeHeap
    <3> DEFINE gone == Past(Counted)
    <3>1. Abreast /\ Owns /\ counter = Cardinality(gone)
      BY <2>2, WorkPlaces DEF WorkInv
    <3>2. gone \subseteq Core
      BY DEF Past
    <3>3. counter <= N
      BY <3>1, <3>2, FS_Subset
    <3>4. CASE critical = NoCore
      BY <1>1, <1>4, <3>1, <3>3, <3>4 DEF Abreast
    <3>5. CASE critical # NoCore
      <4>1. PICK c \in Core : pc[c] \in Holding
        BY <1>1, <3>1, <3>5 DEF Owns, TypeOK
      <4>2. length = 1 + 2 * counter + Ahead(c)
        BY <3>1, <4>1 DEF Abreast
      <4>3. CASE pc[c] = "leave"
        <5>1. Ahead(c) = 0
          BY <4>3 DEF Ahead
        <5> QED
          BY <1>1, <1>4, <3>3, <4>2, <5>1
      <4>4. CASE pc[c] # "leave"
        <5>1. Ahead(c) \in 0 .. 2
          BY DEF Ahead
        <5>2. c \notin gone /\ gone \subseteq Core \ {c}
          BY <3>2, <4>1, <4>4 DEF Past, Holding, Counted
        <5>3. IsFiniteSet(Core \ {c}) /\ Cardinality(Core \ {c}) = N - 1
          BY FS_RemoveElement
        <5>4. counter <= N - 1
          <6> HIDE DEF gone
          <6> QED
            BY <3>1, <5>2, <5>3, FS_Subset
        <5> QED
          BY <1>1, <1>4, <4>2, <5>1, <5>4
      <4> QED
        BY <4>3, <4>4
    <3> QED
      BY <3>4, <3>5
  <2> QED
    BY <2>1, <2>2
<1>6. \A i \in 1 .. length : output[i] = all[i]
  <2>1. CASE length = 0
    BY <2>1
  <2>2. CASE length # 0
    <3>1. Printed
      <4>1. output # <<>>
        BY <2>2
      <4> QED
        BY <4>1 DEF WorkInv
    <3>2. \A i \in 1 .. length : i = 1 \/ i \in 2 .. length
      BY <1>4
    <3>3. \A i \in 2 .. length : i \in 2 .. 1 + 2 * N
      BY <1>1, <1>4, <1>5
    <3> HIDE DEF all
    <3> QED
      BY <1>3, <3>1, <3>2, <3>3 DEF Printed
  <2> QED
    BY <2>1, <2>2
<1>7. SubSeq(output, 1, length) = SubSeq(all, 1, length)
  <2> HIDE DEF all, N, Lines
  <2>1. SubSeq(output, 1, length) = [i \in 1 .. length |-> output[i]]
    BY <1>4
  <2>2. SubSeq(all, 1, length) = [i \in 1 .. length |-> all[i]]
    BY <1>1, <1>3, <1>4, <1>5
  <2> QED
    BY <1>6, <2>1, <2>2
<1> QED
  BY <1>3, <1>5, <1>7 DEF OutputInOrder, IsPrefix

\* The console never shows anything but a beginning of heapInit's line and the
\* test's lines in their order, for any finite number of cores
\* (tests/t0.cpp:7-17, critical.h:13-30, heap.cpp:127).
THEOREM LinesComeInOrder ==
  ASSUME IsFiniteSet(Core)
  PROVE  Spec => []OutputInOrder
<1>1. Init => WorkInv
  BY KernelAssumption
     DEF KernelAssumption, Init, WorkInv, Uncleared, BeforeHeap, BeforeTables, BeforeConsole, Fresh
<1>2. KernelInv /\ WorkInv /\ [Next]_vars => WorkInv'
  BY StepKeepsWork
<1>3. KernelInv /\ WorkInv => OutputInOrder
  BY WorkIsInOrder
<1> QED
  BY <1>1, <1>2, <1>3, KernelInvariant, PTL DEF Spec
=============================================================================
