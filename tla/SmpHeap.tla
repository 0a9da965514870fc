------------------------------ MODULE SmpHeap ------------------------------
(***************************************************************************)
(* malloc on several cores at once.  malloc is meant to run under theLock: *)
(*                                                                         *)
(*     if (coresAwoken) { LockGuardP g{theLock}; }                         *)
(*                                                                         *)
(* The guard's scope ends with the braces, before the search; and          *)
(* coresAwoken is `static' in a header (core.h), so kernel_init sets the   *)
(* copy of kernel.cpp while malloc reads the copy of heap.cpp.  Search and *)
(* split are two steps here: no two instructions of them are atomic.       *)
(***************************************************************************)
EXTENDS Heap

CONSTANTS Core, NoCore, MaxMallocs   \* MaxMallocs bounds the calls explored

VARIABLES pc,           \* where each core is in malloc
          wanted,       \* its `units'
          found,        \* its bestFitIndex
          minSize,      \* the size that block had when it was found
          owned,        \* the blocks malloc has returned to it
          calls,        \* the calls of malloc so far
          coresAwoken,  \* each translation unit's copy of the flag
          theLock       \* the core that holds *theLock, or NoCore

smpVars ==
  <<vars, pc, wanted, found, minSize, owned, calls, coresAwoken, theLock>>

LargestInt == IntModulus \div 2 - 1

SmpInit ==
  /\ Init
  /\ pc = [c \in Core |-> "out"]
  /\ wanted = [c \in Core |-> 0]
  /\ found = [c \in Core |-> 0]
  /\ minSize = [c \in Core |-> LargestInt]
  /\ owned = [c \in Core |-> {}]
  /\ calls = 0
  /\ coresAwoken = [kernel |-> FALSE, heap |-> FALSE]
  /\ theLock = NoCore

\* kernel_init, before it wakes the other cores.
AwakeCores ==
  /\ ~coresAwoken.kernel
  /\ coresAwoken' = [coresAwoken EXCEPT !.kernel = TRUE]
  /\ UNCHANGED <<vars, pc, wanted, found, minSize, owned, calls, theLock>>

Step(c, from, to) == pc[c] = from /\ pc' = [pc EXCEPT ![c] = to]

EnterMalloc(c, bytes) ==
  /\ coresAwoken.kernel
  /\ calls < MaxMallocs
  /\ Step(c, "out", IF coresAwoken.heap THEN "lock" ELSE "search")
  /\ wanted' = [wanted EXCEPT ![c] = Units(bytes)]
  /\ calls' = calls + 1
  /\ UNCHANGED <<vars, found, minSize, owned, coresAwoken, theLock>>

\* The guard is constructed ...
GuardLock(c) ==
  /\ Step(c, "lock", "unlock")
  /\ theLock = NoCore
  /\ theLock' = c
  /\ UNCHANGED <<vars, wanted, found, minSize, owned, calls, coresAwoken>>

\* ... and destroyed at the end of the if.
GuardUnlock(c) ==
  /\ Step(c, "unlock", "search")
  /\ theLock' = NoCore
  /\ UNCHANGED <<vars, wanted, found, minSize, owned, calls, coresAwoken>>

\* "block is not available in malloc"; panic() does not return.
SearchPanics(c) ==
  /\ MallocPanics(heap)
  /\ Step(c, "search", "panic")
  /\ UNCHANGED <<vars, wanted, found, minSize, owned, calls, coresAwoken, theLock>>

Search(c) ==
  /\ ~MallocPanics(heap)
  /\ LET best == BestFit(heap, wanted[c]) IN
     /\ found' = [found EXCEPT ![c] = best]
     /\ minSize' = [minSize EXCEPT ![c] = IF best = 0 THEN LargestInt ELSE Size(heap, best)]
     /\ Step(c, "search", IF best = 0 THEN "out" ELSE "take")
  /\ UNCHANGED <<vars, wanted, owned, calls, coresAwoken, theLock>>

TakeFound(c) ==
  /\ Step(c, "take", "out")
  /\ heap' = TakeSized(heap, found[c], minSize[c], wanted[c])
  /\ owned' = [owned EXCEPT ![c] = @ \union {found[c]}]
  /\ UNCHANGED <<live, panicked, wanted, found, minSize, calls, coresAwoken, theLock>>

SmpNext ==
  \/ AwakeCores
  \/ \E c \in Core :
       \/ \E bytes \in Requests : EnterMalloc(c, bytes)
       \/ GuardLock(c)
       \/ GuardUnlock(c)
       \/ SearchPanics(c)
       \/ Search(c)
       \/ TakeFound(c)

SmpSpec == SmpInit /\ [][SmpNext]_smpVars

-----------------------------------------------------------------------------
\* Once the cores are awake, malloc's atomic operations keep it from giving
\* one block to two cores (core.h:11, heap.cpp:152-155).
OneCorePerBlock ==
  \A c, d \in Core : c # d => owned[c] \intersect owned[d] = {}
=============================================================================
