------------------------------ MODULE Barrier ------------------------------
(***************************************************************************)
(* The kernel's Barrier (include/atomic.h), one object and one sync() per  *)
(* core, which is how kernel_init uses `starting' and `stopping':          *)
(*                                                                         *)
(*     counter.add_fetch(-1);                                              *)
(*     while (counter.get() != 0) iAmStuckInALoop(false);                  *)
(*                                                                         *)
(* add_fetch is __atomic_add_fetch, which the compiler makes a loop of a   *)
(* load-exclusive and a store-exclusive for this ARMv8.0 core; the two are *)
(* separate steps here.  The counter is a uint32_t: Modulus is 2^32.       *)
(***************************************************************************)
EXTENDS Naturals, FiniteSets

CONSTANTS Core,      \* the cores that call sync()
          Parties,   \* the number the Barrier is constructed with
          Modulus    \* the number of values of its counter

ASSUME BarrierAssumption ==
  /\ IsFiniteSet(Core)
  /\ Parties = Cardinality(Core)
  /\ Modulus \in Nat
  /\ Parties < Modulus

VARIABLES counter,    \* the Atomic<uint32_t>
          pc,         \* where each core is in sync()
          seen,       \* what its load-exclusive returned
          reserved    \* the cores whose exclusive monitor is still armed

vars == <<counter, pc, seen, reserved>>

Step == {"call", "load", "store", "spin", "done"}

TypeOK ==
  /\ counter \in 0 .. Modulus - 1
  /\ pc \in [Core -> Step]
  /\ seen \in [Core -> 0 .. Modulus - 1]
  /\ reserved \subseteq Core

Init ==
  /\ counter = Parties
  /\ pc = [c \in Core |-> "call"]
  /\ seen = [c \in Core |-> 0]
  /\ reserved = {}

\* Mistake: the counter goes up, and is not kept in 32 bits.
Increment(n) == n + 1

\* Adding -1 to a uint32_t.
Decrement(n) == IF n = 0 THEN Modulus - 1 ELSE n - 1

Call(c) ==
  /\ pc[c] = "call"
  /\ pc' = [pc EXCEPT ![c] = "load"]
  /\ UNCHANGED <<counter, seen, reserved>>

LoadExclusive(c) ==
  /\ pc[c] = "load"
  /\ pc' = [pc EXCEPT ![c] = "store"]
  /\ seen' = [seen EXCEPT ![c] = counter]
  /\ reserved' = reserved \union {c}
  /\ UNCHANGED counter

\* Mistake: an ordinary store, as for `counter = counter - 1'.
PlainStore(c) ==
  /\ pc[c] = "store"
  /\ pc' = [pc EXCEPT ![c] = "spin"]
  /\ counter' = Decrement(seen[c])
  /\ reserved' = {}
  /\ UNCHANGED seen

\* The store succeeds and disarms every monitor on the counter.
StoreExclusive(c) ==
  /\ pc[c] = "store"
  /\ c \in reserved
  /\ pc' = [pc EXCEPT ![c] = "spin"]
  /\ counter' = Decrement(seen[c])
  /\ reserved' = {}
  /\ UNCHANGED seen

\* Mistake: the result of the store-exclusive is not looked at.
StoreDropped(c) ==
  /\ pc[c] = "store"
  /\ c \notin reserved
  /\ pc' = [pc EXCEPT ![c] = "spin"]
  /\ UNCHANGED <<counter, seen, reserved>>

\* The monitor was lost since the load: the store fails and the loop retries.
StoreFails(c) ==
  /\ pc[c] = "store"
  /\ c \notin reserved
  /\ pc' = [pc EXCEPT ![c] = "load"]
  /\ UNCHANGED <<counter, seen, reserved>>

\* The processor may drop a monitor for reasons of its own.
LoseMonitor(c) ==
  /\ c \in reserved
  /\ reserved' = reserved \ {c}
  /\ UNCHANGED <<counter, pc, seen>>

\* Mistake: the last core but one opens the barrier.
LeaveAtOne(c) ==
  /\ pc[c] = "spin"
  /\ counter <= 1
  /\ pc' = [pc EXCEPT ![c] = "done"]
  /\ UNCHANGED <<counter, seen, reserved>>

\* A spinning core reads 0.  Reading anything else changes nothing.
Leave(c) ==
  /\ pc[c] = "spin"
  /\ counter = 0
  /\ pc' = [pc EXCEPT ![c] = "done"]
  /\ UNCHANGED <<counter, seen, reserved>>

Next ==
  \E c \in Core :
    \/ Call(c)
    \/ LoadExclusive(c)
    \/ StoreExclusive(c)
    \/ StoreFails(c)
    \/ LoseMonitor(c)
    \/ Leave(c)

Spec == Init /\ [][Next]_vars

(***************************************************************************)
(* The cores run.  A store-exclusive that is retried for ever succeeds at  *)
(* last, which is the forward progress the architecture gives such a loop. *)
(***************************************************************************)
FairSpec ==
  /\ Spec
  /\ \A c \in Core :
       /\ WF_vars(LoadExclusive(c))
       /\ SF_vars(StoreExclusive(c))
       /\ WF_vars(StoreFails(c))
       /\ WF_vars(Leave(c))

-----------------------------------------------------------------------------
Arrived == {c \in Core : pc[c] \in {"spin", "done"}}
Through == {c \in Core : pc[c] = "done"}

\* No core leaves sync() before every core has counted itself: after
\* starting->sync() the whole machine is up, after stopping->sync() no core
\* is still in kernelMain (kernel.cpp:300-302).
NobodyLeavesEarly == Through # {} => Arrived = Core

\* The counter is the number of cores still to come.  No decrement is lost
\* between a load-exclusive and its store-exclusive, and the counter never
\* wraps (atomic.h:55-57, 144-149).
CounterCountsMissing == counter = Cardinality(Core \ Arrived)

\* Once every core has called sync(), every core leaves it (atomic.h:146-148).
EveryoneLeaves == (\A c \in Core : pc[c] # "call") ~> (Through = Core)

Abstract == INSTANCE Rendezvous WITH arrived <- Arrived, departed <- Through

\* sync() is an arrival and a departure of the abstract meeting.
ImplementsRendezvous == Abstract!Spec
=============================================================================
