---------------------------- MODULE BarrierProof ----------------------------
(***************************************************************************)
(* Barrier lets nobody through early and implements Rendezvous, for every  *)
(* finite set of cores and every counter wide enough for them.             *)
(***************************************************************************)
EXTENDS Barrier, FiniteSetTheorems, TLAPS

\* An armed monitor means nobody stored since the load, so what was loaded
\* is still the counter.
MonitorsAreFresh == \A c \in reserved : pc[c] = "store" => seen[c] = counter

\* The count is inductive only with the monitors: a store-exclusive writes
\* what its core loaded.
BarrierInv ==
  TypeOK /\ MonitorsAreFresh /\ CounterCountsMissing /\ NobodyLeavesEarly

\* The cores still to come are a finite set, one smaller after an arrival.
LEMMA MissingAfterArrival ==
  ASSUME NEW S \in SUBSET Core, NEW c \in S
  PROVE  /\ Cardinality(S) \in Nat \ {0}
         /\ Cardinality(S \ {c}) = Cardinality(S) - 1
         /\ Cardinality(S) <= Parties
<1>1. IsFiniteSet(S) /\ Cardinality(S) <= Parties
  BY FS_Subset, BarrierAssumption
<1>2. Cardinality(S) \in Nat
  BY <1>1, FS_CardinalityType
<1>3. Cardinality(S \ {c}) = Cardinality(S) - 1
  BY <1>1, FS_RemoveElement
<1>4. Cardinality(S) # 0
  BY <1>1, FS_EmptySet
<1> QED
  BY <1>1, <1>2, <1>3, <1>4

\* A zero count means that nobody is missing.
LEMMA ZeroMeansAll ==
  ASSUME CounterCountsMissing, counter = 0
  PROVE  Arrived = Core
<1>1. IsFiniteSet(Core \ Arrived)
  BY FS_Subset, BarrierAssumption
<1>2. Core \ Arrived = {}
  BY <1>1, FS_EmptySet DEF CounterCountsMissing
<1> QED
  BY <1>2 DEF Arrived

LEMMA InitBarrierInv == Init => BarrierInv
<1> SUFFICES ASSUME Init PROVE BarrierInv
  OBVIOUS
<1>1. Parties \in Nat
  BY BarrierAssumption, FS_CardinalityType
<1>2. TypeOK
  BY <1>1, BarrierAssumption DEF Init, TypeOK, Step
<1>3. Core \ Arrived = Core /\ Through = {}
  BY DEF Init, Arrived, Through
<1> QED
  BY <1>2, <1>3, BarrierAssumption
     DEF Init, BarrierInv, MonitorsAreFresh, CounterCountsMissing,
         NobodyLeavesEarly

\* Every step keeps the barrier invariant.
LEMMA NextBarrierInv == BarrierInv /\ [Next]_vars => BarrierInv'
<1> SUFFICES ASSUME BarrierInv, [Next]_vars PROVE BarrierInv'
  OBVIOUS
<1> USE DEF BarrierInv
<1>a. ASSUME UNCHANGED <<counter, Arrived, Through>>
      PROVE  CounterCountsMissing' /\ NobodyLeavesEarly'
  BY <1>a DEF CounterCountsMissing, NobodyLeavesEarly
<1>u. CASE UNCHANGED vars
  BY <1>u DEF vars, TypeOK, MonitorsAreFresh, CounterCountsMissing,
              NobodyLeavesEarly, Arrived, Through
<1>1. ASSUME NEW c \in Core, Call(c) PROVE BarrierInv'
  <2>1. UNCHANGED <<counter, Arrived, Through>>
    BY <1>1 DEF Call, TypeOK, Arrived, Through
  <2>2. TypeOK' /\ MonitorsAreFresh'
    BY <1>1 DEF Call, TypeOK, Step, MonitorsAreFresh
  <2> QED
    BY <2>1, <2>2, <1>a
<1>2. ASSUME NEW c \in Core, LoadExclusive(c) PROVE BarrierInv'
  <2>1. UNCHANGED <<counter, Arrived, Through>>
    BY <1>2 DEF LoadExclusive, TypeOK, Arrived, Through
  <2>2. TypeOK' /\ MonitorsAreFresh'
    BY <1>2 DEF LoadExclusive, TypeOK, Step, MonitorsAreFresh
  <2> QED
    BY <2>1, <2>2, <1>a
<1>3. ASSUME NEW c \in Core, StoreExclusive(c) PROVE BarrierInv'
  <2> DEFINE missing == Core \ Arrived
  <2>1. c \in missing
    BY <1>3 DEF StoreExclusive, Arrived
  <2>2. Arrived' = Arrived \union {c} /\ Through' = Through
    BY <1>3 DEF StoreExclusive, Arrived, Through, TypeOK
  <2>3. missing' = missing \ {c}
    BY <2>2
  <2>4. seen[c] = counter
    BY <1>3 DEF StoreExclusive, MonitorsAreFresh
  <2>5. /\ counter = Cardinality(missing)
        /\ counter \in Nat \ {0}
        /\ Cardinality(missing') = counter - 1
    BY <2>1, <2>3, MissingAfterArrival DEF CounterCountsMissing
  <2>6. counter' = counter - 1
    BY <1>3, <2>4, <2>5 DEF StoreExclusive, Decrement
  <2>7. TypeOK'
    BY <1>3, <2>5, <2>6, BarrierAssumption DEF StoreExclusive, TypeOK, Step
  <2>8. MonitorsAreFresh'
    BY <1>3 DEF StoreExclusive, MonitorsAreFresh
  <2>9. CounterCountsMissing'
    BY <2>5, <2>6 DEF CounterCountsMissing
  <2>10. NobodyLeavesEarly'
    <3>1. Through = {}
      BY <2>1 DEF NobodyLeavesEarly
    <3> QED
      BY <2>2, <3>1 DEF NobodyLeavesEarly
  <2> QED
    BY <2>7, <2>8, <2>9, <2>10
<1>4. ASSUME NEW c \in Core, StoreFails(c) PROVE BarrierInv'
  <2>1. UNCHANGED <<counter, Arrived, Through>>
    BY <1>4 DEF StoreFails, TypeOK, Arrived, Through
  <2>2. TypeOK' /\ MonitorsAreFresh'
    BY <1>4 DEF StoreFails, TypeOK, Step, MonitorsAreFresh
  <2> QED
    BY <2>1, <2>2, <1>a
<1>5. ASSUME NEW c \in Core, LoseMonitor(c) PROVE BarrierInv'
  <2>1. UNCHANGED <<counter, Arrived, Through>>
    BY <1>5 DEF LoseMonitor, Arrived, Through
  <2>2. TypeOK' /\ MonitorsAreFresh'
    BY <1>5 DEF LoseMonitor, TypeOK, MonitorsAreFresh
  <2> QED
    BY <2>1, <2>2, <1>a
<1>6. ASSUME NEW c \in Core, Leave(c) PROVE BarrierInv'
  <2>1. Arrived = Core
    BY <1>6, ZeroMeansAll DEF Leave
  <2>2. Arrived' = Arrived
    BY <1>6 DEF Leave, TypeOK, Arrived
  <2>3. TypeOK' /\ MonitorsAreFresh'
    BY <1>6 DEF Leave, TypeOK, Step, MonitorsAreFresh
  <2>4. CounterCountsMissing'
    BY <1>6, <2>2 DEF Leave, CounterCountsMissing
  <2>5. NobodyLeavesEarly'
    BY <2>1, <2>2 DEF NobodyLeavesEarly
  <2> QED
    BY <2>3, <2>4, <2>5
<1> QED
  BY <1>u, <1>1, <1>2, <1>3, <1>4, <1>5, <1>6 DEF Next

LEMMA BarrierInvariant == Spec => []BarrierInv
<1> QED BY InitBarrierInv, NextBarrierInv, PTL DEF Spec

\* A core that has left sync() left it after every core had come.
THEOREM BarrierHolds == Spec => []NobodyLeavesEarly
<1>1. BarrierInv => NobodyLeavesEarly
  BY DEF BarrierInv
<1> QED BY BarrierInvariant, <1>1, PTL

\* The counter is always the number of cores still to come, although every
\* decrement is a separate load and store.
THEOREM CounterIsExact == Spec => []CounterCountsMissing
<1>1. BarrierInv => CounterCountsMissing
  BY DEF BarrierInv
<1> QED BY BarrierInvariant, <1>1, PTL

-----------------------------------------------------------------------------
\* Every step is an arrival, a departure, or invisible to the meeting.
LEMMA StepRefines ==
  BarrierInv /\ [Next]_vars => [Abstract!Next]_(Abstract!vars)
<1> SUFFICES ASSUME BarrierInv, [Next]_vars
             PROVE  [Abstract!Next]_(Abstract!vars)
  OBVIOUS
<1> USE DEF BarrierInv
<1>u. CASE UNCHANGED vars
  BY <1>u DEF vars, Abstract!vars, Arrived, Through
<1>1. ASSUME NEW c \in Core,
             Call(c) \/ LoadExclusive(c) \/ StoreFails(c) \/ LoseMonitor(c)
      PROVE  UNCHANGED Abstract!vars
  <2>1. \A d \in Core : /\ pc'[d] = "spin" <=> pc[d] = "spin"
                        /\ pc'[d] = "done" <=> pc[d] = "done"
    BY <1>1 DEF Call, LoadExclusive, StoreFails, LoseMonitor, TypeOK
  <2> QED
    BY <2>1 DEF Abstract!vars, Arrived, Through
<1>2. ASSUME NEW c \in Core, StoreExclusive(c) PROVE Abstract!Arrive(c)
  BY <1>2 DEF StoreExclusive, TypeOK, Abstract!Arrive, Arrived, Through
<1>3. ASSUME NEW c \in Core, Leave(c) PROVE Abstract!Depart(c)
  <2>1. Arrived = Core
    BY <1>3, ZeroMeansAll DEF Leave
  <2>2. c \notin Through
    BY <1>3 DEF Leave, Through
  <2>3. Through' = Through \union {c} /\ Arrived' = Arrived
    BY <1>3 DEF Leave, TypeOK, Arrived, Through
  <2> QED
    BY <2>1, <2>2, <2>3 DEF Abstract!Depart
<1> QED
  BY <1>u, <1>1, <1>2, <1>3 DEF Next, Abstract!Next

\* The counter stays a value of a uint32_t and every core in a place of sync()
\* (atomic.h:255-262).
THEOREM BarrierTypes == Spec => []TypeOK
<1>1. BarrierInv => TypeOK
  BY DEF BarrierInv
<1> QED
  BY <1>1, BarrierInvariant, PTL

\* The barrier implements the abstract meeting: kernel_init may rely on
\* Rendezvous.
THEOREM BarrierImplementsRendezvous == Spec => ImplementsRendezvous
<1>1. Init => Abstract!Init
  BY DEF Init, Abstract!Init, Arrived, Through
<1>2. BarrierInv /\ [Next]_vars => [Abstract!Next]_(Abstract!vars)
  BY StepRefines
<1> QED
  BY <1>1, <1>2, BarrierInvariant, PTL
     DEF Spec, ImplementsRendezvous, Abstract!Spec
=============================================================================
