--------------------------- MODULE SpinLockProof ---------------------------
(***************************************************************************)
(* SpinLock gives mutual exclusion, keeps its byte in step with its        *)
(* holders and implements Mutex, for every set of cores and of locks and   *)
(* every nesting.                                                          *)
(***************************************************************************)
EXTENDS SpinLock, TLAPS

\* A single instruction sequence can change the lock byte and the holders;
\* neither fact is inductive alone: exclusion is kept because a clear byte
\* means no holder, and the byte is right because there is one holder.
LockInv == TypeOK /\ MutualExclusion /\ ByteIsTrue

\* What Store leaves behind, whichever core stores what to which lock.
LEMMA StoreEffect ==
  ASSUME TypeOK, NEW c \in Core, NEW l \in Lock, NEW value \in BOOLEAN,
         Store(c, l, value)
  PROVE  /\ taken' = [taken EXCEPT ![l] = value]
         /\ taken' \in [Lock -> BOOLEAN]
         /\ exclusive' \in [Core -> Lock \union {NoLock}]
         /\ event' \in [Core -> BOOLEAN]
  BY DEF TypeOK, Store

LEMMA InitLockInv == Init => LockInv
  BY DEF Init, LockInv, TypeOK, Step, MutualExclusion, ByteIsTrue

\* Every step keeps the lock invariant.
LEMMA NextLockInv == LockInv /\ [Next]_vars => LockInv'
<1> SUFFICES ASSUME LockInv, [Next]_vars PROVE LockInv'
  OBVIOUS
<1> USE LockAssumption
<1>u. CASE UNCHANGED vars
  BY <1>u DEF vars, LockInv, TypeOK, MutualExclusion, ByteIsTrue
<1>1. ASSUME NEW c \in Core, NEW l \in Lock, Call(c, l) PROVE LockInv'
  BY <1>1 DEF Call, LockInv, TypeOK, Step, MutualExclusion, ByteIsTrue
<1>2. ASSUME NEW c \in Core, Monitor(c) PROVE LockInv'
  BY <1>2 DEF Monitor, LockInv, TypeOK, Step, MutualExclusion, ByteIsTrue
<1>3. ASSUME NEW c \in Core, WakeOnEvent(c) \/ WakeEarly(c) PROVE LockInv'
  <2>1. /\ LeaveWfe(c)
        /\ UNCHANGED <<taken, target, held, exclusive>>
        /\ event' \in [Core -> BOOLEAN]
    BY <1>3 DEF WakeOnEvent, WakeEarly, LockInv, TypeOK
  <2>2. PICK s \in {"exchange", "monitor"} : pc' = [pc EXCEPT ![c] = s]
    BY <2>1 DEF LeaveWfe
  <2>3. pc[c] # "out"
    BY <2>1 DEF LeaveWfe
  <2>4. TypeOK'
    BY <2>1, <2>2, <2>3 DEF LockInv, TypeOK, Step
  <2> QED
    BY <2>1, <2>4 DEF LockInv, MutualExclusion, ByteIsTrue
<1>4. ASSUME NEW c \in Core, Exchange(c) PROVE LockInv'
  <2> DEFINE l == target[c]
  <2>1. l \in Lock /\ Store(c, l, TRUE)
    BY <1>4 DEF Exchange, LockInv, TypeOK
  <2>2. /\ taken' = [taken EXCEPT ![l] = TRUE]
        /\ taken' \in [Lock -> BOOLEAN]
        /\ exclusive' \in [Core -> Lock \union {NoLock}]
        /\ event' \in [Core -> BOOLEAN]
    BY <2>1, StoreEffect DEF LockInv
  <2>3. CASE ~taken[l]
    <3>1. \A d \in Core : l \notin held[d]
      BY <2>1, <2>3 DEF LockInv, ByteIsTrue
    <3>2. /\ pc' = [pc EXCEPT ![c] = "out"]
          /\ held' = [held EXCEPT ![c] = held[c] \union {l}]
          /\ target' = [target EXCEPT ![c] = NoLock]
      BY <1>4, <2>3 DEF Exchange
    <3>3. TypeOK'
      BY <2>1, <2>2, <3>2 DEF LockInv, TypeOK, Step
    <3>4. MutualExclusion'
      BY <3>1, <3>2 DEF LockInv, TypeOK, MutualExclusion
    <3>5. ByteIsTrue'
      BY <2>1, <2>2, <3>2 DEF LockInv, TypeOK, ByteIsTrue
    <3> QED
      BY <3>3, <3>4, <3>5 DEF LockInv
  <2>4. CASE taken[l]
    <3>1. /\ pc' = [pc EXCEPT ![c] = "stuck"]
          /\ UNCHANGED <<target, held>>
      BY <1>4, <2>4 DEF Exchange
    <3>2. taken' = taken
      BY <2>1, <2>2, <2>4 DEF LockInv, TypeOK
    <3>3. TypeOK'
      BY <1>4, <2>2, <3>1 DEF Exchange, LockInv, TypeOK, Step
    <3> QED
      BY <3>1, <3>2, <3>3 DEF LockInv, MutualExclusion, ByteIsTrue
  <2> QED
    BY <2>3, <2>4
<1>5. ASSUME NEW c \in Core, NEW l \in Lock, Unlock(c, l) PROVE LockInv'
  <2>1. /\ taken' = [taken EXCEPT ![l] = FALSE]
        /\ taken' \in [Lock -> BOOLEAN]
        /\ exclusive' \in [Core -> Lock \union {NoLock}]
        /\ event' \in [Core -> BOOLEAN]
    BY <1>5, StoreEffect DEF Unlock, LockInv
  <2>2. \A d \in Core : d # c => l \notin held[d]
    BY <1>5 DEF Unlock, LockInv, MutualExclusion
  <2>3. held' = [held EXCEPT ![c] = held[c] \ {l}] /\ UNCHANGED <<pc, target>>
    BY <1>5 DEF Unlock
  <2>4. TypeOK'
    BY <2>1, <2>3 DEF LockInv, TypeOK
  <2>5. MutualExclusion'
    BY <2>3 DEF LockInv, TypeOK, MutualExclusion
  <2>6. ByteIsTrue'
    BY <2>1, <2>2, <2>3 DEF LockInv, TypeOK, ByteIsTrue
  <2> QED
    BY <2>4, <2>5, <2>6 DEF LockInv
<1> QED
  BY <1>u, <1>1, <1>2, <1>3, <1>4, <1>5 DEF Next

LEMMA LockInvariant == Spec => []LockInv
<1> QED BY InitLockInv, NextLockInv, PTL DEF Spec

\* The state always has the shape TypeOK says; in particular a core has a
\* target lock exactly while it is inside lock().
THEOREM TypeCorrect == Spec => []TypeOK
<1>1. LockInv => TypeOK
  BY DEF LockInv
<1> QED BY LockInvariant, <1>1, PTL

\* No two cores are between lock() and unlock() of the same SpinLock.
THEOREM LockExcludes == Spec => []MutualExclusion
<1>1. LockInv => MutualExclusion
  BY DEF LockInv
<1> QED BY LockInvariant, <1>1, PTL

\* The byte of a SpinLock is set exactly while some core holds it.
THEOREM ByteTellsTheTruth == Spec => []ByteIsTrue
<1>1. LockInv => ByteIsTrue
  BY DEF LockInv
<1> QED BY LockInvariant, <1>1, PTL

-----------------------------------------------------------------------------
\* The owner the abstract lock sees is a core that holds Focus, if any does.
LEMMA OwnerHolds ==
  ASSUME LockInv
  PROVE  /\ \A c \in Core : Focus \in held[c] => Owner = c
         /\ (\A c \in Core : Focus \notin held[c]) => Owner = NoCore
  BY DEF LockInv, MutualExclusion, Owner

\* The initial states are initial states of the abstract lock.
LEMMA InitRefines == Init => Abstract!Init
  BY LockAssumption DEF Init, Abstract!Init, Owner, Want

\* Every step is a step of the abstract lock or leaves it alone.
LEMMA StepRefines ==
  LockInv /\ LockInv' /\ [Next]_vars => [Abstract!Next]_(Abstract!vars)
<1> SUFFICES ASSUME LockInv, LockInv', [Next]_vars
             PROVE  [Abstract!Next]_(Abstract!vars)
  OBVIOUS
<1> USE LockAssumption, CoreAssumption
<1> DEFINE Stutter == UNCHANGED <<Owner, Want>>
<1>s. Stutter => UNCHANGED Abstract!vars
  BY DEF Abstract!vars
<1>h. UNCHANGED held => UNCHANGED Owner
  BY DEF Owner
<1>w. UNCHANGED target => UNCHANGED Want
  BY DEF Want
<1>u. CASE UNCHANGED vars
  BY <1>u, <1>s, <1>h, <1>w DEF vars
<1>1. ASSUME NEW c \in Core, NEW l \in Lock, Call(c, l)
      PROVE  Stutter \/ Abstract!Request(c)
  <2>1. UNCHANGED Owner
    BY <1>1, <1>h DEF Call
  <2>2. target' = [target EXCEPT ![c] = l] /\ target[c] = NoLock
    BY <1>1 DEF Call, LockInv, TypeOK
  <2>3. CASE l # Focus
    <3>1. Want' = Want
      BY <2>2, <2>3 DEF Want, LockInv, TypeOK
    <3> QED
      BY <2>1, <3>1
  <2>4. CASE l = Focus
    <3>1. Want' = Want \union {c} /\ c \notin Want
      BY <2>2, <2>4 DEF Want, LockInv, TypeOK
    <3>2. Owner # c
      <4>1. Focus \notin held[c]
        BY <1>1, <2>4 DEF Call
      <4> QED
        BY <4>1 DEF Owner
    <3> QED
      BY <2>1, <3>1, <3>2 DEF Abstract!Request
  <2> QED
    BY <2>3, <2>4
<1>2. ASSUME NEW c \in Core, Monitor(c) \/ WakeOnEvent(c) \/ WakeEarly(c)
      PROVE  Stutter
  BY <1>2, <1>h, <1>w DEF Monitor, WakeOnEvent, WakeEarly
<1>3. ASSUME NEW c \in Core, Exchange(c)
      PROVE  Stutter \/ Abstract!Acquire(c)
  <2> DEFINE l == target[c]
  <2>0. l \in Lock
    BY <1>3 DEF Exchange, LockInv, TypeOK
  <2>1. CASE taken[l]
    BY <1>3, <2>1, <1>h, <1>w DEF Exchange
  <2>2. CASE ~taken[l]
    <3>1. /\ held' = [held EXCEPT ![c] = held[c] \union {l}]
          /\ target' = [target EXCEPT ![c] = NoLock]
      BY <1>3, <2>2 DEF Exchange
    <3>2. CASE l = Focus
      <4>1. Owner = NoCore
        BY <2>0, <2>2, <3>2, OwnerHolds DEF LockInv, ByteIsTrue
      <4>2. Focus \in held'[c]
        BY <3>1, <3>2 DEF LockInv, TypeOK
      <4>3. Owner' = c
        BY <4>2 DEF Owner, LockInv, MutualExclusion
      <4>4. c \in Want /\ Want' = Want \ {c}
        BY <3>1, <3>2 DEF Want, LockInv, TypeOK
      <4> QED
        BY <4>1, <4>3, <4>4 DEF Abstract!Acquire
    <3>3. CASE l # Focus
      <4>1. Want' = Want
        BY <3>1, <3>3 DEF Want, LockInv, TypeOK
      <4>2. \A d \in Core : Focus \in held'[d] <=> Focus \in held[d]
        BY <3>1, <3>3 DEF LockInv, TypeOK
      <4>3. Owner' = Owner
        BY <4>2 DEF Owner
      <4> QED
        BY <4>1, <4>3
    <3> QED
      BY <3>2, <3>3
  <2> QED
    BY <2>1, <2>2
<1>4. ASSUME NEW c \in Core, NEW l \in Lock, Unlock(c, l)
      PROVE  Stutter \/ Abstract!Release(c)
  <2>1. UNCHANGED Want
    BY <1>4, <1>w DEF Unlock
  <2>2. held' = [held EXCEPT ![c] = held[c] \ {l}] /\ l \in held[c]
    BY <1>4 DEF Unlock
  <2>3. CASE l = Focus
    <3>1. Owner = c
      BY <2>2, <2>3, OwnerHolds
    <3>2. \A d \in Core : Focus \notin held'[d]
      BY <2>2, <2>3 DEF LockInv, TypeOK, MutualExclusion
    <3>3. Owner' = NoCore
      BY <3>2 DEF Owner
    <3> QED
      BY <2>1, <3>1, <3>3 DEF Abstract!Release
  <2>4. CASE l # Focus
    <3>1. \A d \in Core : Focus \in held'[d] <=> Focus \in held[d]
      BY <2>2, <2>4 DEF LockInv, TypeOK
    <3>2. Owner' = Owner
      BY <3>1 DEF Owner
    <3> QED
      BY <2>1, <3>2
  <2> QED
    BY <2>3, <2>4
<1> QED
  BY <1>s, <1>u, <1>1, <1>2, <1>3, <1>4 DEF Next, Abstract!Next

\* The spin lock implements the abstract lock: callers may rely on Mutex.
THEOREM SpinLockImplementsMutex == Spec => ImplementsMutex
<1>1. Init => Abstract!Init
  BY InitRefines
<1>2. LockInv /\ LockInv' /\ [Next]_vars => [Abstract!Next]_(Abstract!vars)
  BY StepRefines
<1> QED
  BY <1>1, <1>2, LockInvariant, PTL DEF Spec, ImplementsMutex, Abstract!Spec
=============================================================================
