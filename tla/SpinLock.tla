------------------------------ MODULE SpinLock ------------------------------
(***************************************************************************)
(* The kernel's SpinLock (include/atomic.h), at the granularity of the     *)
(* instructions of                                                         *)
(*                                                                         *)
(*     taken.monitor_value();                                              *)
(*     while (taken.exchange(true)) {                                      *)
(*         iAmStuckInALoop(true);                                          *)
(*         taken.monitor_value();                                          *)
(*     }                                                                   *)
(*                                                                         *)
(* monitor_value() is `dsb; ldxr; wfe' (utils.S) and iAmStuckInALoop(true) *)
(* is a second `wfe' (loop.h), so the exclusive monitor and the event      *)
(* register of each core, which decide when a wfe returns, are part of the *)
(* state.                                                                  *)
(***************************************************************************)
EXTENDS Naturals

CONSTANTS Core,      \* the cores
          NoCore,    \* no core
          Lock,      \* the SpinLock objects
          NoLock,    \* no lock
          Nesting,   \* <<outer, inner>>: inner is taken while outer is held
          Focus      \* the lock the abstract view below is taken of

ASSUME CoreAssumption == NoCore \notin Core
ASSUME LockAssumption == NoLock \notin Lock /\ Focus \in Lock

VARIABLES taken,      \* taken[l]: the Atomic<bool> of lock l
          pc,         \* where each core is in lock()
          target,     \* the lock whose lock() the core is in
          held,       \* the locks between lock() and unlock() on each core
          exclusive,  \* the address each core's exclusive monitor watches
          event       \* the event register of each core

vars == <<taken, pc, target, held, exclusive, event>>

Step == {"out", "monitor", "wfe", "exchange", "stuck"}

TypeOK ==
  /\ taken \in [Lock -> BOOLEAN]
  /\ pc \in [Core -> Step]
  /\ target \in [Core -> Lock \union {NoLock}]
  /\ held \in [Core -> SUBSET Lock]
  /\ exclusive \in [Core -> Lock \union {NoLock}]
  /\ event \in [Core -> BOOLEAN]
  /\ \A c \in Core : pc[c] = "out" <=> target[c] = NoLock

Init ==
  /\ taken = [l \in Lock |-> FALSE]
  /\ pc = [c \in Core |-> "out"]
  /\ target = [c \in Core |-> NoLock]
  /\ held = [c \in Core |-> {}]
  /\ exclusive = [c \in Core |-> NoLock]
  /\ event \in [Core -> BOOLEAN]      \* whatever happened before

(***************************************************************************)
(* A core stores to lock l.  Another core whose exclusive monitor watches  *)
(* l loses it, and that sets its event register.  Whether the storing core *)
(* gets an event from its own store is left open by the architecture.      *)
(***************************************************************************)
Store(c, l, value) ==
  /\ taken' = [taken EXCEPT ![l] = value]
  /\ exclusive' = [d \in Core |-> IF d = c \/ exclusive[d] = l
                                  THEN NoLock ELSE exclusive[d]]
  /\ \E own \in BOOLEAN :
       event' = [d \in Core |-> \/ event[d]
                                \/ d # c /\ exclusive[d] = l
                                \/ d = c /\ own]

\* lock(): the callers nest locks only as Nesting says.
Call(c, l) ==
  /\ pc[c] = "out"
  /\ l \notin held[c]
  /\ \A h \in held[c] : <<h, l>> \in Nesting
  /\ pc' = [pc EXCEPT ![c] = "monitor"]
  /\ target' = [target EXCEPT ![c] = l]
  /\ UNCHANGED <<taken, held, exclusive, event>>

\* dsb sy; ldxr
Monitor(c) ==
  /\ pc[c] = "monitor"
  /\ pc' = [pc EXCEPT ![c] = "wfe"]
  /\ exclusive' = [exclusive EXCEPT ![c] = target[c]]
  /\ UNCHANGED <<taken, target, held, event>>

\* Mistake: a core that was stuck waits again without another exchange.
LeaveWfeAgain(c) ==
  \/ pc[c] = "wfe"   /\ pc' = [pc EXCEPT ![c] = "exchange"]
  \/ pc[c] = "stuck" /\ pc' = [pc EXCEPT ![c] = "stuck"]

(***************************************************************************)
(* The two wfe: the one that ends monitor() is followed by the exchange,   *)
(* the one of iAmStuckInALoop(true) by another monitor().                  *)
(***************************************************************************)
LeaveWfe(c) ==
  \/ pc[c] = "wfe"   /\ pc' = [pc EXCEPT ![c] = "exchange"]
  \/ pc[c] = "stuck" /\ pc' = [pc EXCEPT ![c] = "monitor"]

\* The event register is set: wfe clears it and does not wait.
WakeOnEvent(c) ==
  /\ event[c]
  /\ LeaveWfe(c)
  /\ event' = [event EXCEPT ![c] = FALSE]
  /\ UNCHANGED <<taken, target, held, exclusive>>

\* wfe may return for no reason; QEMU's always does.
WakeEarly(c) ==
  /\ ~event[c]
  /\ LeaveWfe(c)
  /\ UNCHANGED <<taken, target, held, exclusive, event>>

\* Mistake: lock() returns whatever the exchange returned.
ExchangeIgnored(c) ==
  /\ pc[c] = "exchange"
  /\ Store(c, target[c], TRUE)
  /\ pc' = [pc EXCEPT ![c] = "out"]
  /\ held' = [held EXCEPT ![c] = @ \union {target[c]}]
  /\ target' = [target EXCEPT ![c] = NoLock]

\* Mistake: lock() gets the lock and stays in its loop.
ExchangeStays(c) ==
  /\ pc[c] = "exchange"
  /\ Store(c, target[c], TRUE)
  /\ pc' = [pc EXCEPT ![c] = IF taken[target[c]] THEN "stuck" ELSE "out"]
  /\ held' = IF taken[target[c]] THEN held
             ELSE [held EXCEPT ![c] = @ \union {target[c]}]
  /\ UNCHANGED target

\* taken.exchange(true): the core gets the lock or finds it taken.
Exchange(c) ==
  /\ pc[c] = "exchange"
  /\ Store(c, target[c], TRUE)
  /\ \/ /\ ~taken[target[c]]
        /\ pc' = [pc EXCEPT ![c] = "out"]
        /\ held' = [held EXCEPT ![c] = @ \union {target[c]}]
        /\ target' = [target EXCEPT ![c] = NoLock]
     \/ /\ taken[target[c]]
        /\ pc' = [pc EXCEPT ![c] = "stuck"]
        /\ UNCHANGED <<target, held>>

\* Mistake: a core unlocks a lock it does not hold, as a forced unlock does.
ForcedUnlock(c, l) ==
  /\ pc[c] = "out"
  /\ Store(c, l, FALSE)
  /\ held' = [held EXCEPT ![c] = @ \ {l}]
  /\ UNCHANGED <<pc, target>>

\* Mistake: a path out of the scope that does not clear the byte.
UnlockMissed(c, l) ==
  /\ pc[c] = "out"
  /\ l \in held[c]
  /\ held' = [held EXCEPT ![c] = @ \ {l}]
  /\ UNCHANGED <<taken, pc, target, exclusive, event>>

\* unlock(), innermost lock first: every caller is a scope.
Unlock(c, l) ==
  /\ pc[c] = "out"
  /\ l \in held[c]
  /\ \A h \in held[c] : <<l, h>> \notin Nesting
  /\ Store(c, l, FALSE)
  /\ held' = [held EXCEPT ![c] = @ \ {l}]
  /\ UNCHANGED <<pc, target>>

Next ==
  \E c \in Core :
    \/ \E l \in Lock : Call(c, l) \/ Unlock(c, l)
    \/ Monitor(c)
    \/ WakeOnEvent(c)
    \/ WakeEarly(c)
    \/ Exchange(c)

Spec == Init /\ [][Next]_vars

(***************************************************************************)
(* Every core runs, and a caller gives back the lock it got: work() and    *)
(* the body of printf are straight code.  Under QEMU, where the tests run, *)
(* wfe is a yield, so that waking early is as certain as any other step.   *)
(* The architecture only promises the wake-up after an event.              *)
(***************************************************************************)
CoresRun ==
  \A c \in Core :
    /\ WF_vars(Monitor(c))
    /\ WF_vars(WakeOnEvent(c))
    /\ WF_vars(Exchange(c))
    /\ WF_vars(\E l \in Lock : Unlock(c, l))

HardwareSpec == Spec /\ CoresRun
QemuSpec == Spec /\ CoresRun /\ \A c \in Core : WF_vars(WakeEarly(c))

-----------------------------------------------------------------------------
\* lock() has returned to one core at a time: what critical() and printf
\* rely on (atomic.h:125-131).
MutualExclusion ==
  \A c, d \in Core : c # d => held[c] \intersect held[d] = {}

\* The byte in memory tells the truth: it is set exactly while a core is
\* between lock() and unlock(), so no lock is lost by a failed exchange that
\* stores true again and isMine() of the holder is never false
\* (atomic.h:121-135).
ByteIsTrue ==
  \A l \in Lock : taken[l] <=> \E c \in Core : l \in held[c]

\* A free lock that some core is waiting for is taken again: no caller of
\* lock() sleeps beside a free lock for ever (atomic.h:125-131 with
\* loop.h:9-30).
LockProgress ==
  \A l \in Lock :
    (~taken[l] /\ \E c \in Core : target[c] = l) ~> taken[l]

(***************************************************************************)
(* The abstract lock that callers see of Focus.                            *)
(***************************************************************************)
Owner == IF \E c \in Core : Focus \in held[c]
         THEN CHOOSE c \in Core : Focus \in held[c]
         ELSE NoCore

Want == {c \in Core : target[c] = Focus}

Abstract == INSTANCE Mutex WITH owner <- Owner, want <- Want

\* Every step of the spin lock is a request, an acquisition or a release of
\* an abstract mutex, or changes nothing callers see.
ImplementsMutex == Abstract!Spec
=============================================================================
