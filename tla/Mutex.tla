------------------------------- MODULE Mutex -------------------------------
(***************************************************************************)
(* What a lock of the kernel promises its callers, whatever it is built    *)
(* from: at most one core owns it, only a core that asked for it gets it,  *)
(* only the owner gives it back.  SpinLock (atomic.h) is shown to          *)
(* implement this module; Kernel uses it for the critical-section lock and *)
(* the printf lock.                                                        *)
(***************************************************************************)
CONSTANTS Core,
          NoCore      \* not a member of Core

VARIABLES owner,   \* the core between lock() and unlock(), or NoCore
          want     \* the cores inside lock()

vars == <<owner, want>>

Init == owner = NoCore /\ want = {}

\* A core that does not own the lock calls lock().
Request(c) ==
  /\ owner # c
  /\ c \notin want
  /\ want' = want \union {c}
  /\ UNCHANGED owner

\* One of the callers finds the lock free: its lock() returns.
Acquire(c) ==
  /\ c \in want
  /\ owner = NoCore
  /\ owner' = c
  /\ want' = want \ {c}

Release(c) ==
  /\ owner = c
  /\ owner' = NoCore
  /\ UNCHANGED want

Next == \E c \in Core : Request(c) \/ Acquire(c) \/ Release(c)

Spec == Init /\ [][Next]_vars
=============================================================================
