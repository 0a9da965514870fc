----------------------------- MODULE Rendezvous -----------------------------
(***************************************************************************)
(* What a Barrier promises kernel_init: a core goes on only when every     *)
(* core has come.  Barrier (atomic.h) is shown to implement this module,   *)
(* and Kernel to implement it twice, for `starting' and `stopping'.        *)
(***************************************************************************)
CONSTANT Core

VARIABLES arrived,    \* the cores that have come to the meeting
          departed    \* the cores that have gone on

vars == <<arrived, departed>>

Init == arrived = {} /\ departed = {}

Arrive(c) ==
  /\ c \notin arrived
  /\ arrived' = arrived \union {c}
  /\ UNCHANGED departed

Depart(c) ==
  /\ arrived = Core
  /\ c \notin departed
  /\ departed' = departed \union {c}
  /\ UNCHANGED arrived

Next == \E c \in Core : Arrive(c) \/ Depart(c)

Spec == Init /\ [][Next]_vars
=============================================================================
