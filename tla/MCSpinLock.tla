----------------------------- MODULE MCSpinLock -----------------------------
(***************************************************************************)
(* Three cores that take the critical-section lock and the printf lock, on *)
(* its own or inside the critical section, as the work() of the tests does.*)
(***************************************************************************)
EXTENDS SpinLock

CONSTANTS critical, printf

MCNesting == {<<critical, printf>>}
=============================================================================
