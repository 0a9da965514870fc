----------------------------- MODULE MCBarrier -----------------------------
\* The four cores of the board and a counter just wide enough for them, so
\* that one decrement too many would show.
EXTENDS Barrier

CONSTANTS c0, c1, c2, c3

MCCore == {c0, c1, c2, c3}
=============================================================================
