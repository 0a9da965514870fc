------------------------------ MODULE MCKernel ------------------------------
\* The four cores of the board.
EXTENDS Kernel

CONSTANTS core0, core1, core2, core3

MCCore == {core0, core1, core2, core3}
=============================================================================
