------------------------------- MODULE MCHeap -------------------------------
\* A heap of a few words: room for theLock and up to four more blocks.
EXTENDS Heap
=============================================================================
