----------------------------- MODULE MCSmpHeap -----------------------------
\* Two cores that call malloc once each.
EXTENDS SmpHeap
=============================================================================
