----------------------------- MODULE MCConsole -----------------------------
\* Core 0 and two others, three lines.
EXTENDS Console
=============================================================================
