---------------------------- MODULE MCPageTable ----------------------------
\* Tables of 16 entries with 2 blocks of devices, blocks of 2 MB, every split
\* below the devices.
EXTENDS PageTable

VCBases == 1 .. 28
=============================================================================
