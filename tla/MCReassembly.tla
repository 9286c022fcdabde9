---------------------------- MODULE MCReassembly ----------------------------
EXTENDS Reassembly

BothKinds   == { "Reliable", "ReliableOrdered" }
OneOrTwo    == { 1, 2 }
=============================================================================
