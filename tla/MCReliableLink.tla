--------------------------- MODULE MCReliableLink ---------------------------
(* ReliableLink with the kinds its cfg files name.  The sequenced kinds are *)
(* not among them: the engine delivers them like ordered ones, where        *)
(* datagram.rs:104-111 has "drop-if-stale" and "latest-only".               *)
EXTENDS ReliableLink

OrderedOnly == { "ReliableOrdered" }
SomeKinds == { "ReliableOrdered", "Reliable" }
=============================================================================
