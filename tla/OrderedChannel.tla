--------------------------- MODULE OrderedChannel ---------------------------
(***************************************************************************)
(* What the reliability engine promises about ordered messages              *)
(* (src/bedrock/reliability.rs:16-18, src/bedrock/reliable_conn.rs:160):     *)
(* one side hands over messages, the other side is given the same messages, *)
(* in the same order, none twice and none left out.  A receive may release  *)
(* several at once: those that had been waiting for the one that arrived.   *)
(***************************************************************************)
EXTENDS Sequences, Naturals

CONSTANT Message

VARIABLES
    requested,    \* messages handed over for ordered delivery, in order
    released      \* messages given to the receiving application, in order

Init == requested = << >> /\ released = << >>

Request == /\ \E m \in Message : requested' = Append(requested, m)
           /\ UNCHANGED released

Release == /\ \E n \in Len(released) .. Len(requested) :
                 released' = SubSeq(requested, 1, n)
           /\ UNCHANGED requested

Next == Request \/ Release

Spec == Init /\ [][Next]_<<requested, released>>
=============================================================================
