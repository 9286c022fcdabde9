----------------------------- MODULE AckRanges -----------------------------
(***************************************************************************)
(* The acknowledgement records of src/bedrock/datagram.rs (AckRange) as     *)
(* src/bedrock/reliability.rs builds and walks them.                        *)
(*                                                                         *)
(* A record names either one number (end = None) or an inclusive span.      *)
(* The order of the records in a packet never matters to the code, so a     *)
(* packet's records are a set.                                              *)
(***************************************************************************)
EXTENDS SeqArith

NoEnd == -1                                 \* Option::None

AckRange == [start : SeqNums, end : SeqNums \cup {NoEnd}]

Single(n)   == [start |-> n, end |-> NoEnd]
Span(s, e) == [start |-> s, end |-> e]

RangeOrSingle(s, e) == IF s = e THEN Single(s) ELSE Span(s, e)

(* What a record says: the numbers its sender meant. *)
Named(r) ==
    IF r.end = NoEnd THEN {r.start}
    ELSE { SeqAdd(r.start, i) : i \in 0 .. SeqForwardDistance(r.start, r.end) }

(* Mutant of Walked: the end is tested after the step, not before it.       *)
WalkedPastEnd(r) ==
    IF r.end = NoEnd THEN SeqNums ELSE Named(r) \cup {SeqInc(r.end)}

(***************************************************************************)
(* The numbers the loop of on_ack and on_nack visits.  It stops when the    *)
(* number it has just handled equals the record's end, or when it is back   *)
(* at the start.  A single record has no end, so nothing but the full turn  *)
(* stops it.                                                                *)
(***************************************************************************)
Walked(r) == IF r.end = NoEnd THEN SeqNums ELSE Named(r)

NamedBy(ranges)  == UNION { Named(r)  : r \in ranges }
WalkedBy(ranges) == UNION { Walked(r) : r \in ranges }

(* Mutant of CoalesceRanges: one span from the least to the greatest.       *)
CoalesceToOne(seqs) ==
    { RangeOrSingle(s, e) : s \in { x \in seqs : \A y \in seqs : x <= y },
                            e \in { x \in seqs : \A y \in seqs : x >= y } }

(* coalesce_ranges: maximal runs of plain consecutive numbers, never across *)
(* the wrap.                                                                *)
CoalesceRanges(seqs) == { RangeOrSingle(r[1], r[2]) : r \in MaximalRuns(seqs) }
=============================================================================
