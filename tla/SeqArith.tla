----------------------------- MODULE SeqArith -----------------------------
(***************************************************************************)
(* The circular sequence-number arithmetic of src/bedrock/reliability.rs.   *)
(*                                                                         *)
(* RakNet numbers datagrams and ordered messages with 24-bit counters that *)
(* wrap.  The code masks every result with SEQ_MASK = 2^24 - 1 and calls a  *)
(* number "greater" when it lies less than half the circle ahead.  The     *)
(* model keeps the shape and makes the size a parameter: a circle of 2*Half *)
(* numbers, Half = 2^23 in the code.  Masking is written as the case split  *)
(* it amounts to on operands that are already on the circle.                *)
(***************************************************************************)
EXTENDS Integers

CONSTANT Half              \* half the size of the number circle

ASSUME HalfAssumption == Half \in Nat \ {0}

Mod == 2 * Half            \* SEQ_MASK + 1
SeqNums == 0 .. Mod - 1

(* x.wrapping_add(1) & SEQ_MASK *)
SeqInc(x) == IF x = Mod - 1 THEN 0 ELSE x + 1

(* Mutant of SeqAdd: the mask is forgotten. *)
SeqAddUnmasked(x, n) == x + n

(* x after n steps forward, n at most one whole turn of the circle *)
SeqAdd(x, n) == IF x + n < Mod THEN x + n ELSE x + n - Mod

(* How many steps forward lead from one number to the other. *)
SeqForwardDistance(from, to) ==
    IF from <= to THEN to - from ELSE to - from + Mod

(* Mutant of SeqGreater: plain comparison, as if numbers never wrapped. *)
SeqGreaterPlain(a, b) == a > b

(* a is strictly newer than b: ahead of it by less than half the circle. *)
SeqGreater(a, b) ==
    LET diff == SeqForwardDistance(b, a) IN diff # 0 /\ diff < Half

(***************************************************************************)
(* The loop shared by DatagramWindow::advance_contiguous and               *)
(* ReliabilityEngine::drain_ordered removes numbers from a set one after    *)
(* the other, from start upwards, until one is absent.  RunLength is how    *)
(* many numbers it removes (a number removed is absent when the loop comes  *)
(* round, so it ends after one turn) and RunOf is the set of them.          *)
(***************************************************************************)
IsRunLength(S, start, n) ==
    /\ \A i \in 0 .. n - 1 : SeqAdd(start, i) \in S
    /\ n < Mod => SeqAdd(start, n) \notin S

RunLength(S, start) == CHOOSE n \in 0 .. Mod : IsRunLength(S, start, n)

RunOf(S, start) ==
    { SeqAdd(start, i) : i \in 0 .. RunLength(S, start) - 1 }

(* The maximal runs of consecutive integers in S, as <<first, last>> pairs. *)
MaximalRuns(S) ==
    { r \in S \X S : /\ r[1] <= r[2]
                     /\ r[1] .. r[2] \subseteq S
                     /\ r[1] - 1 \notin S
                     /\ r[2] + 1 \notin S }
=============================================================================
