--------------------------- MODULE WindowTracking ---------------------------
(***************************************************************************)
(* A DatagramWindow fed by a network, beside the window one would write     *)
(* with unbounded numbers.                                                  *)
(*                                                                         *)
(* The sender numbers its datagrams 0, 1, 2, ... (logical numbers) and puts *)
(* the number modulo 2*Half on the wire.  The network duplicates, reorders  *)
(* and loses datagrams, so any logical number may arrive at any time as     *)
(* long as it is not too far from the receiver's position: Lag and Ahead    *)
(* bound how far.  The history variables arrived and accepted are logical;  *)
(* they are what the wrapped window must agree with.                        *)
(***************************************************************************)
EXTENDS DatagramWindow

CONSTANTS
    MaxNumber,    \* bound: logical numbers are 0 .. MaxNumber
    Lag,          \* how far behind the first gap a late arrival may be
    Ahead         \* how far ahead of the first gap an arrival may be

ASSUME BoundsAssumption ==
    /\ MaxNumber \in Nat
    /\ Lag \in Nat
    /\ Ahead \in Nat

VARIABLES
    window,       \* ReliabilityEngine::recv_window
    first,        \* logical number of the first arrival (-1 before it)
    arrived,      \* logical numbers at or after first that have arrived
    accepted      \* how often record() called each logical number new

vars == <<window, first, arrived, accepted>>

Numbers == 0 .. MaxNumber
Wire(n) == n % Mod

(* The first gap: the least logical number from first on not yet arrived.   *)
FirstGap == CHOOSE n \in first .. MaxNumber + 1 :
                n \notin arrived /\ first .. n - 1 \subseteq arrived
Highest  == CHOOSE n \in arrived : \A m \in arrived : m <= n

Init == /\ window = NewWindow
        /\ first = -1
        /\ arrived = {}
        /\ accepted = [n \in Numbers |-> 0]

InReach(n) == \/ first = -1
              \/ n \in FirstGap - Lag .. FirstGap + Ahead

(* on_datagram_received calls record once for every datagram, whatever it is. *)
Arrive(n) ==
    /\ InReach(n)
    /\ window' = Record(window, Wire(n))
    /\ first' = IF first = -1 THEN n ELSE first
    /\ arrived' = IF n >= first' THEN arrived \cup {n} ELSE arrived
    /\ accepted' = IF IsNew(window, Wire(n))
                   THEN [accepted EXCEPT ![n] = IF @ < 2 THEN @ + 1 ELSE @]
                   ELSE accepted

Next == \E n \in Numbers : Arrive(n)

Spec == Init /\ [][Next]_vars
-----------------------------------------------------------------------------
TypeOK == /\ window \in Window
          /\ first \in Numbers \cup {-1}
          /\ arrived \subseteq Numbers
          /\ accepted \in [Numbers -> 0 .. 2]

(* record() is true for what is "new (i.e. not a duplicate or               *)
(* already-acked)" (reliability.rs:93-94).  Of the logical numbers from the *)
(* first arrival on that holds exactly: each is called new once, at its     *)
(* first arrival, however often the counter has wrapped and however late    *)
(* its copies come.  Of a number older than the first arrival it does not   *)
(* hold, and nothing is said here: the window starts at the first arrival,  *)
(* so a datagram that was overtaken by it is called old, and never ACKed,   *)
(* although it is no duplicate (reliability.rs:97-99, 110).                 *)
NewOnceFromFirstOn ==
    \A n \in Numbers :
        n >= first => accepted[n] = IF n \in arrived THEN 1 ELSE 0

(* The gaps that a NACK would name are exactly the numbers between the      *)
(* first gap and the highest arrival that are missing: none forgotten, none *)
(* that has arrived asked for again.                                        *)
NackNamesTheGaps ==
    first # -1 =>
      NamedBy(Missing(window)) =
        { Wire(n) : n \in (FirstGap .. Highest) \ arrived }
=============================================================================
