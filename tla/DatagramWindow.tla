--------------------------- MODULE DatagramWindow ---------------------------
(***************************************************************************)
(* DatagramWindow of src/bedrock/reliability.rs: the receiver's record of   *)
(* which datagram numbers have arrived.  The operators take and return the  *)
(* struct's value, so that the engine can hold a window as one of its       *)
(* fields.                                                                  *)
(***************************************************************************)
EXTENDS AckRanges

Window == [ lowest_unseen : SeqNums,
            highest_seen  : SeqNums,
            received      : SUBSET SeqNums,
            started       : BOOLEAN ]

NewWindow == [ lowest_unseen |-> 0, highest_seen |-> 0,
               received |-> {}, started |-> FALSE ]

(* advance_contiguous: consume the run that starts at lowest_unseen. *)
AdvanceContiguous(w) ==
    [w EXCEPT !.lowest_unseen = SeqAdd(@, RunLength(w.received, @)),
              !.received = @ \ RunOf(@, w.lowest_unseen)]

(* Mutant of IsNew: the test for numbers behind the window is dropped.      *)
IsNewUnlessBuffered(w, seq) == seq \notin w.received

(* record's answer: is this number new? *)
IsNew(w, seq) ==
    \/ ~w.started
    \/ ~SeqGreater(w.lowest_unseen, seq) /\ seq \notin w.received

(* record's effect on the window. *)
Record(w, seq) ==
    IF ~w.started
    THEN AdvanceContiguous([ lowest_unseen |-> seq, highest_seen |-> seq,
                             received |-> w.received \cup {seq},
                             started |-> TRUE ])
    ELSE IF ~IsNew(w, seq) THEN w
    ELSE AdvanceContiguous(
           [w EXCEPT !.received = @ \cup {seq},
                     !.highest_seen = IF SeqGreater(seq, @) THEN seq ELSE @])

(* missing: the gaps in [lowest_unseen, highest_seen], as records. *)
Missing(w) ==
    LET span   == SeqForwardDistance(w.lowest_unseen, w.highest_seen)
        absent == { i \in 0 .. span :
                      SeqAdd(w.lowest_unseen, i) \notin w.received }
    IN  IF \/ ~w.started
           \/ w.received = {}
           \/ span = 0 /\ w.highest_seen \in w.received
        THEN {}
        ELSE { RangeOrSingle(SeqAdd(w.lowest_unseen, r[1]),
                             SeqAdd(w.lowest_unseen, r[2]))
                 : r \in MaximalRuns(absent) }
=============================================================================
