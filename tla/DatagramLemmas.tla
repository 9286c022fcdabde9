---------------------------- MODULE DatagramLemmas ----------------------------
(***************************************************************************)
(* Facts about the datagram layer, for every size of the number circle: the *)
(* circular arithmetic, the receive window, the acknowledgement records and *)
(* the induction over a stretch of numbers that the loops need.             *)
(***************************************************************************)
EXTENDS DatagramWindow, SequenceTheorems, WellFoundedInduction, TLAPS

(* The circle: every operation on numbers of the circle stays on it.        *)
LEMMA ModType == Mod \in Nat /\ Mod >= 2 /\ 0 \in SeqNums
BY HalfAssumption DEF Mod, SeqNums

LEMMA SeqIncType == \A x \in SeqNums : SeqInc(x) \in SeqNums
BY ModType DEF SeqNums, SeqInc

LEMMA SeqAddType == \A x \in SeqNums, n \in 0 .. Mod : SeqAdd(x, n) \in SeqNums
BY ModType DEF SeqNums, SeqAdd

LEMMA DistanceType ==
  \A a, b \in SeqNums : SeqForwardDistance(a, b) \in SeqNums
BY ModType DEF SeqNums, SeqForwardDistance

(* Distance and step are inverse: walking the distance leads to the target. *)
LEMMA DistanceLeads ==
  \A a, b \in SeqNums : SeqAdd(a, SeqForwardDistance(a, b)) = b
BY ModType DEF SeqNums, SeqForwardDistance, SeqAdd

\* A set of natural numbers has a least member, a bounded one a greatest.
LEMMA Least ==
  ASSUME NEW T \in SUBSET Nat, T # {}
  PROVE  \E n \in T : \A m \in T : n <= m
<1> DEFINE Less == { ss \in Nat \X Nat : ss[1] < ss[2] }
<1>1. IsWellFoundedOn(Less, Nat)
  BY NatLessThanWellFounded DEF OpToRel
<1> HIDE DEF Less
<1>2. PICK n \in T : \A m \in T : <<m, n>> \notin Less
  BY <1>1, WFMin
<1>3. ASSUME NEW m \in T, m < n PROVE FALSE
  BY <1>2, <1>3 DEF Less
<1>4. QED
  BY <1>3

LEMMA Greatest ==
  ASSUME NEW k \in Nat, NEW T \in SUBSET (0 .. k), T # {}
  PROVE  \E n \in T : \A m \in T : m <= n
<1> DEFINE U == { k - m : m \in T }
<1>1. U \in SUBSET Nat /\ U # {}
  <2>1. \A m \in T : k - m \in Nat
    OBVIOUS
  <2>2. QED
    BY <2>1
<1>2. PICK u \in U : \A m \in U : u <= m
  BY <1>1, Least
<1>3. PICK n \in T : u = k - n
  OBVIOUS
<1>4. \A m \in T : k - m \in U
  OBVIOUS
<1>5. \A m \in T : k - n <= k - m
  BY <1>2, <1>3, <1>4
<1>6. QED
  BY <1>5

(* Induction over a set of positions, upwards and downwards.                *)
LEMMA Upwards ==
  ASSUME NEW n \in Nat, NEW T, 0 \in T,
         \A m \in 1 .. n : m - 1 \in T => m \in T
  PROVE  0 .. n \subseteq T
<1> DEFINE Rest == { m \in 0 .. n : m \notin T }
<1> SUFFICES ASSUME Rest # {} PROVE FALSE
  OBVIOUS
<1>1. Rest \in SUBSET Nat
  OBVIOUS
<1>2. PICK m \in Rest : \A k \in Rest : m <= k
  <2> HIDE DEF Rest
  <2>1. QED
    BY <1>1, Least
<1>3. m \in 1 .. n /\ m \notin T
  <2>1. m \in 0 .. n /\ m \notin T
    BY <1>2
  <2>2. m # 0
    BY <2>1
  <2>3. QED
    BY <2>1, <2>2
<1>4. m - 1 \notin T
  BY <1>3
<1>5. m - 1 \in 0 .. n /\ ~(m <= m - 1)
  BY <1>3
<1>6. m - 1 \in Rest
  BY <1>4, <1>5
<1>7. QED
  BY <1>2, <1>5, <1>6

LEMMA Downwards ==
  ASSUME NEW n \in Nat, NEW T, n \in T,
         \A m \in 0 .. n : m # n /\ (\A k \in m + 1 .. n : k \in T) => m \in T
  PROVE  0 .. n \subseteq T
<1> DEFINE Rest == { m \in 0 .. n : m \notin T }
<1> SUFFICES ASSUME Rest # {} PROVE FALSE
  OBVIOUS
<1>1. Rest \in SUBSET (0 .. n)
  OBVIOUS
<1>2. PICK m \in Rest : \A k \in Rest : k <= m
  <2> HIDE DEF Rest
  <2>1. QED
    BY <1>1, Greatest
<1>3. m \in 0 .. n /\ m \notin T
  BY <1>2
<1>4. m # n
  BY <1>3
<1>5. ASSUME NEW k \in m + 1 .. n PROVE k \in T
  <2>1. k \in 0 .. n /\ ~(k <= m)
    BY <1>3
  <2>2. k \notin Rest
    BY <1>2, <2>1
  <2>3. QED
    BY <2>1, <2>2
<1>6. QED
  BY <1>3, <1>4, <1>5

(* The removal loop of advance_contiguous and drain_ordered always ends: a  *)
(* run has a length, at most one turn of the circle.                        *)
LEMMA RunLengthIs ==
  ASSUME NEW S, NEW start
  PROVE  /\ RunLength(S, start) \in 0 .. Mod
         /\ IsRunLength(S, start, RunLength(S, start))
<1> DEFINE T == { n \in 0 .. Mod : n = Mod \/ SeqAdd(start, n) \notin S }
<1>1. T \subseteq Nat /\ T # {}
  <2>1. Mod \in T
    BY ModType
  <2>2. QED
    BY <2>1, ModType
<1>2. PICK n \in T : \A m \in T : n <= m
  BY <1>1, Least
<1>3. IsRunLength(S, start, n)
  BY <1>2, ModType DEF IsRunLength
<1>4. QED
  BY <1>2, <1>3 DEF RunLength

LEMMA RunOfType ==
  ASSUME NEW S, NEW start \in SeqNums
  PROVE  RunOf(S, start) \subseteq SeqNums
BY RunLengthIs, SeqAddType, ModType DEF RunOf

-----------------------------------------------------------------------------
(* record keeps the window a window.                                        *)
LEMMA RecordType ==
  ASSUME NEW w \in Window, NEW seq \in SeqNums
  PROVE  Record(w, seq) \in Window
<1>1. ASSUME NEW v \in Window PROVE AdvanceContiguous(v) \in Window
  <2>1. SeqAdd(v.lowest_unseen, RunLength(v.received, v.lowest_unseen))
          \in SeqNums
    BY RunLengthIs, SeqAddType DEF Window
  <2>2. QED
    BY <2>1 DEF AdvanceContiguous, Window
<1>2. [ lowest_unseen |-> seq, highest_seen |-> seq,
        received |-> w.received \cup {seq}, started |-> TRUE ] \in Window
  BY DEF Window
<1>3. [w EXCEPT !.received = @ \cup {seq},
                !.highest_seen = IF SeqGreater(seq, @) THEN seq ELSE @]
        \in Window
  BY DEF Window
<1>4. QED
  BY <1>1, <1>2, <1>3 DEF Record

(* The records that missing and coalesce_ranges build are well formed.      *)
LEMMA RangeOrSingleType ==
  \A s, e \in SeqNums : RangeOrSingle(s, e) \in AckRange
BY DEF RangeOrSingle, Single, Span, AckRange

LEMMA CoalesceType ==
  ASSUME NEW seqs \in SUBSET SeqNums
  PROVE  CoalesceRanges(seqs) \subseteq AckRange
BY RangeOrSingleType DEF CoalesceRanges, MaximalRuns

LEMMA MissingType ==
  ASSUME NEW w \in Window
  PROVE  Missing(w) \subseteq AckRange
<1> DEFINE span   == SeqForwardDistance(w.lowest_unseen, w.highest_seen)
           absent == { i \in 0 .. span :
                         SeqAdd(w.lowest_unseen, i) \notin w.received }
<1>1. span \in SeqNums
  BY DistanceType DEF Window
<1>2. \A i \in absent : SeqAdd(w.lowest_unseen, i) \in SeqNums
  BY <1>1, SeqAddType, ModType DEF Window, SeqNums
<1>3. \A r \in MaximalRuns(absent) :
        RangeOrSingle(SeqAdd(w.lowest_unseen, r[1]),
                      SeqAdd(w.lowest_unseen, r[2])) \in AckRange
  BY <1>2, RangeOrSingleType DEF MaximalRuns
<1>4. QED
  BY <1>3 DEF Missing

\* The maximal runs of a bounded set cover it.
LEMMA RunsCover ==
  ASSUME NEW k \in Nat, NEW S \in SUBSET (0 .. k), NEW i \in S
  PROVE  \E r \in MaximalRuns(S) : i \in r[1] .. r[2]
<1> DEFINE Lower == { j \in 0 .. i : j .. i \subseteq S }
           Upper == { j \in i .. k : i .. j \subseteq S }
<1>0. i \in Nat /\ i <= k /\ i .. i = {i}
  OBVIOUS
<1>1. PICK a \in Lower : \A j \in Lower : a <= j
  <2>1. i \in Lower
    BY <1>0
  <2>2. Lower \in SUBSET Nat
    BY <1>0
  <2> HIDE DEF Lower
  <2>3. QED
    BY <2>1, <2>2, Least
<1>2. PICK b \in Upper : \A j \in Upper : j <= b
  <2>1. i \in Upper
    BY <1>0
  <2>2. Upper \in SUBSET (0 .. k)
    BY <1>0
  <2> HIDE DEF Upper
  <2>3. QED
    BY <2>1, <2>2, Greatest
<1>3. /\ a \in Nat /\ b \in Nat /\ a <= i /\ i <= b /\ b <= k
      /\ a .. i \subseteq S /\ i .. b \subseteq S
  BY <1>0, <1>1, <1>2
<1>4. a - 1 \notin S
  <2>1. ASSUME a - 1 \in S PROVE FALSE
    <3>1. a - 1 \in 0 .. i
      BY <1>3, <2>1
    <3>2. \A m \in a - 1 .. i : m = a - 1 \/ m \in a .. i
      BY <1>3
    <3>3. a - 1 \in Lower
      BY <1>3, <2>1, <3>1, <3>2
    <3>4. QED
      BY <1>1, <1>3, <3>3
  <2>2. QED
    BY <2>1
<1>5. b + 1 \notin S
  <2>1. ASSUME b + 1 \in S PROVE FALSE
    <3>1. b + 1 \in i .. k
      BY <1>3, <2>1
    <3>2. \A m \in i .. b + 1 : m = b + 1 \/ m \in i .. b
      BY <1>3
    <3>3. b + 1 \in Upper
      BY <1>3, <2>1, <3>1, <3>2
    <3>4. QED
      BY <1>2, <1>3, <3>3
  <2>2. QED
    BY <2>1
<1>6. a .. b \subseteq S /\ a \in S /\ b \in S
  BY <1>3
<1>7. <<a, b>> \in MaximalRuns(S)
  BY <1>3, <1>4, <1>5, <1>6 DEF MaximalRuns
<1>8. QED
  BY <1>3, <1>7

(***************************************************************************)
(* drain_acks never acknowledges a number that is not in the set it drains: *)
(* the records coalesce_ranges makes of a set name only numbers of the set. *)
(***************************************************************************)
LEMMA CoalesceNamesOnly ==
  ASSUME NEW seqs \in SUBSET SeqNums
  PROVE  NamedBy(CoalesceRanges(seqs)) \subseteq seqs
<1>1. ASSUME NEW r \in MaximalRuns(seqs)
      PROVE  Named(RangeOrSingle(r[1], r[2])) \subseteq seqs
  <2>1. /\ r[1] \in SeqNums /\ r[2] \in SeqNums /\ r[1] <= r[2]
        /\ r[1] .. r[2] \subseteq seqs
    BY DEF MaximalRuns
  <2>2. CASE r[1] = r[2]
    BY <2>1, <2>2 DEF RangeOrSingle, Single, Named, NoEnd, SeqNums
  <2>3. CASE r[1] # r[2]
    <3>1. /\ RangeOrSingle(r[1], r[2]) = Span(r[1], r[2])
          /\ r[2] # NoEnd
      BY <2>1, <2>3 DEF RangeOrSingle, NoEnd, SeqNums
    <3>2. \A i \in 0 .. SeqForwardDistance(r[1], r[2]) :
            SeqAdd(r[1], i) \in r[1] .. r[2]
      BY <2>1, ModType DEF SeqForwardDistance, SeqAdd, SeqNums
    <3>3. QED
      BY <2>1, <3>1, <3>2 DEF Named, Span
  <2>4. QED
    BY <2>2, <2>3
<1>2. QED
  BY <1>1 DEF NamedBy, CoalesceRanges

(***************************************************************************)
(* ... and forgets none: the records name the numbers of the set, however   *)
(* many runs they form and whether or not the runs touch the wrap           *)
(* (coalesce_ranges never merges across it).                                *)
(***************************************************************************)
THEOREM CoalesceExact ==
  ASSUME NEW seqs \in SUBSET SeqNums
  PROVE  NamedBy(CoalesceRanges(seqs)) = seqs
<1>1. ASSUME NEW x \in seqs PROVE x \in NamedBy(CoalesceRanges(seqs))
  <2>1. Mod - 1 \in Nat /\ seqs \in SUBSET (0 .. Mod - 1)
    BY ModType DEF SeqNums
  <2>2. PICK r \in MaximalRuns(seqs) : x \in r[1] .. r[2]
    BY <2>1, RunsCover
  <2>3. r[1] \in SeqNums /\ r[2] \in SeqNums /\ r[1] <= r[2]
    BY DEF MaximalRuns
  <2>4. x \in Named(RangeOrSingle(r[1], r[2]))
    <3>1. CASE r[1] = r[2]
      <4>1. x = r[1]
        BY <2>2, <2>3, <3>1 DEF SeqNums
      <4>2. QED
        BY <3>1, <4>1 DEF RangeOrSingle, Single, Named
    <3>2. CASE r[1] # r[2]
      <4>1. Named(RangeOrSingle(r[1], r[2]))
              = { SeqAdd(r[1], i) : i \in 0 .. SeqForwardDistance(r[1], r[2]) }
        BY <2>3, <3>2 DEF RangeOrSingle, Span, Named, NoEnd, SeqNums
      <4>2. /\ x - r[1] \in 0 .. SeqForwardDistance(r[1], r[2])
            /\ x = SeqAdd(r[1], x - r[1])
        BY <2>2, <2>3, ModType DEF SeqForwardDistance, SeqAdd, SeqNums
      <4>3. QED
        BY <4>1, <4>2
    <3>3. QED
      BY <3>1, <3>2
  <2>5. QED
    BY <2>2, <2>4 DEF NamedBy, CoalesceRanges
<1>2. QED
  BY <1>1, CoalesceNamesOnly
=============================================================================
