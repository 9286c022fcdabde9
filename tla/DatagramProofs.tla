--------------------------- MODULE DatagramProofs ---------------------------
(***************************************************************************)
(* The two things that happen to a datagram, for every value of the         *)
(* constants: its number enters the receive window (WindowTracking), and    *)
(* what it carries goes over the wire as bytes (Wire).                      *)
(***************************************************************************)
EXTENDS WindowTracking, Wire, DatagramLemmas

\* Numbers on the circle, by the turns they have made.
LEMMA Turns ==
  ASSUME NEW n \in Nat
  PROVE  /\ Wire(n) \in SeqNums
         /\ n \div Mod \in Nat
         /\ n = (n \div Mod) * Mod + Wire(n)
BY ModType, Z3 DEF Wire, SeqNums

\* Less than a turn apart, two different numbers are different on the circle.
LEMMA WireDiffers ==
  ASSUME NEW m \in Nat, NEW n \in Nat, m < n, n < m + Mod
  PROVE  Wire(m) # Wire(n)
<1>1. PICK p \in Nat : m = p * Mod + Wire(m)
  BY Turns
<1>2. PICK q \in Nat : n = q * Mod + Wire(n)
  BY Turns
<1>3. Mod \in Nat
  BY ModType
<1>4. ASSUME Wire(m) = Wire(n) PROVE FALSE
  <2>1. Wire(m) \in Nat /\ Wire(n) \in Nat
    BY Turns DEF SeqNums
  <2>2. (q - p) * Mod = n - m
    BY <1>1, <1>2, <1>3, <1>4, <2>1, Z3
  <2>3. q - p \in Int
    OBVIOUS
  <2>4. CASE q - p <= 0
    BY <1>3, <2>2, <2>3, <2>4, Z3
  <2>5. CASE q - p >= 1
    BY <1>3, <2>2, <2>3, <2>5, Z3
  <2>6. QED
    BY <2>3, <2>4, <2>5
<1>5. QED
  BY <1>4

\* A step on the circle is a step among the numbers.
LEMMA WireAdds ==
  ASSUME NEW n \in Nat, NEW i \in 0 .. Mod
  PROVE  SeqAdd(Wire(n), i) = Wire(n + i)
<1>1. PICK p \in Nat : n = p * Mod + Wire(n)
  BY Turns
<1>2. PICK q \in Nat : n + i = q * Mod + Wire(n + i)
  <2>1. n + i \in Nat
    BY ModType
  <2>2. QED
    BY <2>1, Turns
<1>3. Mod \in Nat /\ Wire(n) \in 0 .. Mod - 1 /\ Wire(n + i) \in 0 .. Mod - 1 /\ i \in Nat
  BY Turns, ModType DEF SeqNums
<1>4. (q - p) * Mod = Wire(n) + i - Wire(n + i)
  BY <1>1, <1>2, <1>3, Z3
<1>5. q - p \in {0, 1} \/ q - p <= -1 \/ q - p >= 2
  OBVIOUS
<1>6. q - p >= 2 => (q - p) * Mod >= 2 * Mod
  BY <1>3, Z3
<1>7. q - p <= -1 => (q - p) * Mod <= -Mod
  BY <1>3, Z3
<1>8. q - p = 0 \/ q - p = 1
  BY <1>3, <1>4, <1>5, <1>6, <1>7
<1>9. CASE q - p = 0
  BY <1>3, <1>4, <1>9 DEF SeqAdd
<1>10. CASE q - p = 1
  BY <1>3, <1>4, <1>10 DEF SeqAdd
<1>11. QED
  BY <1>8, <1>9, <1>10

\* The distance on the circle, forwards and backwards.
LEMMA WireDistance ==
  ASSUME NEW m \in Nat, NEW n \in Nat, m <= n, n < m + Mod
  PROVE  /\ SeqForwardDistance(Wire(m), Wire(n)) = n - m
         /\ m < n => SeqForwardDistance(Wire(n), Wire(m)) = Mod - (n - m)
<1>1. Mod \in Nat /\ Wire(m) \in 0 .. Mod - 1 /\ Wire(n) \in 0 .. Mod - 1
  BY Turns, ModType DEF SeqNums
<1>2. n - m \in 0 .. Mod /\ m + (n - m) = n
  BY <1>1
<1>3. SeqAdd(Wire(m), n - m) = Wire(n)
  BY <1>2, WireAdds
<1>4. QED
  BY <1>1, <1>2, <1>3 DEF SeqAdd, SeqForwardDistance

\* A number less than half the circle behind is older, one not more than half
\* the circle ahead is not.
LEMMA WireGreater ==
  ASSUME NEW m \in Nat, NEW n \in Nat, n < m + Half, m <= n + Half
  PROVE  SeqGreater(Wire(n), Wire(m)) <=> n > m
<1>1. Mod \in Nat /\ Half \in Nat \ {0} /\ Mod = 2 * Half
  BY HalfAssumption, ModType DEF Mod
<1>2. CASE m <= n
  BY <1>1, <1>2, WireDistance DEF SeqGreater
<1>3. CASE n < m
  <2>1. m < n + Mod
    BY <1>1
  <2>2. SeqForwardDistance(Wire(m), Wire(n)) = Mod - (m - n)
    BY <1>3, <2>1, WireDistance
  <2>3. QED
    BY <1>1, <1>3, <2>2 DEF SeqGreater
<1>4. QED
  BY <1>2, <1>3

-----------------------------------------------------------------------------
\* A run on the circle is as long as the run of numbers it stands for.
LEMMA RunIs ==
  ASSUME NEW S, NEW start \in SeqNums, NEW k \in 0 .. Mod, IsRunLength(S, start, k)
  PROVE  RunLength(S, start) = k
<1> DEFINE l == RunLength(S, start)
<1>1. l \in 0 .. Mod /\ IsRunLength(S, start, l)
  BY RunLengthIs
<1> HIDE DEF l
<1>2. Mod \in Nat
  BY ModType
<1>3. ASSUME l < k PROVE FALSE
  <2>1. l \in 0 .. k - 1 /\ l < Mod
    BY <1>1, <1>2, <1>3
  <2>2. QED
    BY <1>1, <2>1 DEF IsRunLength
<1>4. ASSUME k < l PROVE FALSE
  <2>1. k \in 0 .. l - 1 /\ k < Mod
    BY <1>1, <1>2, <1>4
  <2>2. QED
    BY <1>1, <2>1 DEF IsRunLength
<1>5. l = k
  BY <1>1, <1>2, <1>3, <1>4
<1>6. QED
  BY <1>5 DEF l

OnWire(A) == { Wire(n) : n \in A }
Above(A, h) == { m \in A : m > h }

\* A window that starts at g and buffers A, when the next gap is h.
Buffers(w, g, A, h) ==
  /\ w \in Window /\ w.lowest_unseen = Wire(g) /\ w.received = OnWire(A)
  /\ g \in Nat /\ h \in Nat /\ g <= h /\ h < g + Mod
  /\ A \subseteq g .. g + Mod - 1
  /\ g .. h - 1 \subseteq A /\ h \notin A

Moved(w, h, A) == [w EXCEPT !.lowest_unseen = Wire(h), !.received = OnWire(Above(A, h))]

\* advance_contiguous takes the window to the next gap.
LEMMA AdvanceIs ==
  ASSUME NEW w, NEW g, NEW A, NEW h, Buffers(w, g, A, h)
  PROVE  AdvanceContiguous(w) = Moved(w, h, A)
<1>1. /\ w \in Window /\ w.lowest_unseen = Wire(g) /\ w.received = OnWire(A)
      /\ g \in Nat /\ h \in Nat /\ g <= h /\ h < g + Mod
      /\ A \subseteq g .. g + Mod - 1 /\ A \subseteq Nat
      /\ g .. h - 1 \subseteq A /\ h \notin A
  BY DEF Buffers
<1> USE <1>1
<1> DEFINE k == h - g
<1>2. Mod \in Nat /\ k \in 0 .. Mod /\ k \in Nat /\ k < Mod /\ Wire(g) \in SeqNums
  BY ModType, Turns
<1>3. \A i \in 0 .. k : SeqAdd(Wire(g), i) = Wire(g + i)
  BY <1>2, WireAdds
<1>4. \A m \in A : Wire(m) = Wire(h) => m = h
  BY WireDiffers, <1>2
<1>5. Wire(h) \notin OnWire(A)
  BY <1>4 DEF OnWire
<1>6. \A i \in 0 .. k - 1 : g + i \in A
  BY <1>2
<1>7. IsRunLength(OnWire(A), Wire(g), k)
  <2>1. \A i \in 0 .. k - 1 : SeqAdd(Wire(g), i) \in OnWire(A)
    BY <1>2, <1>3, <1>6 DEF OnWire
  <2>2. SeqAdd(Wire(g), k) = Wire(h)
    BY <1>2, <1>3
  <2>3. QED
    BY <1>5, <2>1, <2>2 DEF IsRunLength
<1>8. RunLength(OnWire(A), Wire(g)) = k
  BY <1>2, <1>7, RunIs
<1>9. SeqAdd(Wire(g), k) = Wire(h)
  BY <1>2, <1>3
<1>10. RunOf(OnWire(A), Wire(g)) = OnWire(g .. h - 1)
  <2>1. RunOf(OnWire(A), Wire(g)) = { Wire(g + i) : i \in 0 .. k - 1 }
    BY <1>2, <1>3, <1>8 DEF RunOf
  <2>2. \A m \in g .. h - 1 : m - g \in 0 .. k - 1 /\ g + (m - g) = m
    BY <1>2
  <2>3. \A i \in 0 .. k - 1 : g + i \in g .. h - 1
    BY <1>2
  <2>4. ASSUME NEW x \in { Wire(g + i) : i \in 0 .. k - 1 }
        PROVE  x \in OnWire(g .. h - 1)
    BY <2>3 DEF OnWire
  <2>5. ASSUME NEW x \in OnWire(g .. h - 1)
        PROVE  x \in { Wire(g + i) : i \in 0 .. k - 1 }
    BY <2>2 DEF OnWire
  <2>6. QED
    BY <2>1, <2>4, <2>5
<1>11. OnWire(A) \ OnWire(g .. h - 1) = OnWire(Above(A, h))
  <2>1. \A m \in A, l \in A : Wire(m) = Wire(l) => m = l
    <3>1. ASSUME NEW m \in A, NEW l \in A, m < l PROVE Wire(m) # Wire(l)
      <4>1. m \in Nat /\ l \in Nat /\ l < m + Mod
        BY <1>2
      <4>2. QED
        BY <3>1, <4>1, WireDiffers
    <3>2. \A m \in A, l \in A : m = l \/ m < l \/ l < m
      BY <1>2
    <3>3. QED
      BY <3>1, <3>2
  <2>2. \A m \in A : m \in g .. h - 1 \/ m > h
    BY <1>2
  <2>3. \A m \in A : m > h => m \notin g .. h - 1
    BY <1>2
  <2>4. QED
    BY <2>1, <2>2, <2>3 DEF OnWire, Above
<1>12. QED
  BY <1>8, <1>9, <1>10, <1>11 DEF AdvanceContiguous, Moved

-----------------------------------------------------------------------------
\* The first gap g behind f in a set of arrivals.
IsGap(f, A, g) == g \in f .. MaxNumber + 1 /\ g \notin A /\ f .. g - 1 \subseteq A

LEMMA GapExists ==
  ASSUME NEW f \in Numbers, NEW A \in SUBSET (f .. MaxNumber)
  PROVE  IsGap(f, A, CHOOSE n \in f .. MaxNumber + 1 :
                       n \notin A /\ f .. n - 1 \subseteq A)
<1> DEFINE T == { n \in f .. MaxNumber + 1 : n \notin A }
<1>1. MaxNumber \in Nat /\ f \in Nat /\ f <= MaxNumber
  BY BoundsAssumption DEF Numbers
<1>2. T \subseteq Nat /\ MaxNumber + 1 \in T
  BY <1>1
<1>3. PICK n \in T : \A m \in T : n <= m
  BY <1>2, Least
<1>4. \A m \in f .. n - 1 : m \in A
  BY <1>1, <1>3
<1>5. n \in f .. MaxNumber + 1 /\ n \notin A /\ f .. n - 1 \subseteq A
  BY <1>3, <1>4
<1>6. QED
  BY <1>5 DEF IsGap

LEMMA GapIsOne ==
  ASSUME NEW f \in Nat, NEW A, NEW g, NEW h, IsGap(f, A, g), IsGap(f, A, h)
  PROVE  g = h
<1>1. MaxNumber \in Nat
  BY BoundsAssumption
<1>2. g \in Nat /\ h \in Nat
  BY <1>1 DEF IsGap
<1>3. ~(g < h)
  BY <1>2 DEF IsGap
<1>4. ~(h < g)
  BY <1>2 DEF IsGap
<1>5. QED
  BY <1>2, <1>3, <1>4

\* The window is the one of the arrivals since the first, modulo the circle:
\* it starts at the first gap and buffers what has arrived beyond it.
Beyond(g) == Above(arrived, g)

Started ==
  /\ window.started
  /\ first \in arrived
  /\ arrived \subseteq first .. MaxNumber
  /\ window.lowest_unseen = Wire(FirstGap)
  /\ window.received = OnWire(Beyond(FirstGap))
  /\ \A n \in arrived : n <= FirstGap + Ahead

Agrees ==
  /\ first \in Numbers \cup {-1}
  /\ window \in Window
  /\ first = -1 => window = NewWindow /\ arrived = {}
  /\ first # -1 => Started

LEMMA Gap ==
  ASSUME Agrees, first # -1
  PROVE  /\ IsGap(first, arrived, FirstGap)
         /\ first \in Nat /\ FirstGap \in Nat /\ first < FirstGap
         /\ FirstGap <= MaxNumber + 1
         /\ arrived \subseteq Nat
<1>1. MaxNumber \in Nat /\ first \in Numbers /\ first \in Nat
  BY BoundsAssumption DEF Agrees, Numbers
<1>2. arrived \in SUBSET (first .. MaxNumber) /\ first \in arrived
  BY DEF Agrees, Started
<1>3. IsGap(first, arrived, FirstGap)
  BY <1>1, <1>2, GapExists DEF FirstGap
<1>4. QED
  BY <1>1, <1>2, <1>3 DEF IsGap

\* is_new says what it should: from the first gap on, a number is new unless
\* it has arrived, and a number behind the gap never is.
LEMMA NewIs ==
  ASSUME Agrees, first # -1, NEW n \in Numbers, InReach(n), Lag < Half, Ahead < Half
  PROVE  IsNew(window, Wire(n)) <=> n >= FirstGap /\ n \notin arrived
<1> DEFINE g == FirstGap
<1>1. /\ Half \in Nat \ {0} /\ Mod = 2 * Half /\ n \in Nat
      /\ Lag \in Nat /\ Ahead \in Nat
      /\ g \in Nat /\ arrived \subseteq Nat /\ IsGap(first, arrived, g)
  BY HalfAssumption, BoundsAssumption, Gap DEF Mod, Numbers
<1>2. n \in g - Lag .. g + Ahead
  BY DEF InReach
<1>3. /\ window.started /\ window.lowest_unseen = Wire(g)
      /\ window.received = OnWire(Beyond(g))
      /\ \A m \in arrived : m <= g + Ahead
  BY DEF Agrees, Started
<1> HIDE DEF g
<1>4. SeqGreater(Wire(g), Wire(n)) <=> g > n
  BY <1>1, <1>2, WireGreater
<1>5. ASSUME n >= g
      PROVE  Wire(n) \in window.received <=> n \in arrived
  <2>1. n # g => (n \in Beyond(g) <=> n \in arrived)
    BY <1>1, <1>5 DEF Beyond, Above
  <2>2. ASSUME NEW m \in Beyond(g), Wire(m) = Wire(n) PROVE m = n
    <3>1. m \in Nat /\ m > g /\ m <= g + Ahead
      BY <1>1, <1>3 DEF Beyond, Above
    <3>2. ~(m < n)
      BY <1>1, <1>2, <2>2, <3>1, WireDiffers
    <3>3. ~(n < m)
      BY <1>1, <1>5, <2>2, <3>1, WireDiffers
    <3>4. QED
      BY <1>1, <3>1, <3>2, <3>3
  <2>3. g \notin arrived /\ g \notin Beyond(g)
    BY <1>1 DEF IsGap, Beyond, Above
  <2>4. Beyond(g) \subseteq arrived
    BY DEF Beyond, Above
  <2>5. Wire(n) \in window.received <=> n \in Beyond(g)
    BY <1>3, <2>2 DEF OnWire
  <2>6. QED
    BY <2>1, <2>3, <2>4, <2>5
<1>6. IsNew(window, Wire(n)) <=> ~(g > n) /\ Wire(n) \notin window.received
  BY <1>3, <1>4 DEF IsNew
<1>7. g > n <=> ~(n >= g)
  BY <1>1
<1>8. IsNew(window, Wire(n)) <=> n >= g /\ n \notin arrived
  BY <1>5, <1>6, <1>7
<1>9. QED
  BY <1>8 DEF g

\* A first arrival starts the window behind it.
LEMMA FirstArrival ==
  ASSUME Agrees, first = -1, NEW n \in Numbers, Arrive(n)
  PROVE  Agrees'
<1>1. /\ Mod \in Nat /\ Mod >= 2 /\ MaxNumber \in Nat /\ n \in Nat /\ n <= MaxNumber
      /\ Ahead \in Nat
  BY ModType, BoundsAssumption DEF Numbers
<1>2. window = NewWindow /\ arrived = {} /\ first' = n /\ arrived' = {n}
  BY <1>1 DEF Agrees, Arrive
<1>3. IsGap(n, {n}, n + 1)
  BY <1>1 DEF IsGap
<1>4. FirstGap' = n + 1
  <2>1. {n} \in SUBSET (n .. MaxNumber)
    BY <1>1
  <2>2. IsGap(n, {n}, FirstGap')
    BY <1>2, <2>1, GapExists DEF FirstGap
  <2>3. QED
    BY <1>1, <1>3, <2>2, GapIsOne
<1> DEFINE w == [ lowest_unseen |-> Wire(n), highest_seen |-> Wire(n),
                  received |-> {} \cup {Wire(n)}, started |-> TRUE ]
<1>5. window' = AdvanceContiguous(w)
  BY <1>2 DEF Arrive, Record, NewWindow
<1>6. w \in Window
  BY <1>1, Turns DEF Window
<1>7. w.received = OnWire({n})
  BY DEF OnWire
<1>8. window' = Moved(w, n + 1, {n})
  <2>1. Buffers(w, n, {n}, n + 1)
    <3>1. /\ n + 1 \in Nat /\ {n} \subseteq n .. n + Mod - 1
          /\ n <= n + 1 /\ n + 1 < n + Mod
          /\ n .. (n + 1) - 1 \subseteq {n} /\ n + 1 \notin {n}
      BY <1>1
    <3>2. w.lowest_unseen = Wire(n)
      OBVIOUS
    <3> HIDE DEF w
    <3>3. QED
      BY <1>1, <1>6, <1>7, <3>1, <3>2 DEF Buffers
  <2>2. QED
    BY <1>5, <2>1, AdvanceIs
<1>9. /\ window'.lowest_unseen = Wire(n + 1) /\ window'.started
      /\ window'.received = OnWire({})
  <2>1. Above({n}, n + 1) = {}
    BY <1>1 DEF Above
  <2>2. QED
    BY <1>8, <2>1 DEF Moved
<1>10. window' \in Window
  BY <1>1, Turns, RecordType DEF Agrees, Arrive
<1>11. Beyond(FirstGap)' = {}
  BY <1>1, <1>2, <1>4 DEF Beyond, Above
<1>12. Started'
  BY <1>1, <1>2, <1>4, <1>9, <1>11 DEF Started
<1>13. QED
  BY <1>1, <1>2, <1>10, <1>12 DEF Agrees, Numbers

\* A later arrival either changes nothing or takes the window to the new gap.
LEMMA LaterArrival ==
  ASSUME Agrees, first # -1, NEW n \in Numbers, Arrive(n), Lag < Half, Ahead < Half
  PROVE  /\ Agrees'
         /\ FirstGap' \in FirstGap .. FirstGap + Ahead + 1
<1> DEFINE g == FirstGap
           h == FirstGap'
<1>1. /\ Half \in Nat \ {0} /\ Mod = 2 * Half /\ n \in Nat /\ n <= MaxNumber
      /\ MaxNumber \in Nat /\ Lag \in Nat /\ Ahead \in Nat /\ Mod \in Nat
      /\ first \in Numbers
      /\ first \in Nat /\ g \in Nat /\ first < g /\ arrived \subseteq Nat
      /\ IsGap(first, arrived, g)
  BY HalfAssumption, BoundsAssumption, Gap DEF Mod, Numbers, Agrees
<1>2. /\ n \in g - Lag .. g + Ahead
      /\ window' = Record(window, Wire(n))
      /\ first' = first
      /\ arrived' = IF n >= first THEN arrived \cup {n} ELSE arrived
  BY DEF Arrive, InReach
<1>3. /\ window.started /\ window.lowest_unseen = Wire(g)
      /\ window.received = OnWire(Beyond(g)) /\ window \in Window
      /\ first \in arrived /\ arrived \subseteq first .. MaxNumber
      /\ \A m \in arrived : m <= g + Ahead
  BY DEF Agrees, Started
<1>4. IsNew(window, Wire(n)) <=> n >= g /\ n \notin arrived
  BY <1>2, NewIs DEF Arrive
<1>5. IsGap(first, arrived', h)
  <2>1. arrived' \in SUBSET (first .. MaxNumber)
    BY <1>1, <1>2, <1>3
  <2>2. QED
    BY <1>1, <1>2, <2>1, GapExists DEF FirstGap
<1> HIDE DEF g, h
<1>6. \A m \in arrived' : m \in Nat /\ m <= g + Ahead
  <2>1. n <= g + Ahead
    BY <1>1, <1>2
  <2>2. \A m \in arrived' : m = n \/ m \in arrived
    BY <1>2
  <2>3. QED
    BY <1>1, <1>3, <2>1, <2>2
<1>7. window' \in Window
  BY <1>1, <1>2, <1>3, Turns, RecordType
<1>8. h \in g .. g + Ahead + 1
  <2>1. h \in Nat
    BY <1>1, <1>5 DEF IsGap
  <2>2. ~(h < g)
    <3>1. ASSUME h < g PROVE FALSE
      <4>1. h \in first .. g - 1
        BY <1>1, <1>5, <2>1, <3>1 DEF IsGap
      <4>2. h \in arrived
        BY <1>1, <4>1 DEF IsGap
      <4>3. QED
        BY <1>2, <1>5, <4>2 DEF IsGap
    <3>2. QED
      BY <3>1
  <2>3. h <= g + Ahead + 1
    <3>1. CASE h = g
      BY <1>1, <3>1
    <3>2. CASE h > g
      <4>1. h - 1 \in first .. h - 1
        BY <1>1, <2>1, <3>2
      <4>2. h - 1 \in arrived'
        BY <1>5, <4>1 DEF IsGap
      <4>3. h - 1 <= g + Ahead
        BY <1>6, <4>2
      <4>4. QED
        BY <1>1, <2>1, <4>3
    <3>3. QED
      BY <1>1, <2>1, <2>2, <3>1, <3>2
  <2>4. QED
    BY <1>1, <2>1, <2>2, <2>3
<1>9. CASE ~IsNew(window, Wire(n))
  <2>1. window' = window
    BY <1>2, <1>3, <1>9 DEF Record
  <2>2. arrived' = arrived
    <3>1. n >= first => n \in arrived
      <4>1. ASSUME n >= first, n < g PROVE n \in arrived
        <5>1. n \in first .. g - 1
          BY <1>1, <4>1
        <5>2. QED
          BY <1>1, <5>1 DEF IsGap
      <4>2. QED
        BY <1>1, <1>4, <1>9, <4>1
    <3>2. QED
      BY <1>2, <3>1
  <2>3. h = g
    BY <1>1, <1>5, <2>2, GapIsOne
  <2>4. Beyond(FirstGap)' = Beyond(g)
    BY <2>2, <2>3 DEF Beyond, Above, h
  <2>5. Started'
    BY <1>2, <1>3, <2>1, <2>2, <2>3, <2>4 DEF Started, h
  <2>6. QED
    BY <1>1, <1>2, <1>7, <1>8, <2>5 DEF Agrees, g, h
<1>10. CASE IsNew(window, Wire(n))
  <2>1. n >= g /\ n \notin arrived /\ arrived' = arrived \cup {n}
    BY <1>1, <1>2, <1>4, <1>10
  <2> DEFINE A == { m \in arrived' : m >= g }
             w == [window EXCEPT !.received = @ \cup {Wire(n)},
                                 !.highest_seen = IF SeqGreater(Wire(n), @) THEN Wire(n) ELSE @]
  <2>2. window' = AdvanceContiguous(w)
    BY <1>2, <1>3, <1>10 DEF Record
  <2>3. w \in Window
    BY <1>1, <1>3, Turns DEF Window
  <2>4. /\ w.lowest_unseen = Wire(g) /\ w.started
        /\ w.received = OnWire(A)
    <3>1. g \notin arrived
      BY <1>1 DEF IsGap
    <3>2. A = Beyond(g) \cup {n}
      <4>1. \A m \in arrived : m >= g <=> m > g
        BY <1>1, <3>1
      <4>2. QED
        BY <2>1, <4>1 DEF Beyond, Above
    <3>3. w.received = OnWire(Beyond(g)) \cup {Wire(n)}
      BY <1>3 DEF Window
    <3>4. QED
      BY <1>3, <3>2, <3>3 DEF OnWire, Window
  <2>5. /\ A \in SUBSET Nat /\ A \subseteq g .. g + Mod - 1
        /\ h \in Nat /\ g <= h /\ h < g + Mod
        /\ g .. h - 1 \subseteq A /\ h \notin A
    <3>1. A \in SUBSET Nat /\ \A m \in A : m >= g /\ m <= g + Ahead
      BY <1>6
    <3>2. h \in Nat /\ g <= h /\ h <= g + Ahead + 1
      BY <1>1, <1>8
    <3>3. \A m \in g .. h - 1 : m \in arrived'
      BY <1>1, <1>5, <3>2 DEF IsGap
    <3>4. h \notin A
      BY <1>5 DEF IsGap
    <3>5. g .. h - 1 \subseteq A
      BY <1>1, <3>2, <3>3
    <3>6. Ahead + 1 < Mod
      BY <1>1
    <3>7. QED
      BY <1>1, <3>1, <3>2, <3>4, <3>5, <3>6
  <2>6. window' = Moved(w, h, A)
    <3>1. Buffers(w, g, A, h)
      BY <1>1, <2>3, <2>4, <2>5, Zenon DEF Buffers
    <3>2. QED
      BY <2>2, <3>1, AdvanceIs
  <2>7. Above(A, h) = Beyond(FirstGap)'
    <3>1. h \in Nat /\ g <= h
      BY <1>1, <1>8
    <3>2. \A m \in arrived' : m > h => m >= g
      BY <1>6, <1>1, <3>1
    <3>3. Above(A, h) = Above(arrived', h)
      BY <3>2 DEF Above
    <3>4. QED
      BY <3>3 DEF Beyond, h
  <2>8. /\ window'.lowest_unseen = Wire(h) /\ window'.started
        /\ window'.received = OnWire(Beyond(FirstGap)')
    BY <1>3, <2>6, <2>7 DEF Window, Moved
  <2>9. \A m \in arrived' : m <= h + Ahead
    BY <1>6, <1>1, <1>8
  <2>10. first' \in arrived' /\ arrived' \subseteq first' .. MaxNumber
    BY <1>1, <1>2, <1>3, <2>1
  <2>11. Started'
    BY <2>8, <2>9, <2>10 DEF Started, h
  <2>12. QED
    BY <1>1, <1>2, <1>7, <1>8, <2>11 DEF Agrees, g, h
<1>11. QED
  BY <1>9, <1>10 DEF g, h

-----------------------------------------------------------------------------
\* An arrival is one more exactly when the window calls it new.
LEMMA ArrivedIs ==
  ASSUME Agrees, NEW n \in Numbers, Arrive(n), Lag < Half, Ahead < Half
  PROVE  /\ IsNew(window, Wire(n)) => n \notin arrived /\ arrived' = arrived \cup {n}
         /\ ~IsNew(window, Wire(n)) => arrived' = arrived
<1>1. MaxNumber \in Nat /\ n \in Nat
  BY BoundsAssumption DEF Numbers
<1>2. CASE first = -1
  <2>1. IsNew(window, Wire(n)) /\ arrived = {}
    BY <1>2 DEF Agrees, IsNew, NewWindow
  <2>2. arrived' = arrived \cup {n}
    BY <1>1, <1>2 DEF Arrive
  <2>3. QED
    BY <2>1, <2>2
<1>3. CASE first # -1
  <2>1. /\ IsGap(first, arrived, FirstGap) /\ first \in Nat /\ FirstGap \in Nat
        /\ first < FirstGap
    BY <1>3, Gap
  <2>2. IsNew(window, Wire(n)) <=> n >= FirstGap /\ n \notin arrived
    BY <1>3, NewIs DEF Arrive
  <2>3. arrived' = IF n >= first THEN arrived \cup {n} ELSE arrived
    BY <1>3 DEF Arrive
  <2>4. ASSUME n >= first, n < FirstGap PROVE n \in arrived
    <3>1. n \in first .. FirstGap - 1
      BY <1>1, <2>1, <2>4
    <3>2. QED
      BY <2>1, <3>1 DEF IsGap
  <2>5. n >= FirstGap => n >= first
    BY <1>1, <2>1
  <2>6. n >= FirstGap \/ n < FirstGap
    BY <1>1, <2>1
  <2>7. QED
    BY <2>2, <2>3, <2>4, <2>5, <2>6
<1>4. QED
  BY <1>2, <1>3

Once ==
  /\ accepted \in [Numbers -> 0 .. 2]
  /\ \A n \in Numbers : accepted[n] = IF n \in arrived THEN 1 ELSE 0

LEMMA AgreesInit == Init => Agrees /\ Once
<1> SUFFICES ASSUME Init PROVE Agrees /\ Once
  OBVIOUS
<1>1. NewWindow \in Window
  BY ModType DEF NewWindow, Window
<1>2. QED
  BY <1>1 DEF Init, Agrees, Once

LEMMA AgreesStep ==
  ASSUME Lag < Half, Ahead < Half, Agrees, [Next]_vars
  PROVE  Agrees'
<1>1. ASSUME NEW n \in Numbers, Arrive(n) PROVE Agrees'
  BY <1>1, FirstArrival, LaterArrival
<1>2. CASE UNCHANGED vars
  BY <1>2 DEF vars, Agrees, Started, FirstGap, Beyond
<1>3. QED
  BY <1>1, <1>2 DEF Next

LEMMA OnceStep ==
  ASSUME Lag < Half, Ahead < Half, Agrees, Once, [Next]_vars
  PROVE  Once'
<1>1. ASSUME NEW n \in Numbers, Arrive(n) PROVE Once'
  <2>1. CASE IsNew(window, Wire(n))
    <3>1. n \notin arrived /\ arrived' = arrived \cup {n}
      BY <1>1, <2>1, ArrivedIs
    <3>2. accepted[n] = 0
      BY <3>1 DEF Once
    <3>3. accepted' = [accepted EXCEPT ![n] = 1]
      BY <1>1, <2>1, <3>2 DEF Arrive
    <3>4. QED
      BY <3>1, <3>3 DEF Once
  <2>2. CASE ~IsNew(window, Wire(n))
    <3>1. arrived' = arrived /\ accepted' = accepted
      BY <1>1, <2>2, ArrivedIs DEF Arrive
    <3>2. QED
      BY <3>1 DEF Once
  <2>3. QED
    BY <2>1, <2>2
<1>2. CASE UNCHANGED vars
  BY <1>2 DEF vars, Once
<1>3. QED
  BY <1>1, <1>2 DEF Next

\* The window calls every number from the first arrival on new exactly once,
\* at its first arrival, on a circle of any size and through any number of
\* wraps (reliability.rs:88-147), as long as what arrives is less than half
\* the circle away from the first gap.  Numbers older than the first arrival
\* are not among those the statement is about.
THEOREM NewOnce ==
  ASSUME Lag < Half, Ahead < Half
  PROVE  Spec => []NewOnceFromFirstOn
<1>1. Agrees /\ Once /\ [Next]_vars => Agrees' /\ Once'
  BY AgreesStep, OnceStep
<1>2. Once => NewOnceFromFirstOn
  BY DEF Once, NewOnceFromFirstOn
<1>3. QED
  BY <1>1, <1>2, AgreesInit, PTL DEF Spec

\* The window, its first number and the counters are of their kinds.
THEOREM TypesHold ==
  ASSUME Lag < Half, Ahead < Half
  PROVE  Spec => []TypeOK
<1>1. Agrees /\ Once /\ [Next]_vars => Agrees' /\ Once'
  BY AgreesStep, OnceStep
<1>2. Agrees /\ Once => TypeOK
  <2>1. ASSUME Agrees PROVE arrived \subseteq Numbers
    <3>1. MaxNumber \in Nat
      BY BoundsAssumption
    <3>2. CASE first = -1
      BY <2>1, <3>2 DEF Agrees
    <3>3. CASE first # -1
      BY <2>1, <3>1, <3>3 DEF Agrees, Started, Numbers
    <3>4. QED
      BY <3>2, <3>3
  <2>2. QED
    BY <2>1 DEF Agrees, Once, TypeOK
<1>3. QED
  BY <1>1, <1>2, AgreesInit, PTL DEF Spec

-----------------------------------------------------------------------------
\* highest_seen is the highest arrival.
IsHighest(A, h) == h \in A /\ \A m \in A : m <= h

(* The highest of the arrivals is at most Ahead beyond the gap.             *)
LEMMA HighestIs ==
  ASSUME Agrees, first # -1
  PROVE  /\ IsHighest(arrived, Highest) /\ Highest \in Nat
         /\ FirstGap - 1 <= Highest /\ Highest <= FirstGap + Ahead
<1>1. /\ MaxNumber \in Nat /\ arrived \in SUBSET (0 .. MaxNumber)
      /\ arrived # {} /\ \A n \in arrived : n <= FirstGap + Ahead
  BY BoundsAssumption, Gap DEF Agrees, Started
<1>2. \E n \in arrived : \A m \in arrived : m <= n
  BY <1>1, Greatest
<1>3. IsHighest(arrived, Highest)
  BY <1>2 DEF Highest, IsHighest
<1>4. FirstGap - 1 \in arrived
  <2>1. FirstGap - 1 \in first .. FirstGap - 1
    BY Gap
  <2>2. QED
    BY <2>1, Gap DEF IsGap
<1>5. FirstGap \in Nat /\ Highest \in Nat
  BY <1>1, <1>3, Gap DEF IsHighest
<1>6. FirstGap - 1 <= Highest
  BY <1>3, <1>4 DEF IsHighest
<1>7. Highest <= FirstGap + Ahead
  BY <1>1, <1>3 DEF IsHighest
<1>8. QED
  BY <1>3, <1>5, <1>6, <1>7

(* A set has one highest arrival.                                           *)
LEMMA HighestIsOne ==
  ASSUME NEW A \in SUBSET Nat, NEW h, NEW k, IsHighest(A, h), IsHighest(A, k)
  PROVE  h = k
<1>1. h \in Nat /\ k \in Nat /\ h <= k /\ k <= h
  BY DEF IsHighest
<1>2. QED
  BY <1>1

HighestAgrees == first # -1 => window.highest_seen = Wire(Highest)

(* highest_seen stays the highest arrival.                                  *)
LEMMA HighestStep ==
  ASSUME Lag < Half, Ahead + 1 < Half, Agrees, HighestAgrees, [Next]_vars
  PROVE  HighestAgrees'
<1>1. Ahead < Half /\ Ahead \in Nat /\ Half \in Nat
  BY BoundsAssumption, HalfAssumption
<1>2. ASSUME NEW n \in Numbers, Arrive(n), first = -1
      PROVE  HighestAgrees'
  <2>1. n \in Nat
    BY BoundsAssumption DEF Numbers
  <2>2. window = NewWindow /\ first' = n /\ arrived' = {n}
    BY <1>2, <2>1 DEF Agrees, Arrive
  <2>3. window'.highest_seen = Wire(n)
    BY <1>2, <2>2 DEF Arrive, Record, NewWindow, AdvanceContiguous
  <2>4. Highest' = n
    BY <2>1, <2>2 DEF Highest
  <2>5. QED
    BY <2>3, <2>4 DEF HighestAgrees
<1>3. ASSUME NEW n \in Numbers, Arrive(n), first # -1
      PROVE  HighestAgrees'
  <2> DEFINE g == FirstGap
             h == Highest
  <2>1. /\ n \in Nat /\ g \in Nat /\ arrived \subseteq Nat
        /\ n \in g - Lag .. g + Ahead /\ Lag \in Nat
    BY <1>3, Gap, BoundsAssumption DEF Arrive, InReach, Numbers
  <2>2. /\ IsHighest(arrived, h) /\ h \in Nat /\ g - 1 <= h /\ h <= g + Ahead
    BY <1>3, HighestIs
  <2>3. /\ window.highest_seen = Wire(h) /\ window.started /\ window \in Window
        /\ window' = Record(window, Wire(n))
    BY <1>3 DEF HighestAgrees, Agrees, Started, Arrive
  <2>4. Agrees' /\ first' # -1
    BY <1>1, <1>3, LaterArrival DEF Arrive, Numbers
  <2>5. IsHighest(arrived', Highest') /\ arrived' \subseteq Nat
    <3>1. arrived' \subseteq Nat
      BY <1>3, <2>1 DEF Arrive
    <3>2. MaxNumber \in Nat /\ arrived' \in SUBSET (0 .. MaxNumber) /\ arrived' # {}
      BY <1>3, <2>1, Gap, BoundsAssumption DEF Arrive, Agrees, Started, Numbers
    <3>3. \E k \in arrived' : \A m \in arrived' : m <= k
      BY <3>2, Greatest
    <3>4. QED
      BY <3>1, <3>3 DEF Highest, IsHighest
  <2> HIDE DEF g, h
  <2>6. CASE ~IsNew(window, Wire(n))
    <3>1. arrived' = arrived /\ window' = window
      BY <1>1, <1>3, <2>3, <2>6, ArrivedIs DEF Record
    <3>2. Highest' = h
      BY <2>1, <2>2, <2>5, <3>1, HighestIsOne
    <3>3. QED
      BY <2>3, <3>1, <3>2 DEF HighestAgrees
  <2>7. CASE IsNew(window, Wire(n))
    <3>1. n \notin arrived /\ arrived' = arrived \cup {n}
      BY <1>1, <1>3, <2>7, ArrivedIs
    <3>2. n >= g
      BY <1>1, <1>3, <2>7, NewIs DEF Arrive, g
    <3>3. SeqGreater(Wire(n), Wire(h)) <=> n > h
      <4>1. n < h + Half /\ h <= n + Half
        BY <1>1, <2>1, <2>2, <3>2
      <4>2. QED
        BY <2>1, <2>2, <4>1, WireGreater
    <3>4. window'.highest_seen = IF n > h THEN Wire(n) ELSE Wire(h)
      BY <2>3, <2>7, <3>3 DEF Record, AdvanceContiguous, Window
    <3>5. IsHighest(arrived', IF n > h THEN n ELSE h)
      BY <2>1, <2>2, <3>1 DEF IsHighest
    <3>6. Highest' = IF n > h THEN n ELSE h
      BY <2>5, <3>5, HighestIsOne
    <3>7. QED
      BY <3>4, <3>6 DEF HighestAgrees
  <2>8. QED
    BY <2>6, <2>7
<1>4. CASE UNCHANGED vars
  BY <1>4 DEF vars, HighestAgrees, Highest
<1>5. QED
  BY <1>2, <1>3, <1>4 DEF Next

-----------------------------------------------------------------------------
\* A record says which numbers it was made of.
LEMMA NamedIs ==
  ASSUME NEW a \in Nat, NEW b \in Nat, a <= b, b < a + Mod
  PROVE  Named(RangeOrSingle(Wire(a), Wire(b))) = OnWire(a .. b)
<1>1. /\ Mod \in Nat /\ Wire(a) \in SeqNums /\ Wire(b) \in SeqNums
      /\ Wire(a) # NoEnd /\ Wire(b) # NoEnd
  BY ModType, Turns DEF SeqNums, NoEnd
<1>2. CASE a = b
  <2>1. a .. b = {a}
    BY <1>2
  <2>2. QED
    BY <1>1, <1>2, <2>1 DEF RangeOrSingle, Single, Named, OnWire
<1>3. CASE a # b
  <2>1. Wire(a) # Wire(b)
    BY <1>1, <1>3, WireDiffers
  <2>2. SeqForwardDistance(Wire(a), Wire(b)) = b - a
    BY WireDistance
  <2>3. Named(RangeOrSingle(Wire(a), Wire(b)))
          = { SeqAdd(Wire(a), i) : i \in 0 .. b - a }
    BY <1>1, <2>1, <2>2 DEF RangeOrSingle, Span, Named
  <2>4. \A i \in 0 .. b - a : SeqAdd(Wire(a), i) = Wire(a + i) /\ a + i \in a .. b
    <3>1. \A i \in 0 .. b - a : i \in 0 .. Mod
      BY <1>1
    <3>2. QED
      BY <1>1, <3>1, WireAdds
  <2>5. \A m \in a .. b : m - a \in 0 .. b - a /\ a + (m - a) = m
    OBVIOUS
  <2>6. ASSUME NEW x \in { SeqAdd(Wire(a), i) : i \in 0 .. b - a }
        PROVE  x \in OnWire(a .. b)
    BY <2>4 DEF OnWire
  <2>7. ASSUME NEW x \in OnWire(a .. b)
        PROVE  x \in { SeqAdd(Wire(a), i) : i \in 0 .. b - a }
    <3>1. PICK m \in a .. b : x = Wire(m)
      BY DEF OnWire
    <3>2. x = SeqAdd(Wire(a), m - a) /\ m - a \in 0 .. b - a
      BY <2>4, <2>5, <3>1
    <3>3. QED
      BY <3>2
  <2>8. QED
    BY <2>3, <2>6, <2>7
<1>4. QED
  BY <1>2, <1>3

\* missing names the gaps between the first one and the highest arrival.
LEMMA MissingIs ==
  ASSUME Agrees, HighestAgrees, first # -1, Ahead < Half
  PROVE  NamedBy(Missing(window)) = OnWire((FirstGap .. Highest) \ arrived)
<1> DEFINE g == FirstGap
           h == Highest
           span == SeqForwardDistance(window.lowest_unseen, window.highest_seen)
           absent == { i \in 0 .. span :
                         SeqAdd(window.lowest_unseen, i) \notin window.received }
<1>1. /\ Half \in Nat \ {0} /\ Mod = 2 * Half /\ Mod \in Nat /\ Ahead \in Nat
      /\ g \in Nat /\ arrived \subseteq Nat /\ g \notin arrived
      /\ h \in Nat /\ h <= g + Ahead /\ g - 1 <= h /\ IsHighest(arrived, h)
  BY HalfAssumption, BoundsAssumption, ModType, Gap, HighestIs DEF IsGap, Mod
<1>2. /\ window.started /\ window.lowest_unseen = Wire(g)
      /\ window.received = OnWire(Beyond(g))
      /\ window.highest_seen = Wire(h)
  BY DEF Agrees, Started, HighestAgrees
<1> HIDE DEF g, h
<1>3. CASE Beyond(g) = {}
  <2>1. window.received = {}
    BY <1>2, <1>3 DEF OnWire
  <2>2. Missing(window) = {}
    BY <2>1 DEF Missing
  <2>3. h < g
    BY <1>1, <1>3 DEF Beyond, Above, IsHighest
  <2>4. (g .. h) \ arrived = {}
    BY <1>1, <2>3
  <2>5. QED
    BY <2>2, <2>4 DEF NamedBy, OnWire, g, h
<1>4. CASE Beyond(g) # {}
  <2>1. h > g
    <3>1. PICK m \in Beyond(g) : TRUE
      BY <1>4
    <3>2. m \in arrived /\ m > g
      BY <3>1 DEF Beyond, Above
    <3>3. m \in Nat /\ m <= h
      BY <1>1, <3>2 DEF IsHighest
    <3>4. QED
      BY <1>1, <3>2, <3>3
  <2>2. span = h - g /\ span \in Nat /\ span # 0 /\ span < Mod
    BY <1>1, <1>2, <2>1, WireDistance
  <2>3. window.received # {}
    BY <1>2, <1>4 DEF OnWire
  <2>4. Missing(window) = { RangeOrSingle(SeqAdd(window.lowest_unseen, r[1]),
                                          SeqAdd(window.lowest_unseen, r[2]))
                              : r \in MaximalRuns(absent) }
    BY <1>2, <2>2, <2>3 DEF Missing
  <2>5. \A i \in 0 .. span : SeqAdd(window.lowest_unseen, i) = Wire(g + i)
    <3>1. \A i \in 0 .. span : i \in 0 .. Mod
      BY <1>1, <2>2
    <3>2. QED
      BY <1>1, <1>2, <3>1, WireAdds
  <2>6. \A i \in 0 .. span : Wire(g + i) \in window.received <=> g + i \in arrived
    <3>1. SUFFICES ASSUME NEW i \in 0 .. span
                   PROVE  Wire(g + i) \in OnWire(Beyond(g)) <=> g + i \in arrived
      BY <1>2
    <3>2. g + i \in Nat /\ g + i >= g /\ g + i <= h
      BY <1>1, <2>2
    <3>3. g + i \in arrived <=> g + i \in Beyond(g)
      BY <1>1, <3>2 DEF Beyond, Above
    <3>4. ASSUME NEW m \in Beyond(g), Wire(m) = Wire(g + i) PROVE m = g + i
      <4>1. m \in Nat /\ m > g /\ m <= h
        BY <1>1 DEF Beyond, Above, IsHighest
      <4>2. ~(m < g + i)
        BY <1>1, <3>2, <3>4, <4>1, WireDiffers
      <4>3. ~(g + i < m)
        BY <1>1, <3>2, <3>4, <4>1, WireDiffers
      <4>4. QED
        BY <3>2, <4>1, <4>2, <4>3
    <3>5. QED
      BY <3>3, <3>4 DEF OnWire
  <2>7. /\ absent \in SUBSET (0 .. span)
        /\ \A i \in 0 .. span : i \in absent <=> g + i \notin arrived
    BY <2>5, <2>6
  <2> HIDE DEF span, absent
  <2>8. ASSUME NEW r \in MaximalRuns(absent)
        PROVE  /\ r[1] \in 0 .. span /\ r[2] \in 0 .. span /\ r[1] <= r[2]
               /\ r[1] .. r[2] \subseteq absent
               /\ Named(RangeOrSingle(SeqAdd(window.lowest_unseen, r[1]),
                                      SeqAdd(window.lowest_unseen, r[2])))
                    = OnWire(g + r[1] .. g + r[2])
    <3>1. /\ r[1] \in 0 .. span /\ r[2] \in 0 .. span /\ r[1] <= r[2]
          /\ r[1] .. r[2] \subseteq absent
      BY <2>7 DEF MaximalRuns
    <3>2. /\ g + r[1] \in Nat /\ g + r[2] \in Nat /\ g + r[1] <= g + r[2]
          /\ g + r[2] < g + r[1] + Mod
      BY <1>1, <2>2, <3>1
    <3>3. QED
      BY <2>5, <3>1, <3>2, NamedIs
  <2>9. ASSUME NEW x \in NamedBy(Missing(window))
        PROVE  x \in OnWire((g .. h) \ arrived)
    <3>1. PICK r \in MaximalRuns(absent) :
            x \in Named(RangeOrSingle(SeqAdd(window.lowest_unseen, r[1]),
                                      SeqAdd(window.lowest_unseen, r[2])))
      BY <2>4, <2>9 DEF NamedBy
    <3>2. PICK n \in g + r[1] .. g + r[2] : x = Wire(n)
      BY <2>8, <3>1 DEF OnWire
    <3>3. /\ n - g \in r[1] .. r[2] /\ g + (n - g) = n /\ n \in g .. h
      BY <1>1, <2>2, <2>8, <3>2
    <3>4. n - g \in absent
      BY <2>8, <3>3
    <3>5. n \notin arrived
      BY <2>7, <3>3, <3>4
    <3>6. QED
      BY <3>2, <3>3, <3>5 DEF OnWire
  <2>10. ASSUME NEW x \in OnWire((g .. h) \ arrived)
         PROVE  x \in NamedBy(Missing(window))
    <3>1. PICK n \in (g .. h) \ arrived : x = Wire(n)
      BY DEF OnWire
    <3>2. n - g \in 0 .. span /\ g + (n - g) = n
      BY <1>1, <2>2, <3>1
    <3>3. n - g \in absent
      BY <2>7, <3>1, <3>2
    <3>4. PICK r \in MaximalRuns(absent) : n - g \in r[1] .. r[2]
      BY <2>2, <2>7, <3>3, RunsCover
    <3>5. n \in g + r[1] .. g + r[2]
      BY <1>1, <2>2, <2>8, <3>2, <3>4
    <3>6. x \in Named(RangeOrSingle(SeqAdd(window.lowest_unseen, r[1]),
                                    SeqAdd(window.lowest_unseen, r[2])))
      BY <2>8, <3>1, <3>5 DEF OnWire
    <3>7. QED
      BY <2>4, <3>6 DEF NamedBy
  <2>11. QED
    BY <2>9, <2>10 DEF g, h
<1>5. QED
  BY <1>3, <1>4

\* A NACK asks for exactly the gaps, on a circle of any size and through any
\* number of wraps: build_nack forgets none and asks for none that has arrived
\* (reliability.rs:150-169).
THEOREM NackIsExact ==
  ASSUME Lag < Half, Ahead + 1 < Half
  PROVE  Spec => []NackNamesTheGaps
<1>1. Ahead < Half
  BY BoundsAssumption, HalfAssumption
<1>2. Agrees /\ HighestAgrees /\ [Next]_vars => Agrees' /\ HighestAgrees'
  BY <1>1, AgreesStep, HighestStep
<1>3. Agrees /\ HighestAgrees => NackNamesTheGaps
  BY <1>1, MissingIs DEF NackNamesTheGaps, OnWire
<1>4. Init => Agrees /\ HighestAgrees
  BY AgreesInit DEF Init, HighestAgrees
<1>5. QED
  BY <1>2, <1>3, <1>4, PTL DEF Spec
------------------------------------------------------------------------------
(* The frames on the wire (src/bedrock/datagram.rs).                        *)

(* data holds these bytes from pos on, and the cursor there.                *)
Holds(data, pos, bytes) ==
    /\ pos + Len(bytes) <= Len(data)
    /\ \A i \in 1 .. Len(bytes) : data[pos + i] = bytes[i]

At(data, pos) == [data |-> data, pos |-> pos, ok |-> TRUE]

(* What stands behind one another in a concatenation does so in data.       *)
LEMMA HoldsParts ==
  ASSUME NEW data \in Seq(Byte), NEW pos \in Nat,
         NEW s \in Seq(Byte), NEW t \in Seq(Byte),
         Holds(data, pos, s \o t)
  PROVE  Holds(data, pos, s) /\ Holds(data, pos + Len(s), t)
<1>1. /\ Len(s \o t) = Len(s) + Len(t) /\ Len(s) \in Nat /\ Len(t) \in Nat
      /\ \A i \in 1 .. Len(s) : (s \o t)[i] = s[i]
      /\ \A i \in 1 .. Len(t) : (s \o t)[Len(s) + i] = t[i]
  OBVIOUS
<1>2. Len(data) \in Nat
  OBVIOUS
<1>3. \A i \in 1 .. Len(s) + Len(t) : data[pos + i] = (s \o t)[i]
  BY <1>1 DEF Holds
<1>4. pos + Len(s) + Len(t) <= Len(data)
  BY <1>1, <1>2 DEF Holds
<1>5. Holds(data, pos, s)
  <2>1. \A i \in 1 .. Len(s) : data[pos + i] = s[i]
    BY <1>1, <1>3
  <2>2. QED
    BY <1>1, <1>2, <1>4, <2>1 DEF Holds
<1>6. Holds(data, pos + Len(s), t)
  <2>1. \A i \in 1 .. Len(t) : data[pos + Len(s) + i] = t[i]
    <3>1. \A i \in 1 .. Len(t) : /\ Len(s) + i \in 1 .. Len(s) + Len(t)
                                 /\ pos + (Len(s) + i) = pos + Len(s) + i
      BY <1>1
    <3>2. QED
      BY <1>1, <1>3, <3>1
  <2>2. QED
    BY <1>1, <1>2, <1>4, <2>1 DEF Holds
<1>7. QED
  BY <1>5, <1>6

(* read_bytes returns what stands at the cursor and passes it (PacketBuf).   *)
LEMMA ReadsBytes ==
  ASSUME NEW data \in Seq(Byte), NEW pos \in Nat, NEW s \in Seq(Byte),
         Holds(data, pos, s)
  PROVE  /\ D!Bytes(At(data, pos), Len(s)) = s
         /\ D!Skip(At(data, pos), Len(s)) = At(data, pos + Len(s))
<1>1. Len(data) \in Nat /\ Len(s) \in Nat /\ pos + Len(s) <= Len(data)
  BY DEF Holds
<1>2. D!Ensure(At(data, pos), Len(s))
  BY <1>1 DEF D!Ensure, D!Remaining, At
<1>3. D!Bytes(At(data, pos), Len(s)) = SubSeq(data, pos + 1, pos + Len(s))
  BY <1>2 DEF D!Bytes, At
<1>4. SubSeq(data, pos + 1, pos + Len(s)) = s
  <2>1. /\ SubSeq(data, pos + 1, pos + Len(s)) \in Seq(Byte)
        /\ Len(SubSeq(data, pos + 1, pos + Len(s))) = Len(s)
        /\ \A i \in 1 .. Len(s) :
             SubSeq(data, pos + 1, pos + Len(s))[i] = data[pos + i]
    BY <1>1
  <2>2. \A i \in 1 .. Len(s) : data[pos + i] = s[i]
    BY DEF Holds
  <2>3. QED
    BY <2>1, <2>2, SeqEqual
<1>5. D!Skip(At(data, pos), Len(s)) = At(data, pos + Len(s))
  BY <1>2 DEF D!Skip, At
<1>6. QED
  BY <1>3, <1>4, <1>5

(* One byte is read back.                                                   *)
LEMMA ReadsU8 ==
  ASSUME NEW data \in Seq(Byte), NEW pos \in Nat, NEW v \in Byte,
         Holds(data, pos, <<v>>)
  PROVE  /\ D!U8(At(data, pos)) = v
         /\ D!Skip(At(data, pos), 1) = At(data, pos + 1)
<1>1. <<v>> \in Seq(Byte) /\ Len(<<v>>) = 1 /\ <<v>>[1] = v
  OBVIOUS
<1>2. D!Bytes(At(data, pos), 1) = <<v>> /\ D!Skip(At(data, pos), 1) = At(data, pos + 1)
  BY <1>1, ReadsBytes
<1>3. QED
  BY <1>1, <1>2 DEF D!U8

U32Max == 65536 * 65536 - 1

(* The largest number of each width.                                        *)
LEMMA Widths ==
  /\ D!U16Max \in Nat /\ D!U16Max + 1 = 65536
  /\ D!U24Max \in Nat /\ D!U24Max + 1 = 256 * 65536
  /\ U32Max \in Nat /\ U32Max + 1 = 65536 * 65536
BY SMT DEF D!U16Max, D!U24Max, U32Max

(* A number of 16 bits is made up of its two bytes.                         *)
LEMMA TwoBytes ==
  ASSUME NEW v \in 0 .. D!U16Max
  PROVE  /\ v % 256 \in Byte /\ (v \div 256) % 256 \in Byte
         /\ 256 * ((v \div 256) % 256) + (v % 256) = v
<1>1. v \in Nat /\ v < 65536
  BY Widths, SMT
<1>2. v % 256 \in 0 .. 255 /\ (v \div 256) % 256 \in 0 .. 255
  BY <1>1, SMT
<1>3. 256 * ((v \div 256) % 256) + (v % 256) = v
  BY <1>1, SMT
<1>4. QED
  BY <1>2, <1>3 DEF Byte

(* A number of 24 bits is made up of its three bytes.                       *)
LEMMA ThreeBytes ==
  ASSUME NEW v \in 0 .. D!U24Max
  PROVE  /\ v % 256 \in Byte /\ (v \div 256) % 256 \in Byte
         /\ (v \div 65536) % 256 \in Byte
         /\ (v % 256) + 256 * ((v \div 256) % 256)
              + 65536 * ((v \div 65536) % 256) = v
<1>1. v \in Nat /\ v < 256 * 65536
  BY Widths, SMT
<1>2. /\ v % 256 \in 0 .. 255 /\ (v \div 256) % 256 \in 0 .. 255
      /\ (v \div 65536) % 256 \in 0 .. 255
  BY <1>1, SMT
<1>3. (v % 256) + 256 * ((v \div 256) % 256)
        + 65536 * ((v \div 65536) % 256) = v
  BY <1>1, SMT
<1>4. QED
  BY <1>2, <1>3 DEF Byte

(* A 16-bit number is read back as it was put.                              *)
LEMMA ReadsU16 ==
  ASSUME NEW data \in Seq(Byte), NEW pos \in Nat, NEW v \in 0 .. D!U16Max,
         Holds(data, pos, D!PutU16(v))
  PROVE  /\ D!U16(At(data, pos)) = v
         /\ D!Skip(At(data, pos), 2) = At(data, pos + 2)
         /\ D!PutU16(v) \in Seq(Byte) /\ Len(D!PutU16(v)) = 2
<1> DEFINE a == (v \div 256) % 256
           b == v % 256
           s == D!PutU16(v)
<1>1. a \in Byte /\ b \in Byte /\ 256 * a + b = v
  BY TwoBytes
<1>2. s = <<a, b>>
  BY DEF D!PutU16
<1> HIDE DEF a, b, s
<1>3. s \in Seq(Byte) /\ Len(s) = 2 /\ s[1] = a /\ s[2] = b
  BY <1>1, <1>2
<1>4. /\ D!Bytes(At(data, pos), Len(s)) = s
      /\ D!Skip(At(data, pos), Len(s)) = At(data, pos + Len(s))
  <2>1. Holds(data, pos, s)
    BY DEF s
  <2>2. QED
    BY <1>3, <2>1, ReadsBytes
<1>5. /\ D!Bytes(At(data, pos), 2) = s
      /\ D!Skip(At(data, pos), 2) = At(data, pos + 2)
  BY <1>3, <1>4
<1>6. D!U16(At(data, pos)) = v
  BY <1>1, <1>3, <1>5 DEF D!U16
<1>7. QED
  BY <1>3, <1>5, <1>6 DEF s

(* A 24-bit number, low byte first, is read back as it was put.             *)
LEMMA ReadsU24 ==
  ASSUME NEW data \in Seq(Byte), NEW pos \in Nat, NEW v \in 0 .. D!U24Max,
         Holds(data, pos, D!PutU24LE(v))
  PROVE  /\ D!U24LE(At(data, pos)) = v
         /\ D!Skip(At(data, pos), 3) = At(data, pos + 3)
         /\ D!PutU24LE(v) \in Seq(Byte) /\ Len(D!PutU24LE(v)) = 3
<1> DEFINE a == v % 256
           b == (v \div 256) % 256
           c == (v \div 65536) % 256
           s == D!PutU24LE(v)
<1>1. a \in Byte /\ b \in Byte /\ c \in Byte /\ a + 256 * b + 65536 * c = v
  BY ThreeBytes
<1>2. s = <<a, b, c>>
  BY DEF D!PutU24LE
<1> HIDE DEF a, b, c, s
<1>3. s \in Seq(Byte) /\ Len(s) = 3 /\ s[1] = a /\ s[2] = b /\ s[3] = c
  BY <1>1, <1>2
<1>4. /\ D!Bytes(At(data, pos), Len(s)) = s
      /\ D!Skip(At(data, pos), Len(s)) = At(data, pos + Len(s))
  <2>1. Holds(data, pos, s)
    BY DEF s
  <2>2. QED
    BY <1>3, <2>1, ReadsBytes
<1>5. /\ D!Bytes(At(data, pos), 3) = s
      /\ D!Skip(At(data, pos), 3) = At(data, pos + 3)
  BY <1>3, <1>4
<1>6. D!U24LE(At(data, pos)) = v
  BY <1>1, <1>3, <1>5 DEF D!U24LE
<1>7. QED
  BY <1>3, <1>5, <1>6 DEF s

(* A 32-bit number is read back as it was put.                              *)
LEMMA ReadsU32 ==
  ASSUME NEW data \in Seq(Byte), NEW pos \in Nat,
         NEW v \in 0 .. U32Max, Holds(data, pos, D!PutU32(v))
  PROVE  /\ D!U32(At(data, pos)) = v
         /\ D!Skip(At(data, pos), 4) = At(data, pos + 4)
         /\ D!PutU32(v) \in Seq(Byte) /\ Len(D!PutU32(v)) = 4
<1> DEFINE h == v \div 65536
           l == v % 65536
           a == (h \div 256) % 256
           b == h % 256
           c == (l \div 256) % 256
           d == l % 256
           s == D!PutU32(v)
<1>1. h \in 0 .. D!U16Max /\ l \in 0 .. D!U16Max /\ 65536 * h + l = v
  <2>1. v \in Nat /\ v < 65536 * 65536
    BY Widths, SMT
  <2>2. h \in Nat /\ l \in Nat /\ h < 65536 /\ l < 65536 /\ 65536 * h + l = v
    BY <2>1, SMT
  <2> HIDE DEF h, l
  <2>3. QED
    BY <2>2, Widths, SMT
<1>2. s = D!PutU16(h) \o D!PutU16(l)
  BY DEF D!PutU32
<1> HIDE DEF h, l
<1>3. /\ a \in Byte /\ b \in Byte /\ 256 * a + b = h
      /\ c \in Byte /\ d \in Byte /\ 256 * c + d = l
  BY <1>1, TwoBytes
<1>4. s = <<a, b>> \o <<c, d>>
  BY <1>2 DEF D!PutU16
<1> HIDE DEF a, b, c, d, s
<1>5. s \in Seq(Byte) /\ Len(s) = 4 /\ s[1] = a /\ s[2] = b /\ s[3] = c /\ s[4] = d
  BY <1>3, <1>4
<1>6. /\ D!Bytes(At(data, pos), Len(s)) = s
      /\ D!Skip(At(data, pos), Len(s)) = At(data, pos + Len(s))
  <2>1. Holds(data, pos, s)
    BY DEF s
  <2>2. QED
    BY <1>5, <2>1, ReadsBytes
<1>7. /\ D!Bytes(At(data, pos), 4) = s
      /\ D!Skip(At(data, pos), 4) = At(data, pos + 4)
  BY <1>5, <1>6
<1>8. 256 * (256 * (256 * a + b) + c) + d = v
  <2>1. a \in Nat /\ b \in Nat /\ c \in Nat /\ d \in Nat
    BY <1>3 DEF Byte
  <2>2. QED
    BY <2>1, <1>1, <1>3, SMT
<1>9. D!U32(At(data, pos)) = v
  BY <1>5, <1>7, <1>8 DEF D!U32
<1>10. QED
  BY <1>5, <1>7, <1>9 DEF s

(* A number is put as bytes, as many as its width.                          *)
LEMMA PutTypes ==
  /\ \A v \in 0 .. D!U16Max : D!PutU16(v) \in Seq(Byte) /\ Len(D!PutU16(v)) = 2
  /\ \A v \in 0 .. D!U24Max : D!PutU24LE(v) \in Seq(Byte) /\ Len(D!PutU24LE(v)) = 3
  /\ \A v \in 0 .. U32Max : D!PutU32(v) \in Seq(Byte) /\ Len(D!PutU32(v)) = 4
<1>1. ASSUME NEW v \in 0 .. D!U16Max
      PROVE  D!PutU16(v) \in Seq(Byte) /\ Len(D!PutU16(v)) = 2
  BY TwoBytes DEF D!PutU16
<1>2. ASSUME NEW v \in 0 .. D!U24Max
      PROVE  D!PutU24LE(v) \in Seq(Byte) /\ Len(D!PutU24LE(v)) = 3
  BY ThreeBytes DEF D!PutU24LE
<1>3. ASSUME NEW v \in 0 .. U32Max
      PROVE  D!PutU32(v) \in Seq(Byte) /\ Len(D!PutU32(v)) = 4
  <2> DEFINE h == v \div 65536
             l == v % 65536
  <2>1. h \in 0 .. D!U16Max /\ l \in 0 .. D!U16Max
    <3>1. v \in Nat /\ v < 65536 * 65536
      BY Widths, SMT
    <3>2. h \in Nat /\ l \in Nat /\ h < 65536 /\ l < 65536
      BY <3>1, SMT
    <3> HIDE DEF h, l
    <3>3. QED
      BY <3>2, Widths, SMT
  <2>2. D!PutU32(v) = D!PutU16(h) \o D!PutU16(l)
    BY DEF D!PutU32
  <2> HIDE DEF h, l
  <2>3. PICK x \in Seq(Byte) : x = D!PutU16(h) /\ Len(x) = 2
    BY <1>1, <2>1
  <2>4. PICK y \in Seq(Byte) : y = D!PutU16(l) /\ Len(y) = 2
    BY <1>1, <2>1
  <2>5. x \o y \in Seq(Byte) /\ Len(x \o y) = Len(x) + Len(y)
    BY ConcatProperties
  <2>6. QED
    BY <2>2, <2>3, <2>4, <2>5
<1>4. QED
  BY <1>1, <1>2, <1>3

(* Frames as the encoder takes them: an index is there when its kind        *)
(* carries it, and the channel counts only beside an order index.           *)

Splits == [count : 0 .. U32Max, id : 0 .. D!U16Max, index : 0 .. U32Max]

FrameValues ==
    { f \in [ reliability    : D!Reliabilities,
              reliable_index : Index \cup {D!None},
              sequence_index : Index \cup {D!None},
              order_index    : Index \cup {D!None},
              order_channel  : Byte,
              split          : Splits \cup {D!NoSplit},
              body           : Seq(Byte) ] :
        D!FrameEncodes(f) /\ (D!CarriesOrder(f.reliability) \/ f.order_channel = 0) }

(* The split field's ten bytes.                                             *)
LEMMA ReadsSplit ==
  ASSUME NEW data \in Seq(Byte), NEW pos \in Nat, NEW split \in Splits,
         Holds(data, pos, D!PutU32(split.count) \o D!PutU16(split.id)
                            \o D!PutU32(split.index))
  PROVE  [ count |-> D!U32(At(data, pos)), id |-> D!U16(D!Skip(At(data, pos), 4)),
           index |-> D!U32(D!Skip(At(data, pos), 6)) ] = split
<1>1. split.count \in 0 .. U32Max /\ split.id \in 0 .. D!U16Max
      /\ split.index \in 0 .. U32Max
  BY DEF Splits
<1>2. PICK a \in Seq(Byte) : a = D!PutU32(split.count) /\ Len(a) = 4
  BY <1>1, PutTypes
<1>3. PICK b \in Seq(Byte) : b = D!PutU16(split.id) /\ Len(b) = 2
  BY <1>1, PutTypes
<1>4. PICK c \in Seq(Byte) : c = D!PutU32(split.index) /\ Len(c) = 4
  BY <1>1, PutTypes
<1>5. a \o b \in Seq(Byte) /\ Len(a \o b) = Len(a) + Len(b)
  BY ConcatProperties
<1>6. Holds(data, pos, (a \o b) \o c)
  BY <1>2, <1>3, <1>4
<1>7. Holds(data, pos, a \o b) /\ Holds(data, pos + Len(a \o b), c)
  BY <1>5, <1>6, HoldsParts
<1>8. Holds(data, pos, a) /\ Holds(data, pos + Len(a), b)
  BY <1>7, HoldsParts
<1>9. pos + 4 \in Nat /\ pos + 6 \in Nat /\ Len(a \o b) = 6
  BY <1>2, <1>3, <1>5
<1>10. /\ Holds(data, pos, D!PutU32(split.count))
       /\ Holds(data, pos + 4, D!PutU16(split.id))
       /\ Holds(data, pos + 6, D!PutU32(split.index))
  BY <1>2, <1>3, <1>4, <1>7, <1>8, <1>9
<1>11. /\ D!U32(At(data, pos)) = split.count
       /\ D!Skip(At(data, pos), 4) = At(data, pos + 4)
  BY <1>1, <1>10, ReadsU32
<1>12. D!U16(At(data, pos + 4)) = split.id
  BY <1>1, <1>9, <1>10, ReadsU16
<1>13. D!U32(At(data, pos + 6)) = split.index
  BY <1>1, <1>9, <1>10, ReadsU32
<1>14. D!Skip(At(data, pos), 6) = At(data, pos + 6)
  <2>1. Len(a \o b) = 6 /\ a \o b \in Seq(Byte)
    BY <1>5, <1>9
  <2>2. D!Skip(At(data, pos), Len(a \o b)) = At(data, pos + Len(a \o b))
    BY <2>1, <1>7, ReadsBytes
  <2>3. QED
    BY <2>1, <2>2
<1>15. QED
  BY <1>11, <1>12, <1>13, <1>14 DEF Splits

(* The first byte: the kind's raw value and the bit of the split field.     *)
LEMMA ReadsFlags ==
  ASSUME NEW data \in Seq(Byte), NEW pos \in Nat, NEW r \in D!Reliabilities,
         NEW cond \in BOOLEAN,
         Holds(data, pos, <<32 * r + D!PutBit(cond, 16)>>)
  PROVE  /\ <<32 * r + D!PutBit(cond, 16)>> \in Seq(Byte)
         /\ D!U8(At(data, pos)) \div 32 = r
         /\ ((D!U8(At(data, pos)) \div 16) % 2 = 1) = cond
         /\ D!Skip(At(data, pos), 1) = At(data, pos + 1)
<1> DEFINE v == 32 * r + D!PutBit(cond, 16)
<1>1. CASE cond
  <2>1. v = 32 * r + 16
    BY <1>1 DEF D!PutBit
  <2>2. r \in 0 .. 4
    BY DEF D!Reliabilities
  <2>3. 32 * r + 16 \in 0 .. 255 /\ (32 * r + 16) \div 32 = r
        /\ ((32 * r + 16) \div 16) % 2 = 1
    BY <2>2, SMT
  <2> HIDE DEF v
  <2>4. v \in Byte
    BY <2>1, <2>3 DEF Byte
  <2>5. D!U8(At(data, pos)) = v /\ D!Skip(At(data, pos), 1) = At(data, pos + 1)
    BY <2>4, ReadsU8 DEF v
  <2>6. (D!U8(At(data, pos)) \div 16) % 2 = 1 <=> cond
    BY <1>1, <2>1, <2>3, <2>5
  <2>7. D!U8(At(data, pos)) \div 32 = r
    BY <2>1, <2>3, <2>5
  <2>8. <<v>> \in Seq(Byte)
    BY <2>4
  <2>9. QED
    BY <2>5, <2>6, <2>7, <2>8 DEF v
<1>2. CASE ~cond
  <2>1. v = 32 * r
    BY <1>2 DEF D!PutBit, D!Reliabilities
  <2>2. r \in 0 .. 4
    BY DEF D!Reliabilities
  <2>3. 32 * r \in 0 .. 255 /\ (32 * r) \div 32 = r
        /\ ((32 * r) \div 16) % 2 = 0
    BY <2>2, SMT
  <2> HIDE DEF v
  <2>4. v \in Byte
    BY <2>1, <2>3 DEF Byte
  <2>5. D!U8(At(data, pos)) = v /\ D!Skip(At(data, pos), 1) = At(data, pos + 1)
    BY <2>4, ReadsU8 DEF v
  <2>6. (D!U8(At(data, pos)) \div 16) % 2 = 1 <=> cond
    BY <1>2, <2>1, <2>3, <2>5
  <2>7. D!U8(At(data, pos)) \div 32 = r
    BY <2>1, <2>3, <2>5
  <2>8. <<v>> \in Seq(Byte)
    BY <2>4
  <2>9. QED
    BY <2>5, <2>6, <2>7, <2>8 DEF v
<1>3. QED
  BY <1>1, <1>2

(* A field under a condition has its length or none.                        *)
LEMMA FieldType ==
  ASSUME NEW cond \in BOOLEAN, NEW s, NEW n \in Nat,
         cond => s \in Seq(Byte) /\ Len(s) = n
  PROVE  /\ D!PutIf(cond, s) \in Seq(Byte)
         /\ Len(D!PutIf(cond, s)) = IF cond THEN n ELSE 0
<1>1. << >> \in Seq(Byte) /\ Len(<< >>) = 0
  OBVIOUS
<1>2. CASE cond
  BY <1>2 DEF D!PutIf
<1>3. CASE ~cond
  BY <1>1, <1>3 DEF D!PutIf
<1>4. QED
  BY <1>2, <1>3

(* The fields of a frame are bytes, as many as the kind and the split field *)
(* ask for.                                                                 *)
LEMMA FrameFields ==
  ASSUME NEW f \in FrameValues
  PROVE  LET r     == f.reliability
             split == f.split # D!NoSplit
             bits  == 8 * Len(f.body)
             flags == <<32 * r + D!PutBit(split, 16)>>
             len   == D!PutU16(bits)
             ri    == D!PutIf(D!CarriesReliable(r), D!PutU24LE(f.reliable_index))
             si    == D!PutIf(D!CarriesSequence(r), D!PutU24LE(f.sequence_index))
             put   == D!PutU24LE(f.order_index) \o <<f.order_channel>>
             oi    == D!PutIf(D!CarriesOrder(r), put)
             parts == D!PutU32(f.split.count) \o D!PutU16(f.split.id)
                        \o D!PutU32(f.split.index)
             sp    == D!PutIf(split, parts)
             body  == f.body
         IN  /\ r \in D!Reliabilities /\ split \in BOOLEAN /\ body \in Seq(Byte)
             /\ bits \in 0 .. D!U16Max /\ bits % 8 = 0 /\ bits \div 8 = Len(body)
             /\ D!CarriesReliable(r) \in BOOLEAN /\ D!CarriesSequence(r) \in BOOLEAN
             /\ D!CarriesOrder(r) \in BOOLEAN
             /\ flags \in Seq(Byte) /\ Len(flags) = 1
             /\ len \in Seq(Byte) /\ Len(len) = 2
             /\ ri \in Seq(Byte) /\ Len(ri) = IF D!CarriesReliable(r) THEN 3 ELSE 0
             /\ si \in Seq(Byte) /\ Len(si) = IF D!CarriesSequence(r) THEN 3 ELSE 0
             /\ oi \in Seq(Byte) /\ Len(oi) = IF D!CarriesOrder(r) THEN 4 ELSE 0
             /\ sp \in Seq(Byte) /\ Len(sp) = IF split THEN 10 ELSE 0
<1> DEFINE r     == f.reliability
           split == f.split # D!NoSplit
           bits  == 8 * Len(f.body)
           flags == <<32 * r + D!PutBit(split, 16)>>
           len   == D!PutU16(bits)
           ri    == D!PutIf(D!CarriesReliable(r), D!PutU24LE(f.reliable_index))
           si    == D!PutIf(D!CarriesSequence(r), D!PutU24LE(f.sequence_index))
           put   == D!PutU24LE(f.order_index) \o <<f.order_channel>>
           oi    == D!PutIf(D!CarriesOrder(r), put)
           parts == D!PutU32(f.split.count) \o D!PutU16(f.split.id)
                      \o D!PutU32(f.split.index)
           sp    == D!PutIf(split, parts)
           body  == f.body
<1>1. /\ r \in D!Reliabilities /\ split \in BOOLEAN /\ body \in Seq(Byte)
      /\ bits \in 0 .. D!U16Max /\ bits % 8 = 0 /\ bits \div 8 = Len(body)
      /\ D!CarriesReliable(r) \in BOOLEAN /\ D!CarriesSequence(r) \in BOOLEAN
      /\ D!CarriesOrder(r) \in BOOLEAN
  <2>1. /\ r \in D!Reliabilities /\ split \in BOOLEAN /\ body \in Seq(Byte)
        /\ bits <= D!U16Max
    BY DEF FrameValues, D!FrameEncodes
  <2>2. /\ D!CarriesReliable(r) \in BOOLEAN /\ D!CarriesSequence(r) \in BOOLEAN
        /\ D!CarriesOrder(r) \in BOOLEAN
    BY DEF D!CarriesReliable, D!CarriesSequence, D!CarriesOrder
  <2>3. PICK n \in Nat : n = Len(body)
    BY <2>1
  <2>4. 8 * n \in Nat /\ (8 * n) % 8 = 0 /\ (8 * n) \div 8 = n
    BY SMT
  <2>5. bits = 8 * n
    BY <2>3
  <2>6. bits \in 0 .. D!U16Max
    BY <2>1, <2>4, <2>5, Widths
  <2>7. QED
    BY <2>1, <2>2, <2>3, <2>4, <2>5, <2>6
<1>2. /\ IF D!CarriesReliable(r) THEN f.reliable_index \in Index
                                 ELSE f.reliable_index = D!None
      /\ IF D!CarriesSequence(r) THEN f.sequence_index \in Index
                                 ELSE f.sequence_index = D!None
      /\ IF D!CarriesOrder(r) THEN f.order_index \in Index
                              ELSE f.order_index = D!None /\ f.order_channel = 0
      /\ f.order_channel \in Byte
      /\ split => f.split \in Splits
  BY DEF FrameValues, D!FrameEncodes
<1>3. /\ D!CarriesReliable(r) => /\ D!PutU24LE(f.reliable_index) \in Seq(Byte)
                                 /\ Len(D!PutU24LE(f.reliable_index)) = 3
      /\ D!CarriesSequence(r) => /\ D!PutU24LE(f.sequence_index) \in Seq(Byte)
                                 /\ Len(D!PutU24LE(f.sequence_index)) = 3
      /\ D!CarriesOrder(r) => /\ D!PutU24LE(f.order_index) \in Seq(Byte)
                              /\ Len(D!PutU24LE(f.order_index)) = 3
  BY <1>2, PutTypes DEF Index
<1>4. flags \in Seq(Byte) /\ Len(flags) = 1 /\ len \in Seq(Byte) /\ Len(len) = 2
  <2>1. 32 * r + D!PutBit(split, 16) \in 0 .. 255
    <3>1. r \in 0 .. 4 /\ D!PutBit(split, 16) \in {0, 16}
      BY <1>1 DEF D!Reliabilities, D!PutBit
    <3>2. PICK k \in 0 .. 4, b \in {0, 16} : k = r /\ b = D!PutBit(split, 16)
      BY <3>1
    <3>3. 32 * k + b \in 0 .. 255
      OBVIOUS
    <3>4. QED
      BY <3>2, <3>3
  <2>2. QED
    BY <1>1, <2>1, PutTypes DEF Byte
<1>5. ri \in Seq(Byte) /\ Len(ri) = IF D!CarriesReliable(r) THEN 3 ELSE 0
  BY <1>1, <1>3, FieldType
<1>6. si \in Seq(Byte) /\ Len(si) = IF D!CarriesSequence(r) THEN 3 ELSE 0
  BY <1>1, <1>3, FieldType
<1>7. oi \in Seq(Byte) /\ Len(oi) = IF D!CarriesOrder(r) THEN 4 ELSE 0
  <2>1. ASSUME D!CarriesOrder(r) PROVE put \in Seq(Byte) /\ Len(put) = 4
    <3>1. PICK x \in Seq(Byte) : x = D!PutU24LE(f.order_index) /\ Len(x) = 3
      BY <1>3, <2>1
    <3>2. PICK y \in Seq(Byte) : y = <<f.order_channel>> /\ Len(y) = 1
      <4>1. PICK ch \in Byte : ch = f.order_channel
        BY <1>2
      <4>2. <<ch>> \in Seq(Byte) /\ Len(<<ch>>) = 1
        OBVIOUS
      <4>3. QED
        BY <4>1, <4>2
    <3>3. x \o y \in Seq(Byte) /\ Len(x \o y) = Len(x) + Len(y)
      BY ConcatProperties
    <3>4. QED
      BY <3>1, <3>2, <3>3
  <2>2. QED
    BY <1>1, <2>1, FieldType
<1>8. sp \in Seq(Byte) /\ Len(sp) = IF split THEN 10 ELSE 0
  <2>1. ASSUME split PROVE parts \in Seq(Byte) /\ Len(parts) = 10
    <3>1. f.split.count \in 0 .. U32Max /\ f.split.id \in 0 .. D!U16Max
          /\ f.split.index \in 0 .. U32Max
      BY <1>2, <2>1 DEF Splits
    <3>2. PICK a \in Seq(Byte) : a = D!PutU32(f.split.count) /\ Len(a) = 4
      BY <3>1, PutTypes
    <3>3. PICK b \in Seq(Byte) : b = D!PutU16(f.split.id) /\ Len(b) = 2
      BY <3>1, PutTypes
    <3>4. PICK c \in Seq(Byte) : c = D!PutU32(f.split.index) /\ Len(c) = 4
      BY <3>1, PutTypes
    <3>5. a \o b \o c \in Seq(Byte) /\ Len(a \o b \o c) = Len(a) + Len(b) + Len(c)
      BY ConcatProperties
    <3>6. QED
      BY <3>2, <3>3, <3>4, <3>5
  <2>2. QED
    BY <1>1, <2>1, FieldType
<1>9. QED
  BY <1>1, <1>4, <1>5, <1>6, <1>7, <1>8, Zenon

(* A frame is written as bytes.                                             *)
LEMMA FrameType ==
  ASSUME NEW f \in FrameValues
  PROVE  D!EncodeFrame(f) \in Seq(Byte)
<1> DEFINE r     == f.reliability
           split == f.split # D!NoSplit
           flags == <<32 * r + D!PutBit(split, 16)>>
           len   == D!PutU16(8 * Len(f.body))
           ri    == D!PutIf(D!CarriesReliable(r), D!PutU24LE(f.reliable_index))
           si    == D!PutIf(D!CarriesSequence(r), D!PutU24LE(f.sequence_index))
           oi    == D!PutIf(D!CarriesOrder(r),
                            D!PutU24LE(f.order_index) \o <<f.order_channel>>)
           sp    == D!PutIf(split, D!PutU32(f.split.count) \o D!PutU16(f.split.id)
                                     \o D!PutU32(f.split.index))
<1>1. D!EncodeFrame(f) = flags \o len \o ri \o si \o oi \o sp \o f.body
  BY DEF D!EncodeFrame
<1>2. /\ flags \in Seq(Byte) /\ len \in Seq(Byte) /\ ri \in Seq(Byte)
      /\ si \in Seq(Byte) /\ oi \in Seq(Byte) /\ sp \in Seq(Byte)
      /\ f.body \in Seq(Byte)
  BY FrameFields
<1> HIDE DEF flags, len, ri, si, oi, sp
<1>3. QED
  BY <1>1, <1>2, ConcatProperties

(***************************************************************************)
(* Frame::decode reads a frame back as Frame::encode wrote it, wherever it  *)
(* stands in a packet and whatever stands around it, and leaves the cursor  *)
(* right behind it: for every kind, every index of 24 bits, every split     *)
(* field and every body that encode accepts (datagram.rs:258-400).          *)
(***************************************************************************)
THEOREM FrameReadsBack ==
  ASSUME NEW f \in FrameValues, NEW data \in Seq(Byte), NEW pos \in Nat,
         Holds(data, pos, D!EncodeFrame(f))
  PROVE  D!DecodeFrame(At(data, pos))
           = [frame |-> f, next |-> At(data, pos + Len(D!EncodeFrame(f)))]
<1> DEFINE r     == f.reliability
           split == f.split # D!NoSplit
           bits  == 8 * Len(f.body)
           flags == <<32 * r + D!PutBit(split, 16)>>
           len   == D!PutU16(bits)
           ri    == D!PutIf(D!CarriesReliable(r), D!PutU24LE(f.reliable_index))
           si    == D!PutIf(D!CarriesSequence(r), D!PutU24LE(f.sequence_index))
           put   == D!PutU24LE(f.order_index) \o <<f.order_channel>>
           oi    == D!PutIf(D!CarriesOrder(r), put)
           parts == D!PutU32(f.split.count) \o D!PutU16(f.split.id)
                      \o D!PutU32(f.split.index)
           sp    == D!PutIf(split, parts)
           body  == f.body
           p2    == pos + 1 + 2
           p3    == p2 + Len(ri)
           p4    == p3 + Len(si)
           p5    == p4 + Len(oi)
           p6    == p5 + Len(sp)
<1>1. /\ r \in D!Reliabilities /\ split \in BOOLEAN /\ body \in Seq(Byte)
      /\ bits \in 0 .. D!U16Max /\ bits % 8 = 0 /\ bits \div 8 = Len(body)
      /\ D!CarriesReliable(r) \in BOOLEAN /\ D!CarriesSequence(r) \in BOOLEAN
      /\ D!CarriesOrder(r) \in BOOLEAN
  BY FrameFields
<1>2. /\ IF D!CarriesReliable(r) THEN f.reliable_index \in Index
                                 ELSE f.reliable_index = D!None
      /\ IF D!CarriesSequence(r) THEN f.sequence_index \in Index
                                 ELSE f.sequence_index = D!None
      /\ IF D!CarriesOrder(r) THEN f.order_index \in Index
                              ELSE f.order_index = D!None /\ f.order_channel = 0
      /\ f.order_channel \in Byte
      /\ split => f.split \in Splits
  BY DEF FrameValues, D!FrameEncodes
<1>3. D!EncodeFrame(f) = flags \o len \o ri \o si \o oi \o sp \o body
  BY DEF D!EncodeFrame
<1>4. /\ D!CarriesReliable(r) => /\ D!PutU24LE(f.reliable_index) \in Seq(Byte)
                                 /\ Len(D!PutU24LE(f.reliable_index)) = 3
      /\ D!CarriesSequence(r) => /\ D!PutU24LE(f.sequence_index) \in Seq(Byte)
                                 /\ Len(D!PutU24LE(f.sequence_index)) = 3
      /\ D!CarriesOrder(r) => /\ D!PutU24LE(f.order_index) \in Seq(Byte)
                              /\ Len(D!PutU24LE(f.order_index)) = 3
  BY <1>2, PutTypes DEF Index
<1>5. flags \in Seq(Byte) /\ Len(flags) = 1 /\ len \in Seq(Byte) /\ Len(len) = 2
  BY FrameFields
<1>6. ri \in Seq(Byte) /\ Len(ri) = IF D!CarriesReliable(r) THEN 3 ELSE 0
  BY FrameFields
<1>7. si \in Seq(Byte) /\ Len(si) = IF D!CarriesSequence(r) THEN 3 ELSE 0
  BY FrameFields
<1>8. oi \in Seq(Byte) /\ Len(oi) = IF D!CarriesOrder(r) THEN 4 ELSE 0
  BY FrameFields
<1>9. sp \in Seq(Byte) /\ Len(sp) = IF split THEN 10 ELSE 0
  BY FrameFields
<1> DEFINE total == D!EncodeFrame(f)
<1> HIDE DEF flags, len, ri, si, oi, sp, body, total
<1>10. /\ Holds(data, pos, flags)
       /\ Holds(data, pos + Len(flags), len)
       /\ Holds(data, pos + Len(flags) + Len(len), ri)
       /\ Holds(data, pos + Len(flags) + Len(len) + Len(ri), si)
       /\ Holds(data, pos + Len(flags) + Len(len) + Len(ri) + Len(si), oi)
       /\ Holds(data, pos + Len(flags) + Len(len) + Len(ri) + Len(si) + Len(oi), sp)
       /\ Holds(data, pos + Len(flags) + Len(len) + Len(ri) + Len(si) + Len(oi)
                        + Len(sp), body)
       /\ Len(total) = Len(flags) + Len(len) + Len(ri) + Len(si) + Len(oi)
                         + Len(sp) + Len(body)
  <2>1. total = flags \o len \o ri \o si \o oi \o sp \o body
    BY <1>3 DEF total
  <2>2. Holds(data, pos, total)
    BY DEF total
  <2>3. /\ flags \in Seq(Byte) /\ len \in Seq(Byte) /\ ri \in Seq(Byte)
        /\ si \in Seq(Byte) /\ oi \in Seq(Byte) /\ sp \in Seq(Byte)
        /\ body \in Seq(Byte)
    BY <1>1, <1>5, <1>6, <1>7, <1>8, <1>9 DEF body
  <2>4. PICK x1 \in Seq(Byte) : x1 = flags \o len /\ Len(x1) = Len(flags) + Len(len)
    BY <2>3, ConcatProperties
  <2>5. PICK x2 \in Seq(Byte) : x2 = x1 \o ri /\ Len(x2) = Len(x1) + Len(ri)
    BY <2>3, ConcatProperties
  <2>6. PICK x3 \in Seq(Byte) : x3 = x2 \o si /\ Len(x3) = Len(x2) + Len(si)
    BY <2>3, ConcatProperties
  <2>7. PICK x4 \in Seq(Byte) : x4 = x3 \o oi /\ Len(x4) = Len(x3) + Len(oi)
    BY <2>3, ConcatProperties
  <2>8. PICK x5 \in Seq(Byte) : x5 = x4 \o sp /\ Len(x5) = Len(x4) + Len(sp)
    BY <2>3, ConcatProperties
  <2>9. PICK x6 \in Seq(Byte) : x6 = x5 \o body /\ Len(x6) = Len(x5) + Len(body)
    BY <2>3, ConcatProperties
  <2>10. x6 = total
    BY <2>1, <2>4, <2>5, <2>6, <2>7, <2>8, <2>9
  <2>11. Holds(data, pos, x5) /\ Holds(data, pos + Len(x5), body)
    BY <2>2, <2>9, <2>10, <2>1, <2>3, HoldsParts
  <2>12. Holds(data, pos, x4) /\ Holds(data, pos + Len(x4), sp)
    BY <2>8, <2>11, <2>3, HoldsParts
  <2>13. Holds(data, pos, x3) /\ Holds(data, pos + Len(x3), oi)
    BY <2>7, <2>12, <2>3, HoldsParts
  <2>14. Holds(data, pos, x2) /\ Holds(data, pos + Len(x2), si)
    BY <2>6, <2>13, <2>3, HoldsParts
  <2>15. Holds(data, pos, x1) /\ Holds(data, pos + Len(x1), ri)
    BY <2>5, <2>14, <2>3, HoldsParts
  <2>16. Holds(data, pos, flags) /\ Holds(data, pos + Len(flags), len)
    BY <2>4, <2>15, <2>3, HoldsParts
  <2>17. /\ Len(flags) \in Nat /\ Len(len) \in Nat /\ Len(ri) \in Nat /\ Len(si) \in Nat
         /\ Len(oi) \in Nat /\ Len(sp) \in Nat /\ Len(body) \in Nat
    BY <2>3
  <2>18. /\ pos + Len(x1) = pos + Len(flags) + Len(len)
         /\ pos + Len(x2) = pos + Len(flags) + Len(len) + Len(ri)
         /\ pos + Len(x3) = pos + Len(flags) + Len(len) + Len(ri) + Len(si)
         /\ pos + Len(x4) = pos + Len(flags) + Len(len) + Len(ri) + Len(si) + Len(oi)
         /\ pos + Len(x5) = pos + Len(flags) + Len(len) + Len(ri) + Len(si) + Len(oi)
                              + Len(sp)
         /\ Len(x6) = Len(flags) + Len(len) + Len(ri) + Len(si) + Len(oi) + Len(sp)
                       + Len(body)
    BY <2>17, <2>4, <2>5, <2>6, <2>7, <2>8, <2>9
  <2>19. QED
    BY <2>10, <2>11, <2>12, <2>13, <2>14, <2>15, <2>16, <2>18
<1>11. /\ Holds(data, pos, flags) /\ Holds(data, pos + 1, len)
       /\ Holds(data, p2, ri) /\ Holds(data, p3, si) /\ Holds(data, p4, oi)
       /\ Holds(data, p5, sp) /\ Holds(data, p6, body)
       /\ pos + Len(total) = p6 + Len(body)
  <2>1. /\ Len(ri) \in Nat /\ Len(si) \in Nat /\ Len(oi) \in Nat
        /\ Len(sp) \in Nat /\ Len(body) \in Nat
    BY <1>1, <1>6, <1>7, <1>8, <1>9
  <2>2. pos + Len(total) = p6 + Len(body)
    BY <1>5, <1>10, <2>1
  <2>3. QED
    BY <1>5, <1>10, <2>2
<1>12. /\ pos + 1 \in Nat /\ p2 \in Nat /\ p3 \in Nat /\ p4 \in Nat
       /\ p5 \in Nat /\ p6 \in Nat /\ pos + 1 + 2 = p2
  BY <1>6, <1>7, <1>8, <1>9
<1> HIDE DEF p2, p3, p4, p5, p6
<1>13. /\ D!U8(At(data, pos)) \div 32 = r
       /\ ((D!U8(At(data, pos)) \div 16) % 2 = 1) = split
       /\ D!Skip(At(data, pos), 1) = At(data, pos + 1)
  <2>1. Holds(data, pos, <<32 * r + D!PutBit(split, 16)>>)
    BY <1>11 DEF flags
  <2> HIDE DEF r, split
  <2>2. QED
    BY <1>1, <2>1, ReadsFlags
<1>14. D!U16(At(data, pos + 1)) = bits /\ D!Skip(At(data, pos + 1), 2) = At(data, p2)
  <2>1. Holds(data, pos + 1, D!PutU16(bits))
    BY <1>11 DEF len
  <2> HIDE DEF bits
  <2>2. D!Skip(At(data, pos + 1), 2) = At(data, pos + 1 + 2)
    BY <1>1, <1>12, <2>1, ReadsU16
  <2>3. QED
    BY <1>1, <1>12, <2>1, <2>2, ReadsU16
<1>15. /\ D!CarriesReliable(r) => D!U24LE(At(data, p2)) = f.reliable_index
       /\ D!SkipIf(D!CarriesReliable(r), At(data, p2), 3) = At(data, p3)
  <2>1. CASE D!CarriesReliable(r)
    <3>1. f.reliable_index \in 0 .. D!U24Max
      BY <1>2, <2>1 DEF Index
    <3>2. Holds(data, p2, D!PutU24LE(f.reliable_index))
      BY <1>11, <2>1 DEF ri, D!PutIf
    <3>3. /\ D!U24LE(At(data, p2)) = f.reliable_index
          /\ D!Skip(At(data, p2), 3) = At(data, p2 + 3)
      BY <1>12, <3>1, <3>2, ReadsU24
    <3>4. p3 = p2 + 3
      BY <1>6, <2>1 DEF p3
    <3>5. QED
      BY <2>1, <3>3, <3>4 DEF D!SkipIf
  <2>2. CASE ~D!CarriesReliable(r)
    <3>1. p3 = p2
      BY <1>6, <1>12, <2>2 DEF p3
    <3>2. QED
      BY <2>2, <3>1 DEF D!SkipIf
  <2>3. QED
    BY <2>1, <2>2
<1>16. /\ D!CarriesSequence(r) => D!U24LE(At(data, p3)) = f.sequence_index
       /\ D!SkipIf(D!CarriesSequence(r), At(data, p3), 3) = At(data, p4)
  <2>1. CASE D!CarriesSequence(r)
    <3>1. f.sequence_index \in 0 .. D!U24Max
      BY <1>2, <2>1 DEF Index
    <3>2. Holds(data, p3, D!PutU24LE(f.sequence_index))
      BY <1>11, <2>1 DEF si, D!PutIf
    <3>3. /\ D!U24LE(At(data, p3)) = f.sequence_index
          /\ D!Skip(At(data, p3), 3) = At(data, p3 + 3)
      BY <1>12, <3>1, <3>2, ReadsU24
    <3>4. p4 = p3 + 3
      BY <1>7, <2>1 DEF p4
    <3>5. QED
      BY <2>1, <3>3, <3>4 DEF D!SkipIf
  <2>2. CASE ~D!CarriesSequence(r)
    <3>1. p4 = p3
      BY <1>7, <1>12, <2>2 DEF p4
    <3>2. QED
      BY <2>2, <3>1 DEF D!SkipIf
  <2>3. QED
    BY <2>1, <2>2
<1>17. /\ D!CarriesOrder(r) => /\ D!U24LE(At(data, p4)) = f.order_index
                               /\ D!U8(At(data, p4 + 3)) = f.order_channel
                               /\ D!Skip(At(data, p4), 3) = At(data, p4 + 3)
                               /\ D!Skip(At(data, p4 + 3), 1) = At(data, p5)
       /\ ~D!CarriesOrder(r) => p5 = p4
  <2>1. ASSUME ~D!CarriesOrder(r) PROVE p5 = p4
    <3>1. Len(oi) = 0
      BY <1>8, <2>1
    <3>2. QED
      BY <1>12, <3>1 DEF p5
  <2>2. ASSUME D!CarriesOrder(r)
        PROVE  /\ D!U24LE(At(data, p4)) = f.order_index
               /\ D!U8(At(data, p4 + 3)) = f.order_channel
               /\ D!Skip(At(data, p4), 3) = At(data, p4 + 3)
               /\ D!Skip(At(data, p4 + 3), 1) = At(data, p5)
    <3>1. f.order_index \in 0 .. D!U24Max
      BY <1>2, <2>2 DEF Index
    <3>2. PICK ch \in Byte : ch = f.order_channel
      BY <1>2
    <3>3. PICK x \in Seq(Byte) : x = D!PutU24LE(f.order_index) /\ Len(x) = 3
      BY <1>4, <2>2
    <3>4. <<ch>> \in Seq(Byte) /\ Len(<<ch>>) = 1
      OBVIOUS
    <3>5. oi = x \o <<ch>>
      BY <2>2, <3>2, <3>3 DEF oi, D!PutIf
    <3>6. Holds(data, p4, x) /\ Holds(data, p4 + Len(x), <<ch>>)
      BY <1>11, <1>12, <3>4, <3>5, HoldsParts
    <3>7. Holds(data, p4 + 3, <<ch>>) /\ p4 + 3 \in Nat
      BY <1>12, <3>3, <3>6
    <3>8. /\ D!U24LE(At(data, p4)) = f.order_index
          /\ D!Skip(At(data, p4), 3) = At(data, p4 + 3)
      BY <1>12, <3>1, <3>3, <3>6, ReadsU24
    <3>9. /\ D!U8(At(data, p4 + 3)) = ch
          /\ D!Skip(At(data, p4 + 3), 1) = At(data, p4 + 3 + 1)
      BY <3>7, ReadsU8
    <3>10. p4 + 3 + 1 = p5
      <4>1. Len(oi) = 4
        BY <1>8, <2>2
      <4>2. QED
        BY <1>12, <4>1 DEF p5
    <3>11. QED
      BY <3>2, <3>8, <3>9, <3>10
  <2>3. QED
    BY <2>1, <2>2
<1>18. /\ split => [ count |-> D!U32(At(data, p5)), id |-> D!U16(D!Skip(At(data, p5), 4)),
                     index |-> D!U32(D!Skip(At(data, p5), 6)) ] = f.split
       /\ D!SkipIf(split, At(data, p5), 10) = At(data, p6)
  <2>1. CASE split
    <3>1. sp = parts /\ f.split \in Splits
      BY <1>2, <2>1 DEF sp, D!PutIf
    <3>2. Holds(data, p5, parts)
      BY <1>11, <3>1
    <3>3. [ count |-> D!U32(At(data, p5)), id |-> D!U16(D!Skip(At(data, p5), 4)),
            index |-> D!U32(D!Skip(At(data, p5), 6)) ] = f.split
      BY <1>12, <3>1, <3>2, ReadsSplit
    <3>4. sp \in Seq(Byte) /\ Len(sp) = 10
      BY <1>9, <2>1
    <3>5. D!Skip(At(data, p5), Len(sp)) = At(data, p5 + Len(sp))
      BY <1>11, <1>12, <3>4, ReadsBytes
    <3>6. QED
      BY <2>1, <3>3, <3>4, <3>5 DEF D!SkipIf, p6
  <2>2. CASE ~split
    <3>1. p6 = p5
      BY <1>9, <1>12, <2>2 DEF p6
    <3>2. QED
      BY <2>2, <3>1 DEF D!SkipIf
  <2>3. QED
    BY <2>1, <2>2
<1>19. D!Bytes(At(data, p6), Len(body)) = body
       /\ D!Skip(At(data, p6), Len(body)) = At(data, p6 + Len(body))
  BY <1>1, <1>11, <1>12, ReadsBytes
<1> DEFINE c      == At(data, pos)
           length == D!Skip(D!Fail(r \notin D!Reliabilities, c), 1)
           c1     == D!Skip(D!Fail(bits % 8 # 0, length), 2)
           c2     == D!SkipIf(D!CarriesReliable(r), c1, 3)
           c3     == D!SkipIf(D!CarriesSequence(r), c2, 3)
           c4     == D!SkipIf(D!CarriesOrder(r), c3, 3)
           c5     == D!SkipIf(D!CarriesOrder(r), c4, 1)
           c6     == D!SkipIf(split, c5, 10)
<1>20. length = At(data, pos + 1)
  BY <1>1, <1>13 DEF D!Fail
<1>21. c1 = At(data, p2)
  BY <1>1, <1>14, <1>20 DEF D!Fail
<1>22. c2 = At(data, p3)
  BY <1>15, <1>21
<1>23. c3 = At(data, p4)
  BY <1>16, <1>22
<1>24. /\ D!CarriesOrder(r) => c4 = At(data, p4 + 3)
       /\ ~D!CarriesOrder(r) => c4 = c3
  BY <1>17, <1>23 DEF D!SkipIf
<1>25. c5 = At(data, p5)
  BY <1>17, <1>23, <1>24 DEF D!SkipIf
<1>26. c6 = At(data, p6)
  BY <1>18, <1>25
<1> DEFINE read ==
             [ reliability    |-> r,
               reliable_index |-> IF D!CarriesReliable(r) THEN D!U24LE(c1) ELSE D!None,
               sequence_index |-> IF D!CarriesSequence(r) THEN D!U24LE(c2) ELSE D!None,
               order_index    |-> IF D!CarriesOrder(r) THEN D!U24LE(c3) ELSE D!None,
               order_channel  |-> IF D!CarriesOrder(r) THEN D!U8(c4) ELSE 0,
               split          |-> IF split
                                  THEN [ count |-> D!U32(c5),
                                         id    |-> D!U16(D!Skip(c5, 4)),
                                         index |-> D!U32(D!Skip(c5, 6)) ]
                                  ELSE D!NoSplit,
               body           |-> D!Bytes(c6, bits \div 8) ]
<1>27. D!DecodeFrame(c) = [frame |-> read, next |-> D!Skip(c6, bits \div 8)]
  <2>1. /\ r = D!U8(c) \div 32
        /\ split = ((D!U8(c) \div 16) % 2 = 1)
        /\ bits = D!U16(length)
    BY <1>13, <1>14, <1>20
  <2>2. /\ length = D!Skip(D!Fail(r \notin D!Reliabilities, c), 1)
        /\ c1 = D!Skip(D!Fail(bits % 8 # 0, length), 2)
        /\ c2 = D!SkipIf(D!CarriesReliable(r), c1, 3)
        /\ c3 = D!SkipIf(D!CarriesSequence(r), c2, 3)
        /\ c4 = D!SkipIf(D!CarriesOrder(r), c3, 3)
        /\ c5 = D!SkipIf(D!CarriesOrder(r), c4, 1)
        /\ c6 = D!SkipIf(split, c5, 10)
    OBVIOUS
  <2> HIDE DEF r, split, bits, c, length, c1, c2, c3, c4, c5, c6
  <2>3. QED
    BY <2>1, <2>2, ZenonT(60) DEF D!DecodeFrame
<1> HIDE DEF c1, c2, c3, c4, c5, c6, length
<1>28. read = f
  <2>1. read.reliable_index = f.reliable_index
    BY <1>2, <1>15, <1>21
  <2>2. read.sequence_index = f.sequence_index
    BY <1>2, <1>16, <1>22
  <2>3. read.order_index = f.order_index
    BY <1>2, <1>17, <1>23
  <2>4. read.order_channel = f.order_channel
    BY <1>2, <1>17, <1>24
  <2>5. read.split = f.split
    BY <1>18, <1>25
  <2>6. read.body = f.body
    BY <1>1, <1>19, <1>26 DEF body
  <2>7. f = [ reliability    |-> f.reliability,
              reliable_index |-> f.reliable_index,
              sequence_index |-> f.sequence_index,
              order_index    |-> f.order_index,
              order_channel  |-> f.order_channel,
              split          |-> f.split,
              body           |-> f.body ]
    BY DEF FrameValues
  <2>8. QED
    BY <2>1, <2>2, <2>3, <2>4, <2>5, <2>6, <2>7
<1>29. D!Skip(c6, bits \div 8) = At(data, pos + Len(total))
  BY <1>1, <1>11, <1>19, <1>26
<1>30. QED
  <2> HIDE DEF read
  <2>1. QED
    BY <1>27, <1>28, <1>29 DEF total

(* FlattenSeq joins its parts one by one.                                   *)
LEMMA Flattened ==
  ASSUME NEW S, NEW parts \in Seq(Seq(S))
  PROVE  \E f \in [0 .. Len(parts) -> Seq(S)] :
            /\ f[0] = << >>
            /\ \A i \in 1 .. Len(parts) : f[i] = f[i - 1] \o parts[i]
            /\ D!FlattenSeq(parts) = f[Len(parts)]
<1> DEFINE n == Len(parts)
           Joins(f, m) == /\ f \in [0 .. m -> Seq(S)] /\ f[0] = << >>
                          /\ \A i \in 1 .. m : f[i] = f[i - 1] \o parts[i]
           Joined == { m \in 0 .. n : \E f : Joins(f, m) }
<1>1. n \in Nat /\ \A i \in 1 .. n : parts[i] \in Seq(S)
  OBVIOUS
<1>2. 0 \in Joined
  <2>1. Joins([i \in 0 .. 0 |-> << >>], 0)
    OBVIOUS
  <2> HIDE DEF Joins
  <2>2. QED
    BY <1>1, <2>1
<1>3. ASSUME NEW m \in 1 .. n, m - 1 \in Joined PROVE m \in Joined
  <2> HIDE DEF n
  <2>1. PICK f : Joins(f, m - 1)
    <3> HIDE DEF Joins
    <3>1. QED
      BY <1>3
  <2>2. PICK x \in Seq(S) : x = f[m - 1] \o parts[m]
    <3>1. f[m - 1] \in Seq(S) /\ parts[m] \in Seq(S)
      BY <1>1, <2>1
    <3>2. QED
      BY <3>1, ConcatProperties
  <2> DEFINE g == [i \in 0 .. m |-> IF i = m THEN x ELSE f[i]]
  <2>3. Joins(g, m)
    <3>1. g \in [0 .. m -> Seq(S)]
      <4>1. ASSUME NEW i \in 0 .. m, i # m PROVE f[i] \in Seq(S)
        BY <1>1, <2>1, <4>1
      <4>2. QED
        BY <4>1
    <3>2. g[0] = << >>
      BY <1>1, <2>1
    <3>3. ASSUME NEW i \in 1 .. m PROVE g[i] = g[i - 1] \o parts[i]
      <4>1. PICK j \in 0 .. m - 1 : j = i - 1
        BY <1>1
      <4>2. g[i - 1] = f[j]
        BY <1>1, <4>1
      <4>3. CASE i = m
        <5>1. g[i] = x /\ j = m - 1
          BY <4>1, <4>3
        <5>2. QED
          BY <2>2, <4>2, <4>3, <5>1
      <4>4. CASE i # m
        <5>1. g[i] = f[i] /\ i \in 1 .. m - 1
          BY <1>1, <4>4
        <5>2. f[i] = f[i - 1] \o parts[i]
          BY <2>1, <5>1
        <5>3. QED
          BY <4>1, <4>2, <5>1, <5>2
      <4>5. QED
        BY <4>3, <4>4
    <3>4. QED
      BY <3>1, <3>2, <3>3
  <2>4. m \in 0 .. n
    BY <1>1
  <2> HIDE DEF Joins, g
  <2>5. QED
    BY <2>3, <2>4
<1>4. PICK f : Joins(f, n)
  <2>1. n \in 0 .. n
    BY <1>1
  <2> HIDE DEF Joins
  <2>2. 0 .. n \subseteq Joined
    <3> HIDE DEF Joined, n
    <3>1. QED
      BY <1>1, <1>2, <1>3, Upwards
  <2>3. QED
    BY <2>1, <2>2
<1> DEFINE Eq(h) == h = [i \in 0 .. Len(parts) |->
                           IF i = 0 THEN << >> ELSE h[i - 1] \o parts[i]]
           h0 == CHOOSE h : Eq(h)
<1>5. Eq(f)
  <2>1. \A i \in 0 .. n : f[i] = IF i = 0 THEN << >> ELSE f[i - 1] \o parts[i]
    <3>1. f[0] = << >> /\ \A i \in 1 .. n : f[i] = f[i - 1] \o parts[i]
      BY <1>4
    <3>2. ASSUME NEW i \in 0 .. n, i # 0 PROVE i \in 1 .. n
      BY <1>1, <3>2
    <3> HIDE DEF n
    <3>3. QED
      BY <3>1, <3>2
  <2>2. f = [i \in 0 .. n |-> f[i]]
    BY <1>4
  <2>3. QED
    BY <2>1, <2>2
<1>6. Eq(h0)
  <2> HIDE DEF Eq
  <2>1. QED
    BY <1>5
<1>7. D!FlattenSeq(parts) = h0[n]
  BY DEF D!FlattenSeq
<1> HIDE DEF h0
<1> DEFINE Same == { m \in 0 .. n : h0[m] = f[m] }
<1>8. 0 \in Same
  <2>1. 0 \in 0 .. n
    BY <1>1
  <2>2. h0[0] = << >> /\ f[0] = << >>
    BY <1>4, <1>6, <2>1
  <2>3. QED
    BY <2>1, <2>2
<1>9. ASSUME NEW m \in 1 .. n, m - 1 \in Same PROVE m \in Same
  <2>1. f[m] = f[m - 1] \o parts[m]
    BY <1>4
  <2>2. m \in 0 .. n /\ m # 0
    BY <1>1
  <2>3. h0[m] = h0[m - 1] \o parts[m]
    BY <1>6, <2>2
  <2>4. h0[m - 1] = f[m - 1]
    BY <1>9
  <2>5. QED
    BY <2>1, <2>2, <2>3, <2>4
<1>10. 0 .. n \subseteq Same
  <2> HIDE DEF Same, n
  <2>1. QED
    BY <1>1, <1>8, <1>9, Upwards
<1>11. h0[n] = f[n]
  <2>1. n \in 0 .. n
    BY <1>1
  <2>2. QED
    BY <1>10, <2>1
<1>12. QED
  BY <1>4, <1>7, <1>11

(* What one skips over in a row of parts.                                   *)
LEMMA PartsAt ==
  ASSUME NEW parts \in Seq(Seq(Byte)), NEW data \in Seq(Byte), NEW pos \in Nat,
         Holds(data, pos, D!FlattenSeq(parts))
  PROVE  \E start \in [0 .. Len(parts) -> Nat] :
            /\ start[0] = pos
            /\ start[Len(parts)] = pos + Len(D!FlattenSeq(parts))
            /\ \A i \in 1 .. Len(parts) : /\ Holds(data, start[i - 1], parts[i])
                                          /\ start[i] = start[i - 1] + Len(parts[i])
<1> DEFINE n == Len(parts)
<1>1. n \in Nat /\ \A i \in 1 .. n : parts[i] \in Seq(Byte)
  OBVIOUS
<1>2. PICK f \in [0 .. n -> Seq(Byte)] :
         /\ f[0] = << >>
         /\ \A i \in 1 .. n : f[i] = f[i - 1] \o parts[i]
         /\ D!FlattenSeq(parts) = f[n]
  BY Flattened
<1> DEFINE start == [i \in 0 .. n |-> pos + Len(f[i])]
           In == { i \in 0 .. n : Holds(data, pos, f[i]) }
<1> HIDE DEF n
<1>3. \A i \in 0 .. n : f[i] \in Seq(Byte) /\ Len(f[i]) \in Nat
  <2>1. \A i \in 0 .. n : f[i] \in Seq(Byte)
    BY <1>2
  <2>2. \A s \in Seq(Byte) : Len(s) \in Nat
    OBVIOUS
  <2>3. QED
    BY <2>1, <2>2
<1>4. 0 .. n \subseteq In
  <2>1. n \in In
    BY <1>1, <1>2
  <2>2. ASSUME NEW m \in 0 .. n, m # n, \A k \in m + 1 .. n : k \in In
        PROVE  m \in In
    <3>1. m + 1 \in m + 1 .. n /\ m + 1 \in 1 .. n /\ (m + 1) - 1 = m
      BY <1>1, <2>2
    <3>2. Holds(data, pos, f[m + 1])
      BY <2>2, <3>1
    <3>3. f[m + 1] = f[m] \o parts[m + 1]
      BY <1>2, <3>1
    <3>4. Holds(data, pos, f[m])
      BY <1>1, <1>3, <3>1, <3>2, <3>3, HoldsParts
    <3>5. QED
      BY <3>4
  <2> HIDE DEF In
  <2>3. QED
    BY <1>1, <2>1, <2>2, Downwards
<1>5. ASSUME NEW i \in 1 .. n
      PROVE  /\ Holds(data, start[i - 1], parts[i])
             /\ start[i] = start[i - 1] + Len(parts[i])
  <2>1. i \in 0 .. n /\ i - 1 \in 0 .. n
    BY <1>1
  <2>2. PICK a \in Seq(Byte) : a = f[i - 1] /\ start[i - 1] = pos + Len(a)
    BY <1>3, <2>1
  <2>3. PICK b \in Seq(Byte) : b = parts[i]
    BY <1>1
  <2>4. f[i] = a \o b /\ start[i] = pos + Len(f[i])
    BY <1>2, <2>1, <2>2, <2>3
  <2>5. Holds(data, pos, a \o b)
    BY <1>4, <2>1, <2>4
  <2>6. Holds(data, pos + Len(a), b)
    BY <2>5, HoldsParts
  <2>7. Len(a \o b) = Len(a) + Len(b) /\ Len(a) \in Nat /\ Len(b) \in Nat
    BY ConcatProperties
  <2>8. start[i] = pos + Len(a) + Len(b)
    BY <2>4, <2>7
  <2> HIDE DEF start
  <2>9. QED
    BY <2>2, <2>3, <2>6, <2>8
<1>6. start \in [0 .. n -> Nat]
  BY <1>3
<1>7. start[0] = pos
  <2>1. Len(f[0]) = 0 /\ 0 \in 0 .. n
    BY <1>1, <1>2
  <2>2. QED
    BY <2>1
<1>8. start[n] = pos + Len(D!FlattenSeq(parts))
  BY <1>1, <1>2
<1> HIDE DEF start
<1>9. QED
  BY <1>5, <1>6, <1>7, <1>8 DEF n

(* The cursors of a packet: they stay in it.                                *)
Cursors(data) == [data : {data}, pos : Nat, ok : BOOLEAN]

(* A position in a packet is a cursor.                                      *)
LEMMA AtType ==
  ASSUME NEW data, NEW pos \in Nat
  PROVE  At(data, pos) \in Cursors(data)
BY DEF At, Cursors

(* Behind what can be skipped, the cursor is n further; a cursor that has   *)
(* failed stays so.                                                         *)
LEMMA SkipType ==
  ASSUME NEW data \in Seq(Byte), NEW c \in Cursors(data), NEW n \in Nat
  PROVE  /\ D!Skip(c, n) \in Cursors(data)
         /\ D!Skip(c, n).ok => /\ c.ok /\ c = At(data, c.pos)
                               /\ c.pos + n <= Len(data)
                               /\ D!Skip(c, n) = At(data, c.pos + n)
<1>1. PICK p \in Nat, o \in BOOLEAN : c = [data |-> data, pos |-> p, ok |-> o]
  BY DEF Cursors
<1>2. c.pos = p /\ c.ok = o /\ c.data = data /\ Len(data) \in Nat /\ p + n \in Nat
  BY <1>1
<1>3. CASE D!Ensure(c, n)
  <2>1. o = TRUE /\ p + n <= Len(data)
    BY <1>2, <1>3 DEF D!Ensure, D!Remaining
  <2>2. D!Skip(c, n) = [c EXCEPT !.pos = c.pos + n]
    BY <1>3 DEF D!Skip
  <2>3. [c EXCEPT !.pos = p + n] = [data |-> data, pos |-> p + n, ok |-> o]
    BY <1>1
  <2>4. D!Skip(c, n) = At(data, p + n) /\ c = At(data, p)
    BY <1>1, <1>2, <2>1, <2>2, <2>3 DEF At
  <2>5. D!Skip(c, n) \in Cursors(data)
    BY <1>2, <2>4, AtType
  <2>6. QED
    BY <1>2, <2>1, <2>4, <2>5
<1>4. CASE ~D!Ensure(c, n)
  <2>1. D!Skip(c, n) = [c EXCEPT !.ok = FALSE]
    BY <1>4 DEF D!Skip
  <2>2. D!Skip(c, n) = [data |-> data, pos |-> p, ok |-> FALSE]
    BY <1>1, <2>1
  <2>3. QED
    BY <2>2 DEF Cursors
<1>5. QED
  BY <1>3, <1>4

(* The same of a field under a condition.                                   *)
LEMMA SkipIfType ==
  ASSUME NEW data \in Seq(Byte), NEW c \in Cursors(data), NEW n \in Nat,
         NEW cond \in BOOLEAN
  PROVE  /\ D!SkipIf(cond, c, n) \in Cursors(data)
         /\ D!SkipIf(cond, c, n).ok => c.ok /\ c = At(data, c.pos)
         /\ cond /\ D!SkipIf(cond, c, n).ok =>
              /\ c.pos + n <= Len(data)
              /\ D!SkipIf(cond, c, n) = At(data, c.pos + n)
         /\ ~cond => D!SkipIf(cond, c, n) = c
<1>1. c.ok => c = At(data, c.pos)
  BY DEF Cursors, At
<1>2. QED
  BY <1>1, SkipType DEF D!SkipIf

(* A failed check leaves no good cursor.                                    *)
LEMMA FailType ==
  ASSUME NEW data, NEW c \in Cursors(data), NEW cond \in BOOLEAN
  PROVE  /\ D!Fail(cond, c) \in Cursors(data)
         /\ D!Fail(cond, c).ok => ~cond
         /\ ~cond => D!Fail(cond, c) = c
BY DEF D!Fail, Cursors

(* A longer packet that starts with the same bytes.                         *)
Extends(longer, data) ==
    Len(data) <= Len(longer) /\ \A i \in 1 .. Len(data) : longer[i] = data[i]

(* What a packet has room for is the same in a longer one.                  *)
LEMMA SameBytes ==
  ASSUME NEW data \in Seq(Byte), NEW longer \in Seq(Byte), Extends(longer, data),
         NEW pos \in Nat, NEW n \in Nat, pos + n <= Len(data)
  PROVE  /\ D!Bytes(At(longer, pos), n) = D!Bytes(At(data, pos), n)
         /\ D!Skip(At(longer, pos), n) = At(longer, pos + n)
<1>1. Len(data) \in Nat /\ Len(longer) \in Nat /\ Len(data) <= Len(longer)
  BY DEF Extends
<1>2. D!Ensure(At(data, pos), n) /\ D!Ensure(At(longer, pos), n)
  BY <1>1 DEF D!Ensure, D!Remaining, At
<1>3. /\ D!Bytes(At(longer, pos), n) = SubSeq(longer, pos + 1, pos + n)
      /\ D!Bytes(At(data, pos), n) = SubSeq(data, pos + 1, pos + n)
  BY <1>2 DEF D!Bytes, At
<1> DEFINE s == SubSeq(longer, pos + 1, pos + n)
           t == SubSeq(data, pos + 1, pos + n)
<1>4. /\ s \in Seq(Byte) /\ t \in Seq(Byte) /\ Len(s) = n /\ Len(t) = n
      /\ \A i \in 1 .. n : s[i] = longer[pos + i] /\ t[i] = data[pos + i]
  BY <1>1
<1>5. \A i \in 1 .. n : pos + i \in 1 .. Len(data)
  BY <1>1
<1> HIDE DEF s, t
<1>6. \A i \in 1 .. n : s[i] = t[i]
  BY <1>4, <1>5 DEF Extends
<1>7. s = t
  BY <1>4, <1>6, SeqEqual
<1>8. QED
  BY <1>2, <1>3, <1>7 DEF D!Skip, At, s, t

(* Whatever stands at a cursor is read as a number.                         *)
LEMMA ReadType ==
  ASSUME NEW data \in Seq(Byte), NEW c \in Cursors(data)
  PROVE  D!U16(c) \in Nat
<1>1. PICK b : b = D!Bytes(c, 2)
  OBVIOUS
<1>2. b[1] \in Nat /\ b[2] \in Nat
  <2>1. CASE D!Ensure(c, 2)
    <3>1. PICK p \in Nat : c.pos = p /\ c.data = data /\ p + 2 <= Len(data)
      BY <2>1 DEF D!Ensure, D!Remaining, Cursors
    <3>2. b = SubSeq(data, p + 1, p + 2)
      BY <1>1, <2>1, <3>1 DEF D!Bytes
    <3>3. b \in Seq(Byte) /\ Len(b) = 2
      BY <3>1, <3>2
    <3>4. 1 \in 1 .. Len(b) /\ 2 \in 1 .. Len(b)
      BY <3>3
    <3>5. b[1] \in Byte /\ b[2] \in Byte
      BY <3>3, <3>4, ElementOfSeq
    <3>6. \A x \in Byte : x \in Nat
      BY DEF Byte
    <3>7. QED
      BY <3>5, <3>6
  <2>2. CASE ~D!Ensure(c, 2)
    <3>1. b = [i \in 1 .. 2 |-> 0]
      BY <1>1, <2>2 DEF D!Bytes
    <3>2. QED
      BY <3>1
  <2>3. QED
    BY <2>1, <2>2
<1>3. D!U16(c) = 256 * b[1] + b[2]
  BY <1>1 DEF D!U16
<1>4. QED
  BY <1>2, <1>3

(* A field that was read, in a longer packet too.                           *)
LEMMA SkipAt ==
  ASSUME NEW data \in Seq(Byte), NEW longer \in Seq(Byte), Extends(longer, data),
         NEW pos \in Nat, NEW n \in Nat, D!Skip(At(data, pos), n).ok
  PROVE  /\ pos + n <= Len(data)
         /\ D!Skip(At(data, pos), n) = At(data, pos + n)
         /\ D!Skip(At(longer, pos), n) = At(longer, pos + n)
         /\ D!Bytes(At(longer, pos), n) = D!Bytes(At(data, pos), n)
<1>1. At(data, pos) \in Cursors(data) /\ At(data, pos).pos = pos
  BY AtType DEF At
<1>2. pos + n <= Len(data) /\ D!Skip(At(data, pos), n) = At(data, pos + n)
  BY <1>1, SkipType
<1>3. QED
  BY <1>2, SameBytes

(* So is a field under a condition.                                         *)
LEMMA SkipIfAt ==
  ASSUME NEW data \in Seq(Byte), NEW longer \in Seq(Byte), Extends(longer, data),
         NEW pos \in Nat, NEW n \in Nat, NEW cond \in BOOLEAN,
         D!SkipIf(cond, At(data, pos), n).ok
  PROVE  \E q \in Nat :
            /\ pos <= q
            /\ D!SkipIf(cond, At(data, pos), n) = At(data, q)
            /\ D!SkipIf(cond, At(longer, pos), n) = At(longer, q)
            /\ cond => /\ q = pos + n /\ q <= Len(data)
                       /\ D!Bytes(At(longer, pos), n) = D!Bytes(At(data, pos), n)
<1>1. CASE cond
  <2>1. D!Skip(At(data, pos), n).ok
    BY <1>1 DEF D!SkipIf
  <2>2. /\ pos + n <= Len(data)
        /\ D!Skip(At(data, pos), n) = At(data, pos + n)
        /\ D!Skip(At(longer, pos), n) = At(longer, pos + n)
        /\ D!Bytes(At(longer, pos), n) = D!Bytes(At(data, pos), n)
    BY <2>1, SkipAt
  <2>3. pos + n \in Nat /\ pos <= pos + n
    OBVIOUS
  <2>4. QED
    BY <1>1, <2>2, <2>3 DEF D!SkipIf
<1>2. CASE ~cond
  <2>1. pos <= pos
    OBVIOUS
  <2>2. QED
    BY <1>2, <2>1 DEF D!SkipIf
<1>3. QED
  BY <1>1, <1>2

(***************************************************************************)
(* A frame that is decoded takes at least three bytes, and what stands      *)
(* behind it changes nothing: a longer packet gives the same frame there.   *)
(***************************************************************************)
LEMMA DecodeRuns ==
  ASSUME NEW data \in Seq(Byte), NEW longer \in Seq(Byte), Extends(longer, data),
         NEW pos \in Nat, D!DecodeFrame(At(data, pos)).next.ok
  PROVE  \E q \in pos + 3 .. Len(data) :
            /\ D!DecodeFrame(At(data, pos)).next = At(data, q)
            /\ D!DecodeFrame(At(longer, pos))
                 = [ frame |-> D!DecodeFrame(At(data, pos)).frame,
                     next  |-> At(longer, q) ]
<1> DEFINE c      == At(data, pos)
           r      == D!U8(c) \div 32
           split  == (D!U8(c) \div 16) % 2 = 1
           f0     == D!Fail(r \notin D!Reliabilities, c)
           length == D!Skip(f0, 1)
           bits   == D!U16(length)
           f1     == D!Fail(bits % 8 # 0, length)
           c1     == D!Skip(f1, 2)
           c2     == D!SkipIf(D!CarriesReliable(r), c1, 3)
           c3     == D!SkipIf(D!CarriesSequence(r), c2, 3)
           c4     == D!SkipIf(D!CarriesOrder(r), c3, 3)
           c5     == D!SkipIf(D!CarriesOrder(r), c4, 1)
           c6     == D!SkipIf(split, c5, 10)
           last   == D!Skip(c6, bits \div 8)
           n      == bits \div 8
           frame(k1, k2, k3, k4, k5, k6) ==
             [ reliability    |-> r,
               reliable_index |-> IF D!CarriesReliable(r) THEN D!U24LE(k1) ELSE D!None,
               sequence_index |-> IF D!CarriesSequence(r) THEN D!U24LE(k2) ELSE D!None,
               order_index    |-> IF D!CarriesOrder(r) THEN D!U24LE(k3) ELSE D!None,
               order_channel  |-> IF D!CarriesOrder(r) THEN D!U8(k4) ELSE 0,
               split          |-> IF split
                                  THEN [ count |-> D!U32(k5),
                                         id    |-> D!U16(D!Skip(k5, 4)),
                                         index |-> D!U32(D!Skip(k5, 6)) ]
                                  ELSE D!NoSplit,
               body           |-> D!Bytes(k6, n) ]
<1>1. D!DecodeFrame(c) = [frame |-> frame(c1, c2, c3, c4, c5, c6), next |-> last]
  BY DEF D!DecodeFrame
<1>2. last.ok
  <2>1. D!DecodeFrame(c).next.ok
    OBVIOUS
  <2> HIDE DEF c, last, frame
  <2>2. QED
    BY <1>1, <2>1
<1>3. /\ (r \notin D!Reliabilities) \in BOOLEAN /\ split \in BOOLEAN
      /\ (bits % 8 # 0) \in BOOLEAN
      /\ D!CarriesReliable(r) \in BOOLEAN /\ D!CarriesSequence(r) \in BOOLEAN
      /\ D!CarriesOrder(r) \in BOOLEAN
  BY DEF D!CarriesReliable, D!CarriesSequence, D!CarriesOrder
<1>4. c \in Cursors(data) /\ c.ok /\ c.pos = pos
  BY AtType DEF At
<1> HIDE DEF c, r, split
<1>5. f0 \in Cursors(data) /\ (f0.ok => r \in D!Reliabilities /\ f0 = c)
  BY <1>3, <1>4, FailType
<1>6. length \in Cursors(data) /\ (length.ok => f0.ok)
  <2> HIDE DEF f0
  <2>1. QED
    BY <1>5, SkipType
<1>7. bits \in Nat /\ n \in Nat
  <2> HIDE DEF length
  <2>1. bits \in Nat
    BY <1>6, ReadType
  <2> HIDE DEF bits
  <2>2. QED
    BY <2>1
<1> HIDE DEF f0, length, bits, n
<1>8. f1 \in Cursors(data) /\ (f1.ok => bits % 8 = 0 /\ f1 = length)
  BY <1>3, <1>6, FailType
<1> HIDE DEF f1
<1>9. c1 \in Cursors(data) /\ (c1.ok => f1.ok)
  BY <1>8, SkipType
<1> HIDE DEF c1
<1>10. c2 \in Cursors(data) /\ (c2.ok => c1.ok)
  BY <1>3, <1>9, SkipIfType
<1> HIDE DEF c2
<1>11. c3 \in Cursors(data) /\ (c3.ok => c2.ok)
  BY <1>3, <1>10, SkipIfType
<1> HIDE DEF c3
<1>12. c4 \in Cursors(data) /\ (c4.ok => c3.ok)
  BY <1>3, <1>11, SkipIfType
<1> HIDE DEF c4
<1>13. c5 \in Cursors(data) /\ (c5.ok => c4.ok)
  BY <1>3, <1>12, SkipIfType
<1> HIDE DEF c5
<1>14. c6 \in Cursors(data) /\ (c6.ok => c5.ok)
  <2>1. PICK s \in BOOLEAN : s = split
    BY <1>3, Zenon
  <2>2. 10 \in Nat
    OBVIOUS
  <2>3. D!SkipIf(s, c5, 10) \in Cursors(data) /\ (D!SkipIf(s, c5, 10).ok => c5.ok)
    BY <1>13, <2>2, SkipIfType
  <2>4. QED
    BY <2>1, <2>3, Zenon DEF c6
<1> HIDE DEF c6
<1>15. last \in Cursors(data) /\ (last.ok => c6.ok)
  BY <1>7, <1>14, SkipType DEF n
<1> HIDE DEF last
<1>16. c1.ok /\ c2.ok /\ c3.ok /\ c4.ok /\ c5.ok /\ c6.ok /\ f1.ok /\ f0.ok /\ length.ok
  BY <1>2, <1>8, <1>9, <1>10, <1>11, <1>12, <1>13, <1>14, <1>15, <1>6
<1>17. f0 = c /\ f1 = length /\ r \in D!Reliabilities /\ bits % 8 = 0
  BY <1>5, <1>8, <1>16
<1>18. length = At(data, pos + 1)
  <2>1. D!Skip(At(data, pos), 1).ok
    BY <1>16, <1>17 DEF length, c
  <2>2. D!Skip(At(data, pos), 1) = At(data, pos + 1)
    BY <2>1, SkipAt
  <2>3. QED
    BY <1>17, <2>2 DEF length, c
<1>19. c1 = At(data, pos + 3) /\ pos + 3 <= Len(data)
  <2>1. pos + 1 \in Nat /\ pos + 1 + 2 = pos + 3 /\ D!Skip(At(data, pos + 1), 2).ok
    BY <1>16, <1>17, <1>18 DEF c1
  <2>2. pos + 1 + 2 <= Len(data) /\ D!Skip(At(data, pos + 1), 2) = At(data, pos + 1 + 2)
    BY <2>1, SkipAt
  <2>3. QED
    BY <1>17, <1>18, <2>1, <2>2 DEF c1
<1> DEFINE sr == D!CarriesReliable(r)
           ss == D!CarriesSequence(r)
           so == D!CarriesOrder(r)
           p1 == pos + 3
<1>20. p1 \in Nat /\ sr \in BOOLEAN /\ ss \in BOOLEAN /\ so \in BOOLEAN
  BY <1>3
<1>21. /\ c1 = At(data, p1) /\ c2 = D!SkipIf(sr, c1, 3) /\ c3 = D!SkipIf(ss, c2, 3)
       /\ c4 = D!SkipIf(so, c3, 3) /\ c5 = D!SkipIf(so, c4, 1)
       /\ c6 = D!SkipIf(split, c5, 10) /\ last = D!Skip(c6, n)
  BY <1>19 DEF c2, c3, c4, c5, c6, last, n
<1> HIDE DEF sr, ss, so, p1
<1>22. PICK p2 \in Nat :
          /\ p1 <= p2 /\ c2 = At(data, p2)
          /\ D!SkipIf(sr, At(longer, p1), 3) = At(longer, p2)
          /\ sr => D!Bytes(At(longer, p1), 3) = D!Bytes(At(data, p1), 3)
  BY <1>16, <1>20, <1>21, SkipIfAt
<1>23. PICK p3 \in Nat :
          /\ p2 <= p3 /\ c3 = At(data, p3)
          /\ D!SkipIf(ss, At(longer, p2), 3) = At(longer, p3)
          /\ ss => D!Bytes(At(longer, p2), 3) = D!Bytes(At(data, p2), 3)
  BY <1>16, <1>20, <1>21, <1>22, SkipIfAt
<1>24. PICK p4 \in Nat :
          /\ p3 <= p4 /\ c4 = At(data, p4)
          /\ D!SkipIf(so, At(longer, p3), 3) = At(longer, p4)
          /\ so => D!Bytes(At(longer, p3), 3) = D!Bytes(At(data, p3), 3)
  BY <1>16, <1>20, <1>21, <1>23, SkipIfAt
<1>25. PICK p5 \in Nat :
          /\ p4 <= p5 /\ c5 = At(data, p5)
          /\ D!SkipIf(so, At(longer, p4), 1) = At(longer, p5)
          /\ so => D!Bytes(At(longer, p4), 1) = D!Bytes(At(data, p4), 1)
  BY <1>16, <1>20, <1>21, <1>24, SkipIfAt
<1>26. PICK p6 \in Nat :
          /\ p5 <= p6 /\ c6 = At(data, p6)
          /\ D!SkipIf(split, At(longer, p5), 10) = At(longer, p6)
          /\ split => p6 = p5 + 10 /\ p6 <= Len(data)
  BY <1>3, <1>16, <1>21, <1>25, SkipIfAt
<1>27. /\ p6 + n <= Len(data)
       /\ last = At(data, p6 + n)
       /\ D!Skip(At(longer, p6), n) = At(longer, p6 + n)
       /\ D!Bytes(At(longer, p6), n) = D!Bytes(At(data, p6), n)
  BY <1>2, <1>7, <1>21, <1>26, SkipAt
<1>28. p6 + n \in pos + 3 .. Len(data)
  <2>1. p6 + n \in Nat /\ Len(data) \in Nat /\ p1 = pos + 3
    BY <1>7 DEF p1
  <2>2. pos + 3 <= p6 + n
    BY <1>7, <1>20, <1>22, <1>23, <1>24, <1>25, <1>26, <2>1
  <2>3. QED
    BY <1>27, <2>1, <2>2
<1>29. /\ D!U8(At(longer, pos)) = D!U8(c)
       /\ D!Skip(D!Fail(r \notin D!Reliabilities, At(longer, pos)), 1) = At(longer, pos + 1)
  <2>1. D!Skip(At(data, pos), 1).ok
    BY <1>16, <1>17 DEF length, c
  <2>2. /\ D!Skip(At(longer, pos), 1) = At(longer, pos + 1)
        /\ D!Bytes(At(longer, pos), 1) = D!Bytes(At(data, pos), 1)
    BY <2>1, SkipAt
  <2>3. QED
    BY <1>17, <2>2 DEF D!Fail, D!U8, c
<1>30. /\ D!U16(At(longer, pos + 1)) = bits
       /\ D!Skip(D!Fail(bits % 8 # 0, At(longer, pos + 1)), 2) = At(longer, p1)
  <2>1. pos + 1 \in Nat /\ pos + 1 + 2 = pos + 3 /\ D!Skip(At(data, pos + 1), 2).ok
    BY <1>16, <1>17, <1>18 DEF c1
  <2>2. /\ D!Skip(At(longer, pos + 1), 2) = At(longer, pos + 1 + 2)
        /\ D!Bytes(At(longer, pos + 1), 2) = D!Bytes(At(data, pos + 1), 2)
    BY <2>1, SkipAt
  <2>3. D!U16(At(longer, pos + 1)) = D!U16(At(data, pos + 1))
    BY <2>2 DEF D!U16
  <2>4. D!U16(At(data, pos + 1)) = bits
    BY <1>18 DEF bits
  <2>5. QED
    BY <1>17, <2>1, <2>2, <2>3, <2>4 DEF D!Fail, p1
<1>31. /\ sr => D!U24LE(At(longer, p1)) = D!U24LE(c1)
       /\ ss => D!U24LE(At(longer, p2)) = D!U24LE(c2)
       /\ so => D!U24LE(At(longer, p3)) = D!U24LE(c3)
       /\ so => D!U8(At(longer, p4)) = D!U8(c4)
       /\ D!Bytes(At(longer, p6), n) = D!Bytes(c6, n)
  BY <1>21, <1>22, <1>23, <1>24, <1>25, <1>26, <1>27 DEF D!U24LE, D!U8
<1>32. ASSUME split
       PROVE  /\ D!U32(At(longer, p5)) = D!U32(c5)
              /\ D!U16(D!Skip(At(longer, p5), 4)) = D!U16(D!Skip(c5, 4))
              /\ D!U32(D!Skip(At(longer, p5), 6)) = D!U32(D!Skip(c5, 6))
  <2>1. p5 + 10 <= Len(data) /\ Len(data) \in Nat
    BY <1>26, <1>32
  <2>2. /\ p5 + 4 \in Nat /\ p5 + 6 \in Nat /\ p5 + 4 <= Len(data) /\ p5 + 6 <= Len(data)
        /\ (p5 + 4) + 2 <= Len(data) /\ (p5 + 6) + 4 <= Len(data)
    BY <2>1
  <2>3. Extends(data, data)
    BY <2>1 DEF Extends
  <2>4. /\ D!Bytes(At(longer, p5), 4) = D!Bytes(At(data, p5), 4)
        /\ D!Skip(At(longer, p5), 4) = At(longer, p5 + 4)
        /\ D!Skip(At(data, p5), 4) = At(data, p5 + 4)
    BY <2>2, <2>3, SameBytes
  <2>5. /\ D!Skip(At(longer, p5), 6) = At(longer, p5 + 6)
        /\ D!Skip(At(data, p5), 6) = At(data, p5 + 6)
    BY <2>2, <2>3, SameBytes
  <2>6. D!Bytes(At(longer, p5 + 4), 2) = D!Bytes(At(data, p5 + 4), 2)
    BY <2>2, SameBytes
  <2>7. D!Bytes(At(longer, p5 + 6), 4) = D!Bytes(At(data, p5 + 6), 4)
    BY <2>2, SameBytes
  <2>8. c5 = At(data, p5)
    BY <1>25
  <2>9. QED
    BY <2>4, <2>5, <2>6, <2>7, <2>8 DEF D!U32, D!U16
<1> DEFINE d0 == At(longer, pos)
           d1 == At(longer, p1)
           d2 == At(longer, p2)
           d3 == At(longer, p3)
           d4 == At(longer, p4)
           d5 == At(longer, p5)
           d6 == At(longer, p6)
<1>33. D!DecodeFrame(d0) = [frame |-> frame(d1, d2, d3, d4, d5, d6), next |-> D!Skip(d6, n)]
  <2> DEFINE dl == At(longer, pos + 1)
  <2>1. /\ r = D!U8(d0) \div 32 /\ split = ((D!U8(d0) \div 16) % 2 = 1)
        /\ bits = D!U16(dl) /\ n = bits \div 8
    BY <1>29, <1>30 DEF r, split, n
  <2>2. /\ dl = D!Skip(D!Fail(r \notin D!Reliabilities, d0), 1)
        /\ d1 = D!Skip(D!Fail(bits % 8 # 0, dl), 2)
        /\ d2 = D!SkipIf(D!CarriesReliable(r), d1, 3)
        /\ d3 = D!SkipIf(D!CarriesSequence(r), d2, 3)
        /\ d4 = D!SkipIf(D!CarriesOrder(r), d3, 3)
        /\ d5 = D!SkipIf(D!CarriesOrder(r), d4, 1)
        /\ d6 = D!SkipIf(split, d5, 10)
    BY <1>22, <1>23, <1>24, <1>25, <1>26, <1>29, <1>30 DEF sr, ss, so
  <2> HIDE DEF d0, dl, d1, d2, d3, d4, d5, d6
  <2>3. QED
    BY <2>1, <2>2, ZenonT(60) DEF D!DecodeFrame
<1>34. frame(d1, d2, d3, d4, d5, d6) = frame(c1, c2, c3, c4, c5, c6)
  BY <1>31, <1>32 DEF sr, ss, so
<1>35. D!DecodeFrame(c).frame = frame(c1, c2, c3, c4, c5, c6)
       /\ D!DecodeFrame(c).next = last
  <2> HIDE DEF frame
  <2>1. QED
    BY <1>1
<1>36. QED
  <2> HIDE DEF frame, d1, d2, d3, d4, d5
  <2>1. D!DecodeFrame(At(longer, pos))
          = [frame |-> D!DecodeFrame(c).frame, next |-> At(longer, p6 + n)]
    BY <1>27, <1>33, <1>34, <1>35
  <2>2. D!DecodeFrame(c).next = At(data, p6 + n)
    BY <1>27, <1>35
  <2>3. QED
    BY <1>28, <2>1, <2>2 DEF c

(* The loop's cursor at another position.                                   *)
LEMMA MoveTo ==
  ASSUME NEW data, NEW a, NEW p
  PROVE  [At(data, a) EXCEPT !.pos = p] = At(data, p)
<1>1. PICK o : o = TRUE
  OBVIOUS
<1>2. \A q : At(data, q) = [data |-> data, pos |-> q, ok |-> o]
  BY <1>1 DEF At
<1>3. QED
  BY <1>2

(* Where the loop over the frames ends: at the packet's end, or in an       *)
(* error.                                                                   *)
Done   == [ok |-> TRUE,  frames |-> << >>]
Failed == [ok |-> FALSE, frames |-> << >>]

(* What Datagram::decode makes of the bytes from each position on.          *)
FramesFrom(data, from) ==
    /\ from[Len(data)] = Done
    /\ \A pos \in 0 .. Len(data) : pos # Len(data) =>
          LET f == D!DecodeFrame(At(data, pos))
          IN  from[pos] = IF f.next.ok
                          THEN [ ok     |-> from[f.next.pos].ok,
                                 frames |-> <<f.frame>> \o from[f.next.pos].frames ]
                          ELSE Failed

(* Datagram::decode is its loop from behind the sequence number.            *)
LEMMA DatagramLoop ==
  ASSUME NEW data \in Seq(Byte), Len(data) # 0
  PROVE  \E from :
            /\ FramesFrom(data, from)
            /\ D!DecodeDatagram(data) =
                 IF Len(data) < 4 \/ ~from[4].ok THEN D!Invalid
                 ELSE [ kind |-> "Datagram", sequence_number |-> D!U24LE(At(data, 1)),
                        frames |-> from[4].frames ]
<1> DEFINE body == D!Skip(D!Cursor(data), 1)
           start == D!Skip(body, 3)
           L == Len(data)
           F(p) == D!DecodeFrame([body EXCEPT !.pos = p])
           Step(g, p) ==
             IF p = L THEN Done
             ELSE IF ~F(p).next.ok THEN Failed
             ELSE [g[F(p).next.pos] EXCEPT !.frames = <<F(p).frame>> \o @]
           Eq(g) == g = [p \in 0 .. L |-> Step(g, p)]
           from == CHOOSE g : Eq(g)
<1>1. L \in Nat \ {0} /\ L = Len(data)
  OBVIOUS
<1>2. body = At(data, 1)
  <2>1. D!Cursor(data) = At(data, 0)
    BY DEF D!Cursor, At
  <2>2. Extends(data, data) /\ 0 + 1 <= L
    BY <1>1 DEF Extends
  <2>3. D!Skip(At(data, 0), 1) = At(data, 0 + 1)
    BY <1>1, <2>2, SameBytes
  <2>4. QED
    BY <2>1, <2>3
<1>3. D!DecodeDatagram(data) =
        IF ~start.ok \/ ~from[start.pos].ok THEN D!Invalid
        ELSE [ kind |-> "Datagram", sequence_number |-> D!U24LE(body),
               frames |-> from[start.pos].frames ]
  BY DEF D!DecodeDatagram, Done, Failed
<1> HIDE DEF body
<1>4. \A p : [body EXCEPT !.pos = p] = At(data, p)
  BY <1>2, MoveTo
<1>5. \A p : F(p) = D!DecodeFrame(At(data, p))
  BY <1>4
<1> HIDE DEF F
<1>6. ASSUME NEW p \in 0 .. L, F(p).next.ok PROVE F(p).next.pos \in p + 1 .. L
  <2>1. Extends(data, data)
    BY <1>1 DEF Extends
  <2>2. PICK q \in p + 3 .. L : F(p).next = At(data, q)
    BY <1>1, <1>5, <1>6, <2>1, DecodeRuns
  <2>3. F(p).next.pos = q
    BY <2>2 DEF At
  <2>4. QED
    BY <2>2, <2>3
<1> HIDE DEF L
<1>7. Eq(from)
  <2> DEFINE Solves(g, k) == g = [p \in k .. L |-> Step(g, p)]
             Solved == { k \in 0 .. L : \E g : Solves(g, k) }
  <2>1. L \in Solved
    <3>1. Solves([p \in L .. L |-> Done], L)
      <4>1. \A g, p : p \in L .. L => Step(g, p) = Done
        BY <1>1
      <4> HIDE DEF Step
      <4>2. QED
        BY <4>1
    <3>2. L \in 0 .. L
      BY <1>1
    <3> HIDE DEF Solves
    <3>3. QED
      BY <3>1, <3>2
  <2>2. ASSUME NEW k \in 0 .. L, k # L, \A m \in k + 1 .. L : m \in Solved
        PROVE  k \in Solved
    <3>1. k + 1 \in k + 1 .. L
      BY <1>1, <2>2
    <3>2. PICK g : Solves(g, k + 1)
      <4> HIDE DEF Solves
      <4>1. QED
        BY <2>2, <3>1
    <3> DEFINE h == [p \in k .. L |-> IF p = k THEN Step(g, k) ELSE g[p]]
    <3>3. ASSUME NEW p \in k .. L PROVE Step(h, p) = Step(g, p)
      <4>1. CASE p = L \/ ~F(p).next.ok
        BY <4>1, ZenonT(60)
      <4>2. CASE p # L /\ F(p).next.ok
        <5>1. p \in 0 .. L
          BY <1>1
        <5>2. PICK q \in p + 1 .. L : q = F(p).next.pos
          BY <1>6, <4>2, <5>1
        <5>3. q \in k .. L /\ q # k
          BY <1>1, <5>1
        <5>4. h[q] = g[q]
          BY <5>3
        <5> HIDE DEF h
        <5>5. QED
          BY <4>2, <5>2, <5>4
      <4>3. QED
        BY <4>1, <4>2, ZenonT(60)
    <3>4. ASSUME NEW p \in k .. L PROVE h[p] = Step(h, p)
      <4>1. CASE p = k
        BY <3>3, <4>1, ZenonT(60)
      <4>2. CASE p # k
        <5>1. p \in k + 1 .. L
          BY <1>1, <4>2
        <5>2. h[p] = g[p]
          BY <4>2
        <5>3. g[p] = Step(g, p)
          <6> HIDE DEF Step, h
          <6>1. QED
            BY <3>2, <5>1
        <5> HIDE DEF Step, h
        <5>4. QED
          BY <3>3, <5>2, <5>3
      <4>3. QED
        BY <4>1, <4>2, ZenonT(60)
    <3>5. h = [p \in k .. L |-> h[p]]
      OBVIOUS
    <3>6. Solves(h, k)
      <4> HIDE DEF Step, h
      <4>1. QED
        BY <3>4, <3>5
    <3> HIDE DEF Solves, h
    <3>7. QED
      BY <3>6
  <2>3. 0 .. L \subseteq Solved
    <3> HIDE DEF Solved
    <3>1. QED
      BY <1>1, <2>1, <2>2, Downwards
  <2>4. 0 \in Solved
    <3>1. 0 \in 0 .. L
      BY <1>1
    <3> HIDE DEF Solved
    <3>2. QED
      BY <2>3, <3>1
  <2>5. PICK g : Eq(g)
    <3> HIDE DEF Step
    <3>1. QED
      BY <2>4
  <2> HIDE DEF Eq
  <2>6. QED
    BY <2>5
<1>8. \A p \in 0 .. L : from[p] = Step(from, p)
  <2> HIDE DEF from, Step
  <2>1. QED
    BY <1>7
<1> HIDE DEF from
<1>9. L \in 0 .. L
  BY <1>1
<1>10. from[L] = Done
  BY <1>8, <1>9
<1> DEFINE Pair(x) == x = [ok |-> x.ok, frames |-> x.frames]
           Pairs == { p \in 0 .. L : Pair(from[p]) }
<1>11. 0 .. L \subseteq Pairs
  <2>1. Pair(Done) /\ Pair(Failed)
    BY DEF Done, Failed
  <2>2. L \in Pairs
    <3> HIDE DEF Pair
    <3>1. QED
      BY <1>9, <1>10, <2>1
  <2>3. ASSUME NEW k \in 0 .. L, k # L, \A m \in k + 1 .. L : m \in Pairs
        PROVE  k \in Pairs
    <3>1. from[k] = Step(from, k)
      BY <1>8
    <3>2. Pair(from[k])
      <4>1. CASE ~F(k).next.ok
        <5>1. from[k] = Failed
          BY <2>3, <3>1, <4>1
        <5> HIDE DEF Pair
        <5>2. QED
          BY <2>1, <5>1
      <4>2. CASE F(k).next.ok
        <5>1. PICK q \in k + 1 .. L : q = F(k).next.pos
          BY <1>6, <4>2
        <5>2. from[q] = [ok |-> from[q].ok, frames |-> from[q].frames]
          BY <2>3
        <5>3. from[k] = [from[q] EXCEPT !.frames = <<F(k).frame>> \o @]
          BY <2>3, <3>1, <4>2, <5>1
        <5>4. PICK o, fs : from[q] = [ok |-> o, frames |-> fs]
          BY <5>2
        <5>5. PICK x : from[k] = [from[q] EXCEPT !.frames = x]
          BY <5>3
        <5>6. from[k] = [ok |-> o, frames |-> x]
          BY <5>4, <5>5
        <5>7. QED
          BY <5>6
      <4>3. QED
        BY <4>1, <4>2
    <3> HIDE DEF Pair
    <3>3. QED
      BY <3>2
  <2> HIDE DEF Pairs
  <2>4. QED
    BY <1>1, <2>2, <2>3, Downwards
<1>12. ASSUME NEW p \in 0 .. L, p # L
       PROVE  from[p] = IF F(p).next.ok
                        THEN [ ok     |-> from[F(p).next.pos].ok,
                               frames |-> <<F(p).frame>> \o from[F(p).next.pos].frames ]
                        ELSE Failed
  <2>1. from[p] = Step(from, p)
    BY <1>8
  <2>2. CASE ~F(p).next.ok
    BY <1>12, <2>1, <2>2
  <2>3. CASE F(p).next.ok
    <3>1. PICK q \in p + 1 .. L : q = F(p).next.pos
      BY <1>6, <2>3
    <3>2. q \in 0 .. L
      BY <1>1
    <3>3. from[q] = [ok |-> from[q].ok, frames |-> from[q].frames]
      BY <1>11, <3>2
    <3>4. from[p] = [from[q] EXCEPT !.frames = <<F(p).frame>> \o @]
      BY <1>12, <2>1, <2>3, <3>1
    <3>5. from[p] = [ok |-> from[q].ok, frames |-> <<F(p).frame>> \o from[q].frames]
      BY <3>3, <3>4
    <3>6. QED
      BY <2>3, <3>1, <3>5
  <2>4. QED
    BY <2>2, <2>3
<1>13. FramesFrom(data, from)
  <2>1. ASSUME NEW p \in 0 .. Len(data), p # Len(data)
        PROVE  LET f == D!DecodeFrame(At(data, p))
               IN  from[p] = IF f.next.ok
                             THEN [ ok     |-> from[f.next.pos].ok,
                                    frames |-> <<f.frame>> \o from[f.next.pos].frames ]
                             ELSE Failed
    BY <1>1, <1>5, <1>12, <2>1
  <2>2. QED
    BY <1>1, <1>10, <2>1 DEF FramesFrom
<1>14. /\ start.ok <=> L >= 4
       /\ L >= 4 => start.pos = 4
  BY <1>1, <1>2 DEF D!Skip, D!Ensure, D!Remaining, At
<1>15. D!DecodeDatagram(data) =
         IF L < 4 \/ ~from[4].ok THEN D!Invalid
         ELSE [ kind |-> "Datagram", sequence_number |-> D!U24LE(At(data, 1)),
                frames |-> from[4].frames ]
  <2> HIDE DEF start
  <2>1. L < 4 <=> ~(L >= 4)
    BY <1>1
  <2>2. QED
    BY <1>2, <1>3, <1>14, <2>1
<1>16. QED
  BY <1>1, <1>13, <1>15

(* Frames that stand behind one another, from start[0] on.                  *)
Row(data, frames, start) ==
    /\ \A i \in 0 .. Len(frames) : start[i] \in Nat
    /\ \A i \in 1 .. Len(frames) :
         /\ Holds(data, start[i - 1], D!EncodeFrame(frames[i]))
         /\ start[i] = start[i - 1] + Len(D!EncodeFrame(frames[i]))

(* Each frame of the row is read, and the cursor goes to the next.          *)
LEMMA ReadsRow ==
  ASSUME NEW data \in Seq(Byte), NEW frames \in Seq(FrameValues), NEW start,
         Row(data, frames, start),
         NEW i \in 1 .. Len(frames)
  PROVE  /\ start[i - 1] \in Nat /\ start[i] \in Nat
         /\ start[i - 1] + 3 <= start[i] /\ start[i] <= Len(data)
         /\ D!DecodeFrame(At(data, start[i - 1]))
              = [frame |-> frames[i], next |-> At(data, start[i])]
<1>1. frames[i] \in FrameValues /\ i \in 0 .. Len(frames) /\ i - 1 \in 0 .. Len(frames)
  OBVIOUS
<1>2. PICK p \in Nat : p = start[i - 1]
  BY <1>1 DEF Row
<1>3. PICK q \in Nat : q = start[i]
  BY <1>1 DEF Row
<1>4. PICK f \in FrameValues : f = frames[i]
  BY <1>1
<1>5. Holds(data, p, D!EncodeFrame(f)) /\ q = p + Len(D!EncodeFrame(f))
  BY <1>2, <1>3, <1>4 DEF Row
<1>6. D!DecodeFrame(At(data, p)) = [frame |-> f, next |-> At(data, q)]
  BY <1>5, FrameReadsBack
<1>7. D!DecodeFrame(At(data, p)).next.ok
  BY <1>6 DEF At
<1>8. Extends(data, data)
  <2>1. Len(data) \in Nat
    OBVIOUS
  <2>2. QED
    BY <2>1 DEF Extends
<1>9. PICK k \in p + 3 .. Len(data) : D!DecodeFrame(At(data, p)).next = At(data, k)
  BY <1>7, <1>8, DecodeRuns
<1>10. k = q
  BY <1>6, <1>9 DEF At
<1>11. QED
  BY <1>2, <1>3, <1>4, <1>6, <1>9, <1>10

(* A row of frames is read up to its end, and fails if what is behind it    *)
(* does.                                                                    *)
LEMMA LoopReadsRow ==
  ASSUME NEW data \in Seq(Byte), NEW from, FramesFrom(data, from),
         NEW frames \in Seq(FrameValues), NEW start, Row(data, frames, start),
         from[start[Len(frames)]] \in {Done, Failed}
  PROVE  from[start[0]] = [ ok |-> from[start[Len(frames)]].ok, frames |-> frames ]
<1> DEFINE n == Len(frames)
           o == from[start[n]].ok
           Right == { k \in 0 .. n : from[start[k]]
                                      = [ok |-> o, frames |-> SubSeq(frames, k + 1, n)] }
<1>1. n \in Nat /\ Len(data) \in Nat
  OBVIOUS
<1>2. n \in Right
  <2>1. SubSeq(frames, n + 1, n) = << >>
    BY <1>1, SubSeqEmpty
  <2>2. from[start[n]] = [ok |-> o, frames |-> << >>]
    BY DEF Done, Failed
  <2> HIDE DEF o, n
  <2>3. QED
    BY <1>1, <2>1, <2>2
<1>3. ASSUME NEW k \in 0 .. n, k # n, \A m \in k + 1 .. n : m \in Right
      PROVE  k \in Right
  <2>1. k + 1 \in k + 1 .. n /\ k + 1 \in 1 .. n /\ (k + 1) - 1 = k
    BY <1>1, <1>3
  <2>2. /\ start[k] \in Nat /\ start[k + 1] \in Nat
        /\ start[k] + 3 <= start[k + 1] /\ start[k + 1] <= Len(data)
        /\ D!DecodeFrame(At(data, start[k]))
             = [frame |-> frames[k + 1], next |-> At(data, start[k + 1])]
    BY <2>1, ReadsRow
  <2>3. start[k] \in 0 .. Len(data) /\ start[k] # Len(data)
    BY <1>1, <2>2
  <2>4. from[start[k]] = [ ok     |-> from[start[k + 1]].ok,
                           frames |-> <<frames[k + 1]>> \o from[start[k + 1]].frames ]
    <3>1. D!DecodeFrame(At(data, start[k])).next.ok
          /\ D!DecodeFrame(At(data, start[k])).next.pos = start[k + 1]
          /\ D!DecodeFrame(At(data, start[k])).frame = frames[k + 1]
      BY <2>2 DEF At
    <3>2. QED
      BY <2>3, <3>1 DEF FramesFrom
  <2>5. from[start[k + 1]] = [ok |-> o, frames |-> SubSeq(frames, k + 2, n)]
    <3>1. k + 1 \in Right /\ k + 1 + 1 = k + 2
      BY <1>3, <2>1
    <3> HIDE DEF o
    <3>2. QED
      BY <3>1
  <2>6. <<frames[k + 1]>> \o SubSeq(frames, k + 2, n) = SubSeq(frames, k + 1, n)
    <3>1. k + 1 <= n /\ k + 1 \in Int /\ n \in Int /\ (k + 1) + 1 = k + 2
          /\ \A m \in k + 1 .. n : frames[m] \in FrameValues
      BY <1>1, <2>1
    <3>2. QED
      BY <3>1, SubSeqRecursiveFirst
  <2>7. from[start[k]] = [ok |-> o, frames |-> SubSeq(frames, k + 1, n)]
    <3> HIDE DEF o
    <3>1. from[start[k + 1]].ok = o /\ from[start[k + 1]].frames = SubSeq(frames, k + 2, n)
      BY <2>5
    <3>2. QED
      BY <2>4, <2>6, <3>1
  <2> HIDE DEF o, n
  <2>8. QED
    BY <2>7
<1>4. 0 \in Right
  <2>1. 0 .. n \subseteq Right /\ 0 \in 0 .. n
    <3> HIDE DEF Right
    <3>1. QED
      BY <1>1, <1>2, <1>3, Downwards
  <2> HIDE DEF Right
  <2>2. QED
    BY <2>1
<1>5. SubSeq(frames, 0 + 1, n) = frames
  BY SubSeqFull
<1> HIDE DEF o
<1>6. QED
  BY <1>4, <1>5 DEF o

(* Datagrams with any number of frames that encode accepts.                 *)
DatagramValues ==
    [kind : {"Datagram"}, sequence_number : Index, frames : Seq(FrameValues)]

(* A packet holds itself, from its first byte on.                           *)
LEMMA HoldsItself ==
  ASSUME NEW data \in Seq(Byte)
  PROVE  Holds(data, 0, data)
<1>1. Len(data) \in Nat
  OBVIOUS
<1>2. \A i \in 1 .. Len(data) : 0 + i = i
  BY <1>1
<1>3. QED
  BY <1>1, <1>2 DEF Holds

(* A datagram's id and sequence number, and the row of its frames behind    *)
(* them.                                                                    *)
LEMMA DatagramBytes ==
  ASSUME NEW d \in DatagramValues
  PROVE  /\ D!EncodeDatagram(d) \in Seq(Byte)
         /\ 4 <= Len(D!EncodeDatagram(d))
         /\ D!EncodeDatagram(d)[1] = 128
         /\ D!U24LE(At(D!EncodeDatagram(d), 1)) = d.sequence_number
         /\ \E start : /\ Row(D!EncodeDatagram(d), d.frames, start)
                       /\ start[0] = 4
                       /\ start[Len(d.frames)] = Len(D!EncodeDatagram(d))
<1> DEFINE data  == D!EncodeDatagram(d)
           parts == [i \in DOMAIN d.frames |-> D!EncodeFrame(d.frames[i])]
           n     == Len(d.frames)
<1>1. /\ d.sequence_number \in 0 .. D!U24Max /\ d.frames \in Seq(FrameValues)
      /\ n \in Nat
  BY DEF DatagramValues, Index
<1>2. parts \in Seq(Seq(Byte)) /\ Len(parts) = n
      /\ \A i \in 1 .. n : parts[i] = D!EncodeFrame(d.frames[i])
  <2>1. DOMAIN d.frames = 1 .. n /\ \A i \in 1 .. n : d.frames[i] \in FrameValues
    BY <1>1
  <2>2. \A i \in 1 .. n : D!EncodeFrame(d.frames[i]) \in Seq(Byte)
    BY <2>1, FrameType
  <2> HIDE DEF n
  <2>3. parts \in [1 .. n -> Seq(Byte)]
    BY <2>1, <2>2
  <2>4. \A i \in 1 .. n : parts[i] = D!EncodeFrame(d.frames[i])
    BY <2>1
  <2> HIDE DEF parts
  <2>5. QED
    BY <1>1, <2>3, <2>4
<1>3. PICK flag \in Seq(Byte) : flag = <<D!FLAG_DATAGRAM>> /\ Len(flag) = 1 /\ flag[1] = 128
  <2>1. PICK v \in Byte : v = 128
    BY DEF Byte
  <2>2. <<v>> \in Seq(Byte) /\ Len(<<v>>) = 1 /\ <<v>>[1] = v
    OBVIOUS
  <2>3. QED
    BY <2>1, <2>2 DEF D!FLAG_DATAGRAM
<1>4. PICK num \in Seq(Byte) : num = D!PutU24LE(d.sequence_number) /\ Len(num) = 3
  BY <1>1, PutTypes
<1> HIDE DEF parts, n
<1>5. PICK flat \in Seq(Byte) : flat = D!FlattenSeq(parts)
  <2>1. PICK f \in [0 .. Len(parts) -> Seq(Byte)] : D!FlattenSeq(parts) = f[Len(parts)]
    BY <1>2, Flattened
  <2>2. Len(parts) \in 0 .. Len(parts)
    BY <1>1, <1>2
  <2>3. QED
    BY <2>1, <2>2
<1>6. data = flag \o num \o flat
  BY <1>3, <1>4, <1>5 DEF D!EncodeDatagram, parts
<1>7. PICK head \in Seq(Byte) : head = flag \o num /\ Len(head) = Len(flag) + Len(num)
                               /\ head[1] = flag[1]
  <2>1. /\ flag \o num \in Seq(Byte)
        /\ Len(flag \o num) = Len(flag) + Len(num)
        /\ \A i \in 1 .. Len(flag) + Len(num) :
             (flag \o num)[i] = IF i <= Len(flag) THEN flag[i] ELSE num[i - Len(flag)]
    BY ConcatProperties
  <2>2. 1 \in 1 .. Len(flag) + Len(num) /\ 1 <= Len(flag)
    BY <1>3, <1>4
  <2>3. (flag \o num)[1] = flag[1]
    BY <2>1, <2>2
  <2>4. QED
    BY <2>1, <2>3
<1>8. Len(head) = 4 /\ head[1] = 128
  BY <1>3, <1>4, <1>7
<1> HIDE DEF data
<1>9. /\ data \in Seq(Byte) /\ Len(data) = Len(head) + Len(flat) /\ Len(flat) \in Nat
      /\ data[1] = head[1] /\ data = head \o flat
  <2>1. data = head \o flat
    BY <1>6, <1>7
  <2>2. head \o flat \in Seq(Byte) /\ Len(head \o flat) = Len(head) + Len(flat)
        /\ Len(flat) \in Nat
    BY ConcatProperties
  <2>3. (head \o flat)[1] = head[1]
    <3>1. 1 \in 1 .. Len(head) + Len(flat) /\ 1 <= Len(head)
      BY <1>8, <2>2
    <3>2. QED
      BY <3>1, ConcatProperties
  <2>4. QED
    BY <2>1, <2>2, <2>3
<1>10. Holds(data, 0, head) /\ Holds(data, 4, flat)
  <2>1. Holds(data, 0, head \o flat)
    BY <1>9, HoldsItself
  <2>2. Holds(data, 0, head) /\ Holds(data, 0 + Len(head), flat)
    BY <1>9, <2>1, HoldsParts
  <2>3. QED
    BY <1>8, <2>2
<1>11. Holds(data, 1, num)
  <2>1. Holds(data, 0, flag \o num)
    BY <1>7, <1>10
  <2>2. Holds(data, 0 + Len(flag), num)
    BY <1>9, <2>1, HoldsParts
  <2>3. QED
    BY <1>3, <2>2
<1>12. D!U24LE(At(data, 1)) = d.sequence_number
  BY <1>1, <1>4, <1>9, <1>11, ReadsU24
<1>13. PICK start \in [0 .. Len(parts) -> Nat] :
          /\ start[0] = 4
          /\ start[Len(parts)] = 4 + Len(D!FlattenSeq(parts))
          /\ \A i \in 1 .. Len(parts) : /\ Holds(data, start[i - 1], parts[i])
                                        /\ start[i] = start[i - 1] + Len(parts[i])
  <2>1. Holds(data, 4, D!FlattenSeq(parts)) /\ 4 \in Nat
    BY <1>5, <1>10
  <2>2. QED
    BY <1>2, <1>9, <2>1, PartsAt, ZenonT(60)
<1>14. Row(data, d.frames, start)
  <2>1. \A i \in 0 .. n : start[i] \in Nat
    BY <1>2
  <2>2. \A i \in 1 .. n : /\ Holds(data, start[i - 1], D!EncodeFrame(d.frames[i]))
                          /\ start[i] = start[i - 1] + Len(D!EncodeFrame(d.frames[i]))
    BY <1>2, <1>13
  <2>3. QED
    BY <2>1, <2>2 DEF Row, n
<1>15. start[n] = Len(data)
  BY <1>2, <1>5, <1>8, <1>9, <1>13
<1>16. 4 <= Len(data) /\ data[1] = 128
  BY <1>8, <1>9
<1>17. QED
  BY <1>9, <1>12, <1>13, <1>14, <1>15, <1>16 DEF data, n

(* A packet whose first byte is 128 is a datagram.                          *)
LEMMA ClassifiesDatagram ==
  ASSUME NEW data \in Seq(Byte), Len(data) # 0, data[1] = 128
  PROVE  D!Classify(data) = D!DecodeDatagram(data)
<1>1. data # << >>
  OBVIOUS
<1>2. ~(128 >= 192) /\ 128 >= 128 /\ (128 \div 32) % 2 # 1
  OBVIOUS
<1>3. QED
  BY <1>1, <1>2 DEF D!Classify

(***************************************************************************)
(* A datagram is read back as it was sent, with any number of frames.       *)
(***************************************************************************)
THEOREM DatagramReadsBack ==
  ASSUME NEW d \in DatagramValues
  PROVE  D!Classify(D!EncodeDatagram(d)) = d
<1>1. PICK data \in Seq(Byte) :
         /\ data = D!EncodeDatagram(d) /\ 4 <= Len(data) /\ data[1] = 128
         /\ D!U24LE(At(data, 1)) = d.sequence_number
  BY DatagramBytes
<1>2. PICK start : /\ Row(data, d.frames, start)
                   /\ start[0] = 4 /\ start[Len(d.frames)] = Len(data)
  BY <1>1, DatagramBytes
<1>3. Len(data) # 0 /\ Len(data) \in Nat
  BY <1>1
<1>4. PICK from :
         /\ FramesFrom(data, from)
         /\ D!DecodeDatagram(data) =
              IF Len(data) < 4 \/ ~from[4].ok THEN D!Invalid
              ELSE [ kind |-> "Datagram", sequence_number |-> D!U24LE(At(data, 1)),
                     frames |-> from[4].frames ]
  BY <1>3, DatagramLoop
<1>5. from[start[Len(d.frames)]] = Done
  BY <1>2, <1>4 DEF FramesFrom
<1>6. d.frames \in Seq(FrameValues)
  BY DEF DatagramValues
<1>7. from[4] = [ok |-> Done.ok, frames |-> d.frames]
  <2>1. from[start[Len(d.frames)]] \in {Done, Failed}
    BY <1>5
  <2>2. from[start[0]] = [ ok |-> from[start[Len(d.frames)]].ok, frames |-> d.frames ]
    <3>1. FramesFrom(data, from) /\ Row(data, d.frames, start)
      BY <1>2, <1>4
    <3>2. PICK fs \in Seq(FrameValues) : fs = d.frames
      BY <1>6
    <3>3. Row(data, fs, start) /\ from[start[Len(fs)]] \in {Done, Failed}
      BY <2>1, <3>1, <3>2
    <3>4. from[start[0]] = [ ok |-> from[start[Len(fs)]].ok, frames |-> fs ]
      BY <3>1, <3>3, LoopReadsRow
    <3>5. QED
      BY <3>2, <3>4
  <2>3. QED
    BY <1>2, <1>5, <2>2
<1>8. from[4].ok = TRUE /\ from[4].frames = d.frames
  BY <1>7 DEF Done
<1>9. ~(Len(data) < 4)
  BY <1>1, <1>3
<1>10. D!DecodeDatagram(data) = [ kind |-> "Datagram",
          sequence_number |-> d.sequence_number, frames |-> d.frames ]
  BY <1>1, <1>4, <1>8, <1>9
<1>11. d = [ kind |-> "Datagram", sequence_number |-> d.sequence_number,
             frames |-> d.frames ]
  BY DEF DatagramValues
<1>12. QED
  BY <1>1, <1>3, <1>10, <1>11, ClassifiesDatagram

(* A packet that was cut short starts like the whole one.                   *)
LEMMA CutType ==
  ASSUME NEW data \in Seq(Byte), NEW n \in 0 .. Len(data)
  PROVE  /\ SubSeq(data, 1, n) \in Seq(Byte) /\ Len(SubSeq(data, 1, n)) = n
         /\ \A i \in 1 .. n : SubSeq(data, 1, n)[i] = data[i]
         /\ Extends(data, SubSeq(data, 1, n))
<1>1. Len(data) \in Nat /\ n \in Nat /\ n <= Len(data)
  OBVIOUS
<1>2. /\ SubSeq(data, 1, n) \in Seq(Byte) /\ Len(SubSeq(data, 1, n)) = n
      /\ \A i \in 1 .. n : SubSeq(data, 1, n)[i] = data[i]
  BY <1>1
<1>3. QED
  BY <1>1, <1>2 DEF Extends

(***************************************************************************)
(* A datagram that was cut short is refused, or its first whole frames are  *)
(* left of it.                                                              *)
(***************************************************************************)
THEOREM CutDatagramNotMisread ==
  ASSUME NEW d \in DatagramValues, NEW n \in Nat, n < Len(D!EncodeDatagram(d))
  PROVE  LET back == D!Classify(SubSeq(D!EncodeDatagram(d), 1, n))
         IN  \/ back = D!Invalid
             \/ \E k \in 0 .. Len(d.frames) - 1 :
                   back = [ kind |-> "Datagram", sequence_number |-> d.sequence_number,
                                frames |-> SubSeq(d.frames, 1, k) ]
<1> DEFINE frames == d.frames
           N == Len(frames)
<1>1. PICK data \in Seq(Byte) :
         /\ data = D!EncodeDatagram(d) /\ 4 <= Len(data) /\ data[1] = 128
         /\ D!U24LE(At(data, 1)) = d.sequence_number
  BY DatagramBytes
<1>2. PICK start : Row(data, d.frames, start) /\ start[0] = 4
                   /\ start[Len(d.frames)] = Len(data)
  BY <1>1, DatagramBytes
<1>3. frames \in Seq(FrameValues) /\ N \in Nat
  BY DEF DatagramValues
<1>4. n \in 0 .. Len(data) /\ Len(data) \in Nat /\ n < Len(data)
  BY <1>1
<1>5. PICK part \in Seq(Byte) : /\ part = SubSeq(data, 1, n) /\ Len(part) = n
                               /\ Extends(data, part)
                               /\ \A i \in 1 .. n : part[i] = data[i]
  BY <1>4, CutType
<1> SUFFICES \/ D!Classify(part) = D!Invalid
             \/ \E k \in 0 .. N - 1 :
                   D!Classify(part) = [ kind |-> "Datagram",
                                       sequence_number |-> d.sequence_number,
                                       frames |-> SubSeq(frames, 1, k) ]
  BY <1>1, <1>5
<1>6. CASE n = 0
  <2>1. part = << >>
    BY <1>5, <1>6
  <2>2. QED
    BY <2>1 DEF D!Classify
<1>7. ASSUME n # 0
      PROVE  /\ D!Classify(part) = D!DecodeDatagram(part)
             /\ \E from :
                  /\ FramesFrom(part, from)
                  /\ D!DecodeDatagram(part) =
                       IF Len(part) < 4 \/ ~from[4].ok THEN D!Invalid
                       ELSE [ kind |-> "Datagram",
                              sequence_number |-> D!U24LE(At(part, 1)),
                              frames |-> from[4].frames ]
  <2>1. 1 \in 1 .. n
    BY <1>7
  <2>2. part[1] = 128 /\ Len(part) # 0
    BY <1>1, <1>5, <1>7, <2>1
  <2>3. QED
    BY <2>2, ClassifiesDatagram, DatagramLoop
<1>8. CASE n # 0 /\ n < 4
  BY <1>5, <1>7, <1>8
<1>9. CASE n >= 4
  <2>1. n # 0 /\ ~(n < 4)
    BY <1>9
  <2>2. PICK from :
           /\ FramesFrom(part, from)
           /\ D!Classify(part) =
                IF ~from[4].ok THEN D!Invalid
                ELSE [ kind |-> "Datagram", sequence_number |-> D!U24LE(At(part, 1)),
                       frames |-> from[4].frames ]
    BY <1>5, <1>7, <2>1
  <2>3. D!U24LE(At(part, 1)) = d.sequence_number
    <3>1. 1 + 3 <= Len(part)
      BY <1>5, <1>9
    <3>2. D!Bytes(At(data, 1), 3) = D!Bytes(At(part, 1), 3)
      <4>1. Extends(data, part) /\ 1 \in Nat /\ 3 \in Nat
        BY <1>5
      <4>2. QED
        BY <3>1, <4>1, SameBytes
    <3>3. QED
      BY <1>1, <3>2 DEF D!U24LE
  <2>4. PICK k \in 0 .. N - 1 : start[k] <= n /\ n < start[k + 1]
    <3> DEFINE Reached == { i \in 0 .. N : start[i] <= n }
    <3>1. 0 \in Reached
      BY <1>2, <1>3, <1>9
    <3>2. PICK k \in Reached : \A i \in Reached : i <= k
      <4>1. Reached \in SUBSET (0 .. N) /\ Reached # {}
        BY <3>1
      <4> HIDE DEF Reached, N
      <4>2. QED
        BY <1>3, <4>1, Greatest
    <3>3. k \in 0 .. N /\ start[k] <= n
      BY <3>2
    <3>4. k # N
      <4>1. start[N] = Len(data)
        BY <1>2
      <4>2. QED
        BY <1>4, <3>3, <4>1
    <3>5. k + 1 \in 0 .. N /\ ~(k + 1 <= k) /\ k \in 0 .. N - 1
      BY <1>3, <3>3, <3>4
    <3>6. ~(start[k + 1] <= n)
      BY <3>2, <3>5
    <3>7. start[k + 1] \in Nat
      BY <1>2, <3>5 DEF Row
    <3>8. n < start[k + 1]
      BY <3>6, <3>7
    <3> HIDE DEF N
    <3>9. QED
      BY <3>3, <3>5, <3>8
  <2> DEFINE kept == SubSeq(frames, 1, k)
  <2>5. /\ kept \in Seq(FrameValues) /\ Len(kept) = k
        /\ \A i \in 1 .. k : kept[i] = frames[i]
    <3>1. k \in Nat /\ k <= Len(frames)
      BY <1>3
    <3> HIDE DEF frames
    <3>2. QED
      BY <1>3, <3>1
  <2>6. ASSUME NEW i \in 1 .. N
        PROVE  /\ start[i - 1] \in Nat /\ start[i] \in Nat
               /\ start[i - 1] + 3 <= start[i] /\ start[i] <= Len(data)
               /\ D!DecodeFrame(At(data, start[i - 1]))
                    = [frame |-> frames[i], next |-> At(data, start[i])]
    BY <1>2, <1>3, ReadsRow
  <2>7. \A i \in 0 .. k : start[i] <= n
    <3> DEFINE Inside == { i \in 0 .. k : start[i] <= n }
    <3>1. k \in Nat /\ k \in Inside
      BY <1>3, <2>4
    <3>2. ASSUME NEW m \in 0 .. k, m # k, \A i \in m + 1 .. k : i \in Inside
          PROVE  m \in Inside
      <4>1. m + 1 \in m + 1 .. k /\ m + 1 \in 1 .. N /\ (m + 1) - 1 = m
        BY <1>3, <3>1, <3>2
      <4>2. start[m + 1] <= n
        BY <3>2, <4>1
      <4>3. start[m] \in Nat /\ start[m + 1] \in Nat /\ start[m] + 3 <= start[m + 1]
        BY <2>6, <4>1
      <4>4. start[m] <= n
        BY <4>2, <4>3
      <4>5. QED
        BY <4>4
    <3>3. 0 .. k \subseteq Inside
      <4> HIDE DEF Inside
      <4>1. QED
        BY <3>1, <3>2, Downwards
    <3>4. QED
      BY <3>3
  <2>8. Row(part, kept, start)
    <3>1. \A i \in 0 .. k : start[i] \in Nat
      BY <1>2, <1>3 DEF Row
    <3>2. ASSUME NEW i \in 1 .. k
          PROVE  /\ Holds(part, start[i - 1], D!EncodeFrame(frames[i]))
                 /\ start[i] = start[i - 1] + Len(D!EncodeFrame(frames[i]))
      <4>1. i \in 1 .. N /\ i \in 0 .. k /\ frames[i] \in FrameValues
        BY <1>3
      <4>2. PICK b \in Seq(Byte) : b = D!EncodeFrame(frames[i])
        BY <4>1, FrameType
      <4>3. PICK p \in Nat : p = start[i - 1]
        BY <2>6, <4>1
      <4>4. Holds(data, p, b) /\ start[i] = p + Len(b) /\ Len(b) \in Nat
        BY <1>2, <4>1, <4>2, <4>3 DEF Row
      <4>5. p + Len(b) <= n
        BY <2>7, <4>1, <4>4
      <4>6. \A j \in 1 .. Len(b) : p + j \in 1 .. n
        BY <4>4, <4>5
      <4>7. \A j \in 1 .. Len(b) : part[p + j] = b[j]
        BY <1>5, <4>4, <4>6 DEF Holds
      <4>8. Holds(part, p, b)
        BY <1>5, <4>5, <4>7 DEF Holds
      <4>9. QED
        BY <4>2, <4>3, <4>4, <4>8
    <3> HIDE DEF kept, frames
    <3>3. QED
      BY <2>5, <3>1, <3>2 DEF Row
  <2>9. start[k] \in Nat /\ start[k] <= n
    BY <1>3, <2>4, <2>7, <1>2 DEF Row
  <2>10. ASSUME from[start[k]] \in {Done, Failed}
         PROVE  from[4] = [ok |-> from[start[k]].ok, frames |-> kept]
    <3> HIDE DEF kept
    <3>1. from[start[Len(kept)]] \in {Done, Failed}
      BY <2>5, <2>10
    <3>2. FramesFrom(part, from)
      BY <2>2
    <3>3. kept \in Seq(FrameValues) /\ Row(part, kept, start)
      BY <2>5, <2>8
    <3>4. from[start[0]] = [ok |-> from[start[Len(kept)]].ok, frames |-> kept]
      BY <3>1, <3>2, <3>3, LoopReadsRow
    <3>5. QED
      BY <1>2, <2>5, <3>4
  <2>11. CASE start[k] = n
    <3>1. from[start[k]] = Done
      BY <1>5, <2>2, <2>11 DEF FramesFrom
    <3>2. from[4] = [ok |-> Done.ok, frames |-> kept]
      BY <2>10, <3>1
    <3>3. from[4].ok = TRUE /\ from[4].frames = kept
      BY <3>2 DEF Done
    <3>4. QED
      BY <2>2, <2>3, <3>3
  <2>12. CASE start[k] # n
    <3>1. ~D!DecodeFrame(At(part, start[k])).next.ok
      <4> SUFFICES ASSUME D!DecodeFrame(At(part, start[k])).next.ok PROVE FALSE
        OBVIOUS
      <4>1. PICK p \in Nat : p = start[k]
        BY <2>9
      <4>2. PICK q \in p + 3 .. Len(part) :
               D!DecodeFrame(At(data, p))
                 = [ frame |-> D!DecodeFrame(At(part, p)).frame, next |-> At(data, q) ]
        <5>1. Extends(data, part) /\ D!DecodeFrame(At(part, p)).next.ok
          BY <1>5, <4>1
        <5>2. QED
          BY <5>1, DecodeRuns
      <4>3. k + 1 \in 1 .. N /\ (k + 1) - 1 = k
        BY <1>3
      <4>4. D!DecodeFrame(At(data, start[k])).next = At(data, start[k + 1])
            /\ start[k + 1] \in Nat
        <5>1. PICK i \in 1 .. N : i = k + 1 /\ i - 1 = k
          BY <4>3
        <5>2. start[i] \in Nat
              /\ D!DecodeFrame(At(data, start[i - 1]))
                   = [frame |-> frames[i], next |-> At(data, start[i])]
          BY <2>6
        <5>3. QED
          BY <5>1, <5>2
      <4>5. q = start[k + 1]
        BY <4>1, <4>2, <4>4 DEF At
      <4>6. q \in Nat /\ q <= n
        BY <1>5, <2>9
      <4>7. QED
        BY <2>4, <4>5, <4>6
    <3>2. from[start[k]] = Failed
      <4>1. start[k] \in 0 .. Len(part) /\ start[k] # Len(part)
        BY <1>5, <2>9, <2>12
      <4>2. QED
        BY <2>2, <3>1, <4>1 DEF FramesFrom
    <3>3. from[4] = [ok |-> Failed.ok, frames |-> kept]
      BY <2>10, <3>2
    <3>4. from[4].ok = FALSE
      BY <3>3 DEF Failed
    <3>5. QED
      BY <2>2, <3>4
  <2>13. QED
    BY <2>11, <2>12
<1>10. QED
  BY <1>4, <1>6, <1>8, <1>9

(* Records as the encoder takes them.                                       *)
RangeValues == [start : Index, end : Index \cup {D!None}]

(* One turn of Acknowledgement::decode's loop.                              *)
ReadRecord(before) ==
    LET start  == D!Skip(before.c, 1)
        end    == D!Skip(start, 3)
        single == D!IsSingle(D!U8(before.c))
    IN  [ c      |-> D!SkipIf(~single, end, 3),
          ranges |-> Append(before.ranges,
              [start |-> D!U24LE(start),
               end |-> IF single THEN D!None ELSE D!U24LE(end)]) ]

(* A record is four bytes or seven.                                         *)
LEMMA RangeType ==
  ASSUME NEW r \in RangeValues
  PROVE  /\ D!EncodeRange(r) \in Seq(Byte)
         /\ Len(D!EncodeRange(r)) = IF r.end = D!None THEN 4 ELSE 7
<1>1. PICK s \in Seq(Byte) : s = D!PutU24LE(r.start) /\ Len(s) = 3
  BY PutTypes DEF RangeValues, Index
<1>2. PICK one \in Seq(Byte), zero \in Seq(Byte) :
         one = <<1>> /\ zero = <<0>> /\ Len(one) = 1 /\ Len(zero) = 1
  <2>1. PICK x \in Byte, y \in Byte : x = 1 /\ y = 0
    BY DEF Byte
  <2>2. <<x>> \in Seq(Byte) /\ <<y>> \in Seq(Byte) /\ Len(<<x>>) = 1 /\ Len(<<y>>) = 1
    OBVIOUS
  <2>3. QED
    BY <2>1, <2>2
<1>3. CASE r.end = D!None
  <2>1. D!EncodeRange(r) = one \o s
    BY <1>1, <1>2, <1>3 DEF D!EncodeRange
  <2>2. one \o s \in Seq(Byte) /\ Len(one \o s) = Len(one) + Len(s)
    BY ConcatProperties
  <2>3. QED
    BY <1>1, <1>2, <1>3, <2>1, <2>2
<1>4. CASE r.end # D!None
  <2>1. PICK e \in Seq(Byte) : e = D!PutU24LE(r.end) /\ Len(e) = 3
    BY <1>4, PutTypes DEF RangeValues, Index
  <2>2. D!EncodeRange(r) = (zero \o s) \o e
    BY <1>1, <1>2, <1>4, <2>1 DEF D!EncodeRange
  <2>3. PICK x \in Seq(Byte) : x = zero \o s /\ Len(x) = Len(zero) + Len(s)
    BY ConcatProperties
  <2>4. x \o e \in Seq(Byte) /\ Len(x \o e) = Len(x) + Len(e)
    BY ConcatProperties
  <2>5. QED
    BY <1>1, <1>2, <1>4, <2>1, <2>2, <2>3, <2>4
<1>5. QED
  BY <1>3, <1>4

(* A record's marker and its numbers, where they stand.                     *)
LEMMA ReadsRange ==
  ASSUME NEW r \in RangeValues, NEW data \in Seq(Byte), NEW pos \in Nat,
         Holds(data, pos, D!EncodeRange(r))
  PROVE  /\ pos + Len(D!EncodeRange(r)) <= Len(data)
         /\ D!IsSingle(D!U8(At(data, pos))) <=> r.end = D!None
         /\ D!Skip(At(data, pos), 1) = At(data, pos + 1)
         /\ D!U24LE(At(data, pos + 1)) = r.start
         /\ D!Skip(At(data, pos + 1), 3) = At(data, pos + 4)
         /\ r.end # D!None => /\ D!U24LE(At(data, pos + 4)) = r.end
                              /\ D!Skip(At(data, pos + 4), 3) = At(data, pos + 7)
<1>1. /\ r.start \in 0 .. D!U24Max /\ (r.end # D!None => r.end \in 0 .. D!U24Max)
  BY DEF RangeValues, Index
<1>2. PICK s \in Seq(Byte) : s = D!PutU24LE(r.start) /\ Len(s) = 3
  BY <1>1, PutTypes
<1>3. PICK mark \in Byte : mark = IF r.end = D!None THEN 1 ELSE 0
  BY DEF Byte
<1>4. PICK m \in Seq(Byte) : m = <<mark>> /\ Len(m) = 1
  <2>1. <<mark>> \in Seq(Byte) /\ Len(<<mark>>) = 1
    OBVIOUS
  <2>2. QED
    BY <2>1
<1>5. pos + 1 \in Nat /\ pos + 4 \in Nat /\ pos + 1 + 3 = pos + 4 /\ pos + 4 + 3 = pos + 7
  OBVIOUS
<1>6. /\ Holds(data, pos, m \o s)
      /\ r.end # D!None => Holds(data, pos + 4, D!PutU24LE(r.end))
  <2>1. CASE r.end = D!None
    BY <1>2, <1>3, <1>4, <2>1 DEF D!EncodeRange
  <2>2. CASE r.end # D!None
    <3>1. PICK e \in Seq(Byte) : e = D!PutU24LE(r.end)
      BY <1>1, <2>2, PutTypes
    <3>2. D!EncodeRange(r) = (m \o s) \o e
      BY <1>2, <1>3, <1>4, <2>2, <3>1 DEF D!EncodeRange
    <3>3. PICK x \in Seq(Byte) : x = m \o s /\ Len(x) = Len(m) + Len(s)
      BY ConcatProperties
    <3>4. Holds(data, pos, x) /\ Holds(data, pos + Len(x), e)
      BY <3>2, <3>3, HoldsParts
    <3>5. Len(x) = 4
      BY <1>2, <1>4, <3>3
    <3>6. QED
      BY <3>1, <3>3, <3>4, <3>5
  <2>3. QED
    BY <2>1, <2>2
<1>7. Holds(data, pos, <<mark>>) /\ Holds(data, pos + 1, D!PutU24LE(r.start))
  BY <1>2, <1>4, <1>6, HoldsParts
<1>8. D!U8(At(data, pos)) = mark /\ D!Skip(At(data, pos), 1) = At(data, pos + 1)
  BY <1>7, ReadsU8
<1>9. D!IsSingle(D!U8(At(data, pos))) <=> r.end = D!None
  BY <1>3, <1>8 DEF D!IsSingle
<1>10. /\ D!U24LE(At(data, pos + 1)) = r.start
       /\ D!Skip(At(data, pos + 1), 3) = At(data, pos + 4)
  <2>1. D!Skip(At(data, pos + 1), 3) = At(data, pos + 1 + 3)
    BY <1>1, <1>5, <1>7, ReadsU24
  <2>2. QED
    BY <1>1, <1>5, <1>7, <2>1, ReadsU24
<1>11. ASSUME r.end # D!None
       PROVE  /\ D!U24LE(At(data, pos + 4)) = r.end
              /\ D!Skip(At(data, pos + 4), 3) = At(data, pos + 7)
  <2>1. D!Skip(At(data, pos + 4), 3) = At(data, pos + 4 + 3)
    BY <1>1, <1>5, <1>6, <1>11, ReadsU24
  <2>2. QED
    BY <1>1, <1>5, <1>6, <1>11, <2>1, ReadsU24
<1>12. pos + Len(D!EncodeRange(r)) <= Len(data)
  BY DEF Holds
<1>13. QED
  BY <1>8, <1>9, <1>10, <1>11, <1>12

(* A record is read, and the cursor goes behind it.                         *)
LEMMA ReadsRecord ==
  ASSUME NEW r \in RangeValues, NEW data \in Seq(Byte), NEW pos \in Nat,
         Holds(data, pos, D!EncodeRange(r)), NEW before, before.c = At(data, pos)
  PROVE  ReadRecord(before)
           = [ c      |-> At(data, pos + Len(D!EncodeRange(r))),
               ranges |-> Append(before.ranges, r) ]
<1> DEFINE start  == D!Skip(before.c, 1)
           end    == D!Skip(start, 3)
           single == D!IsSingle(D!U8(before.c))
           stop   == D!SkipIf(~single, end, 3)
           record == [start |-> D!U24LE(start),
                      end |-> IF single THEN D!None ELSE D!U24LE(end)]
<1>1. /\ D!IsSingle(D!U8(At(data, pos))) <=> r.end = D!None
      /\ D!Skip(At(data, pos), 1) = At(data, pos + 1)
      /\ D!U24LE(At(data, pos + 1)) = r.start
      /\ D!Skip(At(data, pos + 1), 3) = At(data, pos + 4)
      /\ r.end # D!None => /\ D!U24LE(At(data, pos + 4)) = r.end
                           /\ D!Skip(At(data, pos + 4), 3) = At(data, pos + 7)
  BY ReadsRange
<1>2. start = At(data, pos + 1) /\ end = At(data, pos + 4) /\ (single <=> r.end = D!None)
  BY <1>1
<1>3. ReadRecord(before) = [c |-> stop, ranges |-> Append(before.ranges, record)]
  BY DEF ReadRecord
<1> HIDE DEF start, end, single
<1>4. stop = At(data, pos + Len(D!EncodeRange(r)))
  <2>1. CASE r.end = D!None
    <3>1. Len(D!EncodeRange(r)) = 4
      BY <2>1, RangeType
    <3>2. QED
      BY <1>2, <2>1, <3>1 DEF D!SkipIf
  <2>2. CASE r.end # D!None
    <3>1. Len(D!EncodeRange(r)) = 7
      BY <2>2, RangeType
    <3>2. QED
      BY <1>1, <1>2, <2>2, <3>1 DEF D!SkipIf
  <2>3. QED
    BY <2>1, <2>2
<1>5. record = r
  <2>1. r = [start |-> r.start, end |-> r.end]
    BY DEF RangeValues
  <2>2. record.start = r.start
    BY <1>1, <1>2
  <2>3. record.end = r.end
    BY <1>1, <1>2
  <2>4. QED
    BY <2>1, <2>2, <2>3
<1> HIDE DEF stop, record
<1>6. QED
  BY <1>3, <1>4, <1>5

(* The records one after the other.                                         *)
RecordsRead(data, read) ==
    /\ read[0] = [c |-> D!Skip(At(data, 1), 2), ranges |-> << >>]
    /\ \A n \in 1 .. Len(data) : read[n] = ReadRecord(read[n - 1])

(* Acknowledgement::decode is as many turns of its loop as the count says.  *)
LEMMA AckLoop ==
  ASSUME NEW data \in Seq(Byte), Len(data) # 0, NEW is_ack
  PROVE  \E read :
            /\ RecordsRead(data, read)
            /\ D!DecodeAck(data, is_ack) =
                 IF \/ Len(data) < 3 \/ D!U16(At(data, 1)) > Len(data)
                    \/ ~read[D!U16(At(data, 1))].c.ok
                 THEN D!Invalid
                 ELSE [ kind   |-> IF is_ack THEN "Ack" ELSE "Nack",
                        ranges |-> read[D!U16(At(data, 1))].ranges ]
<1> DEFINE head == D!Skip(D!Cursor(data), 1)
           L == Len(data)
           Zero == [c |-> D!Skip(head, 2), ranges |-> << >>]
           Step(g, n) == IF n = 0 THEN Zero ELSE ReadRecord(g[n - 1])
           Eq(g) == g = [n \in 0 .. L |-> Step(g, n)]
           read == CHOOSE g : Eq(g)
<1>1. L \in Nat \ {0} /\ L = Len(data)
  OBVIOUS
<1>2. head = At(data, 1)
  <2>1. D!Cursor(data) = At(data, 0)
    BY DEF D!Cursor, At
  <2>2. Extends(data, data) /\ 0 + 1 <= L
    BY <1>1 DEF Extends
  <2>3. D!Skip(At(data, 0), 1) = At(data, 0 + 1)
    BY <1>1, <2>2, SameBytes
  <2>4. QED
    BY <2>1, <2>3
<1>3. D!DecodeAck(data, is_ack) =
        IF ~D!Ensure(head, 2) \/ D!U16(head) > L \/ ~read[D!U16(head)].c.ok
        THEN D!Invalid
        ELSE [ kind   |-> IF is_ack THEN "Ack" ELSE "Nack",
               ranges |-> read[D!U16(head)].ranges ]
  BY DEF D!DecodeAck, ReadRecord
<1> HIDE DEF head, L
<1>4. Eq(read)
  <2> DEFINE Solves(g, k) == g = [n \in 0 .. k |-> Step(g, n)]
             Solved == { k \in 0 .. L : \E g : Solves(g, k) }
  <2>1. 0 \in Solved
    <3>1. Solves([n \in 0 .. 0 |-> Zero], 0)
      <4>1. \A g, n : n \in 0 .. 0 => Step(g, n) = Zero
        OBVIOUS
      <4> HIDE DEF Step, Zero
      <4>2. QED
        BY <4>1
    <3>2. 0 \in 0 .. L
      BY <1>1
    <3> HIDE DEF Solves
    <3>3. QED
      BY <3>1, <3>2
  <2>2. ASSUME NEW k \in 1 .. L, k - 1 \in Solved
        PROVE  k \in Solved
    <3>1. PICK g : Solves(g, k - 1)
      <4> HIDE DEF Solves
      <4>1. QED
        BY <2>2
    <3> DEFINE h == [n \in 0 .. k |-> IF n = k THEN Step(g, k) ELSE g[n]]
    <3>2. ASSUME NEW n \in 0 .. k PROVE Step(h, n) = Step(g, n)
      <4>1. CASE n = 0
        BY <4>1
      <4>2. CASE n # 0
        <5>1. n - 1 \in 0 .. k /\ n - 1 # k
          BY <1>1, <4>2
        <5>2. h[n - 1] = g[n - 1]
          BY <5>1
        <5> HIDE DEF h
        <5>3. QED
          BY <4>2, <5>2
      <4>3. QED
        BY <4>1, <4>2
    <3>3. ASSUME NEW n \in 0 .. k PROVE h[n] = Step(h, n)
      <4>1. CASE n = k
        <5>1. h[n] = Step(g, n)
          <6> HIDE DEF Step
          <6>1. QED
            BY <4>1
        <5> HIDE DEF Step, h
        <5>2. QED
          BY <3>2, <5>1
      <4>2. CASE n # k
        <5>1. n \in 0 .. k - 1
          BY <1>1, <4>2
        <5>2. h[n] = g[n]
          BY <4>2
        <5>3. g[n] = Step(g, n)
          <6> HIDE DEF Step, h
          <6>1. QED
            BY <3>1, <5>1
        <5> HIDE DEF Step, h
        <5>4. QED
          BY <3>2, <5>2, <5>3
      <4>3. QED
        BY <4>1, <4>2
    <3>4. h = [n \in 0 .. k |-> h[n]]
      OBVIOUS
    <3>5. Solves(h, k)
      <4> HIDE DEF Step, h
      <4>1. QED
        BY <3>3, <3>4
    <3>6. k \in 0 .. L
      BY <1>1
    <3> HIDE DEF Solves, h
    <3>7. QED
      BY <3>5, <3>6
  <2>3. 0 .. L \subseteq Solved
    <3> HIDE DEF Solved
    <3>1. QED
      BY <1>1, <2>1, <2>2, Upwards
  <2>4. L \in Solved
    <3>1. L \in 0 .. L
      BY <1>1
    <3> HIDE DEF Solved
    <3>2. QED
      BY <2>3, <3>1
  <2>5. PICK g : Eq(g)
    <3> HIDE DEF Step
    <3>1. QED
      BY <2>4
  <2> HIDE DEF Eq
  <2>6. QED
    BY <2>5
<1>5. \A n \in 0 .. L : read[n] = Step(read, n)
  <2> HIDE DEF read, Step
  <2>1. QED
    BY <1>4
<1> HIDE DEF read
<1>6. RecordsRead(data, read)
  <2>1. read[0] = Zero
    BY <1>1, <1>5
  <2>2. ASSUME NEW n \in 1 .. L PROVE read[n] = ReadRecord(read[n - 1])
    <3>1. n \in 0 .. L /\ n # 0
      BY <1>1
    <3>2. QED
      BY <1>5, <3>1
  <2>3. QED
    BY <1>1, <1>2, <2>1, <2>2 DEF RecordsRead
<1>7. D!Ensure(head, 2) <=> ~(L < 3)
  BY <1>1, <1>2 DEF D!Ensure, D!Remaining, At
<1>8. QED
  BY <1>1, <1>2, <1>3, <1>6, <1>7

(* A record that is read is there, and what stands behind it changes        *)
(* nothing.                                                                 *)
LEMMA RecordRuns ==
  ASSUME NEW data \in Seq(Byte), NEW longer \in Seq(Byte), Extends(longer, data),
         NEW before, before.c \in Cursors(data)
  PROVE  /\ ReadRecord(before).c \in Cursors(data)
         /\ ReadRecord(before).c.ok =>
              /\ before.c.ok
              /\ \E q \in 0 .. Len(data) :
                   /\ ReadRecord(before).c = At(data, q)
                   /\ \A b : b.c = At(longer, before.c.pos) =>
                                ReadRecord(b).c = At(longer, q)
<1> DEFINE c      == before.c
           start  == D!Skip(c, 1)
           end    == D!Skip(start, 3)
           single == D!IsSingle(D!U8(c))
           stop   == D!SkipIf(~single, end, 3)
<1>1. ReadRecord(before).c = stop
  BY DEF ReadRecord
<1>2. c \in Cursors(data) /\ single \in BOOLEAN
  BY DEF D!IsSingle
<1> HIDE DEF c
<1>3. /\ start \in Cursors(data)
      /\ start.ok => c.ok /\ c = At(data, c.pos) /\ c.pos + 1 <= Len(data)
  BY <1>2, SkipType
<1> HIDE DEF start, single
<1>4. end \in Cursors(data) /\ (end.ok => start.ok)
  BY <1>3, SkipType
<1> HIDE DEF end
<1>5. PICK more \in BOOLEAN : more = ~single
  BY <1>2
<1>6. stop = D!SkipIf(more, end, 3)
  BY <1>5
<1>7. stop \in Cursors(data) /\ (stop.ok => end.ok)
  BY <1>4, <1>6, SkipIfType
<1>8. ASSUME stop.ok
      PROVE  /\ c.ok
             /\ \E q \in 0 .. Len(data) :
                   /\ stop = At(data, q)
                   /\ \A b : b.c = At(longer, c.pos) => ReadRecord(b).c = At(longer, q)
  <2> HIDE DEF stop
  <2>1. stop.ok /\ end.ok /\ start.ok /\ c.ok
    BY <1>3, <1>4, <1>7, <1>8
  <2>2. PICK p \in Nat : p = c.pos
    BY <1>2 DEF Cursors
  <2>3. c = At(data, p)
    BY <1>3, <2>1, <2>2
  <2>4. /\ start = At(data, p + 1) /\ D!Skip(At(longer, p), 1) = At(longer, p + 1)
        /\ D!U8(At(longer, p)) = D!U8(c)
    <3>1. D!Skip(At(data, p), 1).ok
      BY <2>1, <2>3 DEF start
    <3>2. /\ D!Skip(At(data, p), 1) = At(data, p + 1)
          /\ D!Skip(At(longer, p), 1) = At(longer, p + 1)
          /\ D!Bytes(At(longer, p), 1) = D!Bytes(At(data, p), 1)
      BY <3>1, SkipAt
    <3>3. QED
      BY <2>3, <3>2 DEF start, D!U8
  <2>5. /\ p + 1 + 3 <= Len(data)
        /\ end = At(data, p + 1 + 3)
        /\ D!Skip(At(longer, p + 1), 3) = At(longer, p + 1 + 3)
    <3>1. D!Skip(At(data, p + 1), 3).ok /\ p + 1 \in Nat
      BY <2>1, <2>4 DEF end
    <3>2. /\ p + 1 + 3 <= Len(data)
          /\ D!Skip(At(data, p + 1), 3) = At(data, p + 1 + 3)
          /\ D!Skip(At(longer, p + 1), 3) = At(longer, p + 1 + 3)
      BY <3>1, SkipAt
    <3>3. QED
      BY <2>4, <3>2 DEF end
  <2>6. PICK q \in Nat :
           /\ stop = At(data, q)
           /\ D!SkipIf(more, At(longer, p + 1 + 3), 3) = At(longer, q)
           /\ more => q <= Len(data)
           /\ ~more => q = p + 1 + 3
    <3>1. p + 1 + 3 \in Nat
      OBVIOUS
    <3>2. CASE more
      <4>1. D!Skip(At(data, p + 1 + 3), 3).ok
        BY <1>6, <2>1, <2>5, <3>2 DEF D!SkipIf
      <4>2. /\ p + 1 + 3 + 3 <= Len(data)
            /\ D!Skip(At(data, p + 1 + 3), 3) = At(data, p + 1 + 3 + 3)
            /\ D!Skip(At(longer, p + 1 + 3), 3) = At(longer, p + 1 + 3 + 3)
        BY <3>1, <4>1, SkipAt
      <4>3. p + 1 + 3 + 3 \in Nat
        OBVIOUS
      <4>4. QED
        BY <1>6, <2>5, <3>2, <4>2, <4>3 DEF D!SkipIf
    <3>3. CASE ~more
      BY <1>6, <2>5, <3>1, <3>3 DEF D!SkipIf
    <3>4. QED
      BY <3>2, <3>3
  <2>7. q \in 0 .. Len(data)
    <3>1. Len(data) \in Nat
      OBVIOUS
    <3>2. QED
      BY <2>5, <2>6, <3>1
  <2>8. ASSUME NEW b, b.c = At(longer, c.pos) PROVE ReadRecord(b).c = At(longer, q)
    <3>1. b.c = At(longer, p)
      BY <2>2, <2>8
    <3>2. ReadRecord(b).c
            = D!SkipIf(~D!IsSingle(D!U8(b.c)), D!Skip(D!Skip(b.c, 1), 3), 3)
      BY DEF ReadRecord
    <3>3. D!Skip(D!Skip(b.c, 1), 3) = At(longer, p + 1 + 3)
      BY <2>4, <2>5, <3>1
    <3>4. (~D!IsSingle(D!U8(b.c))) = more
      BY <1>5, <2>4, <3>1 DEF single
    <3>5. QED
      BY <2>6, <3>2, <3>3, <3>4
  <2>9. QED
    BY <2>1, <2>6, <2>7, <2>8
<1> HIDE DEF stop
<1>9. QED
  BY <1>1, <1>7, <1>8 DEF c

(* ACK and NACK packets with as many records as their count can name.       *)
AckValues == { a \in [is_ack : BOOLEAN, ranges : Seq(RangeValues)] :
                 Len(a.ranges) <= D!U16Max }

(* Records that stand behind one another, from start[0] on.                 *)
RangeRow(data, ranges, start) ==
    /\ \A i \in 0 .. Len(ranges) : start[i] \in Nat
    /\ \A i \in 1 .. Len(ranges) :
         /\ Holds(data, start[i - 1], D!EncodeRange(ranges[i]))
         /\ start[i] = start[i - 1] + Len(D!EncodeRange(ranges[i]))

(* An acknowledgement's id and count, and the row of its records behind     *)
(* them.                                                                    *)
LEMMA AckBytes ==
  ASSUME NEW a \in AckValues
  PROVE  /\ D!EncodeAck(a) \in Seq(Byte)
         /\ 3 <= Len(D!EncodeAck(a))
         /\ D!EncodeAck(a)[1] = IF a.is_ack THEN 192 ELSE 160
         /\ D!U16(At(D!EncodeAck(a), 1)) = Len(a.ranges)
         /\ D!Skip(At(D!EncodeAck(a), 1), 2) = At(D!EncodeAck(a), 3)
         /\ \E start : /\ RangeRow(D!EncodeAck(a), a.ranges, start)
                       /\ start[0] = 3
                       /\ start[Len(a.ranges)] = Len(D!EncodeAck(a))
<1> DEFINE data  == D!EncodeAck(a)
           parts == [i \in DOMAIN a.ranges |-> D!EncodeRange(a.ranges[i])]
           n     == Len(a.ranges)
<1>1. /\ a.ranges \in Seq(RangeValues) /\ n \in Nat /\ n \in 0 .. D!U16Max
      /\ a.is_ack \in BOOLEAN
  <2>1. a.ranges \in Seq(RangeValues) /\ n <= D!U16Max /\ a.is_ack \in BOOLEAN
    BY DEF AckValues
  <2>2. n \in Nat
    BY <2>1
  <2> HIDE DEF n
  <2>3. QED
    BY <2>1, <2>2, Widths
<1>2. parts \in Seq(Seq(Byte)) /\ Len(parts) = n
      /\ \A i \in 1 .. n : parts[i] = D!EncodeRange(a.ranges[i])
  <2>1. DOMAIN a.ranges = 1 .. n /\ \A i \in 1 .. n : a.ranges[i] \in RangeValues
    BY <1>1
  <2>2. \A i \in 1 .. n : D!EncodeRange(a.ranges[i]) \in Seq(Byte)
    BY <2>1, RangeType
  <2> HIDE DEF n
  <2>3. parts \in [1 .. n -> Seq(Byte)]
    BY <2>1, <2>2
  <2>4. \A i \in 1 .. n : parts[i] = D!EncodeRange(a.ranges[i])
    BY <2>1
  <2> HIDE DEF parts
  <2>5. QED
    BY <1>1, <2>3, <2>4
<1>3. PICK flag \in Seq(Byte) : /\ flag = <<IF a.is_ack THEN D!FLAG_ACK ELSE D!FLAG_NACK>>
                                /\ Len(flag) = 1
                                /\ flag[1] = IF a.is_ack THEN 192 ELSE 160
  <2>1. PICK v \in Byte : v = IF a.is_ack THEN 192 ELSE 160
    BY DEF Byte
  <2>2. <<v>> \in Seq(Byte) /\ Len(<<v>>) = 1 /\ <<v>>[1] = v
    OBVIOUS
  <2>3. QED
    BY <2>1, <2>2, ZenonT(60) DEF D!FLAG_ACK, D!FLAG_NACK
<1> HIDE DEF parts, n
<1>4. PICK num \in Seq(Byte) : num = D!PutU16(n) /\ Len(num) = 2
  BY <1>1, PutTypes
<1>5. PICK flat \in Seq(Byte) : flat = D!FlattenSeq(parts)
  <2>1. PICK f \in [0 .. Len(parts) -> Seq(Byte)] : D!FlattenSeq(parts) = f[Len(parts)]
    BY <1>2, Flattened
  <2>2. Len(parts) \in 0 .. Len(parts)
    BY <1>1, <1>2
  <2>3. QED
    BY <2>1, <2>2
<1>6. data = flag \o num \o flat
  BY <1>3, <1>4, <1>5 DEF D!EncodeAck, parts, n
<1>7. PICK head \in Seq(Byte) : head = flag \o num /\ Len(head) = Len(flag) + Len(num)
                               /\ head[1] = flag[1]
  <2>1. /\ flag \o num \in Seq(Byte)
        /\ Len(flag \o num) = Len(flag) + Len(num)
        /\ \A i \in 1 .. Len(flag) + Len(num) :
             (flag \o num)[i] = IF i <= Len(flag) THEN flag[i] ELSE num[i - Len(flag)]
    BY ConcatProperties
  <2>2. 1 \in 1 .. Len(flag) + Len(num) /\ 1 <= Len(flag)
    BY <1>3, <1>4
  <2>3. (flag \o num)[1] = flag[1]
    BY <2>1, <2>2
  <2>4. QED
    BY <2>1, <2>3
<1>8. Len(head) = 3 /\ head[1] = IF a.is_ack THEN 192 ELSE 160
  BY <1>3, <1>4, <1>7
<1> HIDE DEF data
<1>9. /\ data \in Seq(Byte) /\ Len(data) = Len(head) + Len(flat) /\ Len(flat) \in Nat
      /\ data[1] = head[1] /\ data = head \o flat
  <2>1. data = head \o flat
    BY <1>6, <1>7
  <2>2. head \o flat \in Seq(Byte) /\ Len(head \o flat) = Len(head) + Len(flat)
        /\ Len(flat) \in Nat
    BY ConcatProperties
  <2>3. (head \o flat)[1] = head[1]
    <3>1. 1 \in 1 .. Len(head) + Len(flat) /\ 1 <= Len(head)
      BY <1>8, <2>2
    <3>2. QED
      BY <3>1, ConcatProperties
  <2>4. QED
    BY <2>1, <2>2, <2>3
<1>10. Holds(data, 0, head) /\ Holds(data, 3, flat)
  <2>1. Holds(data, 0, head \o flat)
    BY <1>9, HoldsItself
  <2>2. Holds(data, 0, head) /\ Holds(data, 0 + Len(head), flat)
    BY <1>9, <2>1, HoldsParts
  <2>3. QED
    BY <1>8, <2>2
<1>11. Holds(data, 1, num)
  <2>1. Holds(data, 0, flag \o num)
    BY <1>7, <1>10
  <2>2. Holds(data, 0 + Len(flag), num)
    BY <1>9, <2>1, HoldsParts
  <2>3. QED
    BY <1>3, <2>2
<1>12. D!U16(At(data, 1)) = n /\ D!Skip(At(data, 1), 2) = At(data, 3)
  <2>1. n \in 0 .. D!U16Max /\ Holds(data, 1, D!PutU16(n)) /\ data \in Seq(Byte) /\ 1 \in Nat
    BY <1>1, <1>4, <1>9, <1>11
  <2>2. D!Skip(At(data, 1), 2) = At(data, 1 + 2) /\ D!U16(At(data, 1)) = n
    BY <2>1, ReadsU16
  <2>3. QED
    BY <2>2
<1>13. PICK start \in [0 .. Len(parts) -> Nat] :
          /\ start[0] = 3
          /\ start[Len(parts)] = 3 + Len(D!FlattenSeq(parts))
          /\ \A i \in 1 .. Len(parts) : /\ Holds(data, start[i - 1], parts[i])
                                        /\ start[i] = start[i - 1] + Len(parts[i])
  <2>1. Holds(data, 3, D!FlattenSeq(parts)) /\ 3 \in Nat
    BY <1>5, <1>10
  <2>2. QED
    BY <1>2, <1>9, <2>1, PartsAt, ZenonT(60)
<1>14. RangeRow(data, a.ranges, start)
  <2>1. \A i \in 0 .. n : start[i] \in Nat
    BY <1>2
  <2>2. \A i \in 1 .. n : /\ Holds(data, start[i - 1], D!EncodeRange(a.ranges[i]))
                          /\ start[i] = start[i - 1] + Len(D!EncodeRange(a.ranges[i]))
    BY <1>2, <1>13
  <2>3. QED
    BY <2>1, <2>2 DEF RangeRow, n
<1>15. start[n] = Len(data)
  BY <1>2, <1>5, <1>8, <1>9, <1>13
<1>16. 3 <= Len(data) /\ data[1] = IF a.is_ack THEN 192 ELSE 160
  BY <1>8, <1>9
<1>17. QED
  BY <1>9, <1>12, <1>13, <1>14, <1>15, <1>16 DEF data, n

(* The first byte tells an ACK and a NACK.                                  *)
LEMMA ClassifiesAck ==
  ASSUME NEW data \in Seq(Byte), Len(data) # 0, NEW is_ack \in BOOLEAN,
         data[1] = IF is_ack THEN 192 ELSE 160
  PROVE  D!Classify(data) = D!DecodeAck(data, is_ack)
<1>1. data # << >>
  OBVIOUS
<1>2. ~(160 >= 192) /\ 160 >= 128 /\ (160 \div 32) % 2 = 1 /\ 192 >= 192
  OBVIOUS
<1>3. CASE is_ack
  <2>1. is_ack = TRUE /\ data[1] = 192
    BY <1>3
  <2>2. QED
    <3>1. D!Classify(data) = D!DecodeAck(data, TRUE)
      BY <1>1, <1>2, <2>1 DEF D!Classify
    <3>2. QED
      BY <2>1, <3>1
<1>4. CASE ~is_ack
  <2>1. is_ack = FALSE /\ data[1] = 160
    BY <1>4
  <2>2. QED
    <3>1. D!Classify(data) = D!DecodeAck(data, FALSE)
      BY <1>1, <1>2, <2>1 DEF D!Classify
    <3>2. QED
      BY <2>1, <3>1
<1>5. QED
  BY <1>3, <1>4

(* A record takes at least a byte, so that as many fit as are counted.      *)
LEMMA RangeRowFits ==
  ASSUME NEW data \in Seq(Byte), NEW ranges \in Seq(RangeValues), NEW start,
         RangeRow(data, ranges, start)
  PROVE  \A i \in 0 .. Len(ranges) : start[0] + i <= start[i]
<1> DEFINE N == Len(ranges)
           Fits == { i \in 0 .. N : start[0] + i <= start[i] }
<1>1. N \in Nat /\ \A i \in 0 .. N : start[i] \in Nat
  BY DEF RangeRow
<1>2. 0 \in Fits
  BY <1>1
<1>3. ASSUME NEW i \in 1 .. N, i - 1 \in Fits PROVE i \in Fits
  <2>1. PICK r \in RangeValues : r = ranges[i]
    OBVIOUS
  <2>2. Len(D!EncodeRange(r)) \in {4, 7}
    BY RangeType
  <2>3. start[i] = start[i - 1] + Len(D!EncodeRange(r))
    BY <2>1 DEF RangeRow
  <2>4. i \in 0 .. N /\ i - 1 \in 0 .. N /\ 0 \in 0 .. N
    BY <1>1
  <2>5. PICK x \in Nat, y \in Nat, z \in Nat : x = start[0] /\ y = start[i - 1] /\ z = start[i]
    BY <1>1, <2>4
  <2>6. x + (i - 1) <= y
    BY <1>3, <2>5
  <2>7. x + i <= z
    <3>1. PICK l \in {4, 7} : l = Len(D!EncodeRange(r))
      BY <2>2
    <3>2. z = y + l
      BY <2>3, <2>5, <3>1
    <3>3. QED
      BY <1>1, <2>6, <3>2
  <2>8. QED
    BY <2>4, <2>5, <2>7
<1>4. 0 .. N \subseteq Fits
  <2> HIDE DEF Fits, N
  <2>1. QED
    BY <1>1, <1>2, <1>3, Upwards
<1>5. QED
  BY <1>4

(***************************************************************************)
(* An ACK or NACK is read back as it was sent, record by record.            *)
(***************************************************************************)
THEOREM AckReadsBack ==
  ASSUME NEW a \in AckValues
  PROVE  D!Classify(D!EncodeAck(a))
           = [kind |-> IF a.is_ack THEN "Ack" ELSE "Nack", ranges |-> a.ranges]
<1> DEFINE ranges == a.ranges
           N == Len(ranges)
<1>1. PICK data \in Seq(Byte) :
         /\ data = D!EncodeAck(a) /\ 3 <= Len(data)
         /\ data[1] = IF a.is_ack THEN 192 ELSE 160
         /\ D!U16(At(data, 1)) = N
         /\ D!Skip(At(data, 1), 2) = At(data, 3)
  BY AckBytes
<1>2. PICK start : RangeRow(data, ranges, start) /\ start[0] = 3 /\ start[N] = Len(data)
  BY <1>1, AckBytes
<1>3. ranges \in Seq(RangeValues) /\ N \in Nat /\ a.is_ack \in BOOLEAN
      /\ Len(data) \in Nat /\ Len(data) # 0 /\ ~(Len(data) < 3)
  BY <1>1 DEF AckValues
<1>4. D!Classify(data) = D!DecodeAck(data, a.is_ack)
  BY <1>1, <1>3, ClassifiesAck
<1>5. PICK read :
         /\ RecordsRead(data, read)
         /\ D!DecodeAck(data, a.is_ack) =
              IF Len(data) < 3 \/ N > Len(data) \/ ~read[N].c.ok THEN D!Invalid
              ELSE [ kind |-> IF a.is_ack THEN "Ack" ELSE "Nack", ranges |-> read[N].ranges ]
  <2>1. PICK read :
           /\ RecordsRead(data, read)
           /\ D!DecodeAck(data, a.is_ack) =
                IF \/ Len(data) < 3 \/ D!U16(At(data, 1)) > Len(data)
                   \/ ~read[D!U16(At(data, 1))].c.ok
                THEN D!Invalid
                ELSE [ kind   |-> IF a.is_ack THEN "Ack" ELSE "Nack",
                       ranges |-> read[D!U16(At(data, 1))].ranges ]
    BY <1>3, AckLoop
  <2>2. D!U16(At(data, 1)) = N
    BY <1>1
  <2> HIDE DEF N
  <2>3. QED
    BY <2>1, <2>2
<1>6. 3 + N <= Len(data)
  <2>1. \A i \in 0 .. Len(ranges) : start[0] + i <= start[i]
    BY <1>2, <1>3, RangeRowFits
  <2>2. N \in 0 .. Len(ranges)
    BY <1>3
  <2>3. QED
    BY <1>2, <2>1, <2>2
<1> DEFINE Right == { i \in 0 .. N : read[i] = [ c |-> At(data, start[i]),
                                                ranges |-> SubSeq(ranges, 1, i) ] }
<1>7. 0 \in Right
  <2>1. SubSeq(ranges, 1, 0) = << >>
    BY SubSeqEmpty
  <2>2. read[0] = [c |-> At(data, 3), ranges |-> << >>]
    BY <1>1, <1>5 DEF RecordsRead
  <2>3. read[0] = [c |-> At(data, start[0]), ranges |-> SubSeq(ranges, 1, 0)]
    BY <1>2, <2>1, <2>2
  <2>4. 0 \in 0 .. N
    BY <1>3
  <2> HIDE DEF N, ranges
  <2>5. QED
    BY <2>3, <2>4
<1>8. ASSUME NEW i \in 1 .. N, i - 1 \in Right PROVE i \in Right
  <2>1. i \in 1 .. Len(data) /\ i \in 0 .. N /\ i - 1 \in 0 .. N
    BY <1>3, <1>6
  <2>2. PICK r \in RangeValues : r = ranges[i]
    BY <1>3
  <2>3. PICK p \in Nat : p = start[i - 1]
    BY <1>2, <2>1 DEF RangeRow
  <2>4. Holds(data, p, D!EncodeRange(r)) /\ start[i] = p + Len(D!EncodeRange(r))
    BY <1>2, <2>2, <2>3 DEF RangeRow
  <2>5. PICK before : before = read[i - 1]
    OBVIOUS
  <2>6. before.c = At(data, p) /\ before.ranges = SubSeq(ranges, 1, i - 1)
    <3>1. read[i - 1] = [c |-> At(data, start[i - 1]), ranges |-> SubSeq(ranges, 1, i - 1)]
      BY <1>8
    <3>2. QED
      BY <2>3, <2>5, <3>1
  <2>7. read[i] = [c |-> At(data, start[i]), ranges |-> Append(SubSeq(ranges, 1, i - 1), r)]
    <3>1. read[i] = ReadRecord(before)
      BY <1>5, <2>1, <2>5 DEF RecordsRead
    <3>2. ReadRecord(before) = [ c |-> At(data, p + Len(D!EncodeRange(r))),
                                 ranges |-> Append(before.ranges, r) ]
      BY <2>4, <2>6, ReadsRecord
    <3>3. QED
      BY <2>4, <2>6, <3>1, <3>2
  <2>8. Append(SubSeq(ranges, 1, i - 1), r) = SubSeq(ranges, 1, i)
    <3>1. 1 \in 1 .. Len(ranges) /\ i \in 1 .. Len(ranges)
      BY <1>3, <2>1
    <3>2. SubSeq(ranges, 1, i) = SubSeq(ranges, 1, i - 1) \o <<ranges[i]>>
      BY <1>3, <3>1, SubSeqRecursiveSecond
    <3>3. SubSeq(ranges, 1, i - 1) \in Seq(RangeValues)
      <4>1. \A j \in 1 .. i - 1 : ranges[j] \in RangeValues
        BY <1>3
      <4>2. 1 \in Int /\ i - 1 \in Int
        OBVIOUS
      <4> HIDE DEF ranges
      <4>3. QED
        BY <4>1, <4>2, SubSeqProperties
    <3>4. QED
      BY <2>2, <3>2, <3>3, AppendIsConcat
  <2>9. read[i] = [c |-> At(data, start[i]), ranges |-> SubSeq(ranges, 1, i)]
    BY <2>7, <2>8
  <2> HIDE DEF N, ranges
  <2>10. QED
    BY <2>1, <2>9
<1>9. read[N] = [c |-> At(data, start[N]), ranges |-> SubSeq(ranges, 1, N)]
  <2>1. N \in Nat /\ N \in 0 .. N
    BY <1>3
  <2>2. 0 .. N \subseteq Right /\ N \in 0 .. N
    <3> HIDE DEF Right, N
    <3>1. QED
      BY <2>1, <1>7, <1>8, Upwards
  <2> HIDE DEF N, ranges
  <2>3. QED
    BY <2>2
<1>10. SubSeq(ranges, 1, N) = ranges
  BY <1>3, SubSeqFull
<1>11. read[N].c.ok = TRUE /\ read[N].ranges = ranges
  BY <1>9, <1>10 DEF At
<1>12. ~(N > Len(data))
  BY <1>3, <1>6
<1>13. QED
  BY <1>1, <1>3, <1>4, <1>5, <1>11, <1>12

(***************************************************************************)
(* An ACK or NACK that was cut short is refused: no record of it is taken.  *)
(***************************************************************************)
THEOREM CutAckRefused ==
  ASSUME NEW a \in AckValues, NEW n \in Nat, n < Len(D!EncodeAck(a))
  PROVE  D!Classify(SubSeq(D!EncodeAck(a), 1, n)) = D!Invalid
<1> DEFINE ranges == a.ranges
           N == Len(ranges)
<1>1. PICK data \in Seq(Byte) :
         /\ data = D!EncodeAck(a) /\ 3 <= Len(data)
         /\ data[1] = IF a.is_ack THEN 192 ELSE 160
         /\ D!U16(At(data, 1)) = N
         /\ D!Skip(At(data, 1), 2) = At(data, 3)
  BY AckBytes
<1>2. PICK start : RangeRow(data, ranges, start) /\ start[0] = 3 /\ start[N] = Len(data)
  BY <1>1, AckBytes
<1>3. ranges \in Seq(RangeValues) /\ N \in Nat /\ a.is_ack \in BOOLEAN
      /\ Len(data) \in Nat /\ n < Len(data)
  BY <1>1 DEF AckValues
<1>4. PICK part \in Seq(Byte) : /\ part = SubSeq(data, 1, n) /\ Len(part) = n
                               /\ Extends(data, part)
                               /\ \A i \in 1 .. n : part[i] = data[i]
  <2>1. n \in 0 .. Len(data)
    BY <1>3
  <2>2. QED
    BY <2>1, CutType
<1> SUFFICES D!Classify(part) = D!Invalid
  BY <1>1, <1>4
<1>5. CASE n = 0
  <2>1. part = << >>
    BY <1>4, <1>5
  <2>2. QED
    BY <2>1 DEF D!Classify
<1>6. CASE n # 0
  <2>1. Len(part) # 0 /\ part[1] = IF a.is_ack THEN 192 ELSE 160
    <3>1. 1 \in 1 .. n
      BY <1>6
    <3>2. QED
      BY <1>1, <1>4, <1>6, <3>1
  <2>2. D!Classify(part) = D!DecodeAck(part, a.is_ack)
    BY <1>3, <2>1, ClassifiesAck
  <2>3. PICK read :
           /\ RecordsRead(part, read)
           /\ D!DecodeAck(part, a.is_ack) =
                IF \/ Len(part) < 3 \/ D!U16(At(part, 1)) > Len(part)
                   \/ ~read[D!U16(At(part, 1))].c.ok
                THEN D!Invalid
                ELSE [ kind   |-> IF a.is_ack THEN "Ack" ELSE "Nack",
                       ranges |-> read[D!U16(At(part, 1))].ranges ]
    BY <2>1, AckLoop, ZenonT(60)
  <2>4. CASE Len(part) < 3
    BY <2>2, <2>3, <2>4
  <2>5. CASE ~(Len(part) < 3)
    <3>1. /\ D!U16(At(part, 1)) = N
          /\ D!Skip(At(part, 1), 2) = At(part, 3)
      <4>1. 1 \in Nat /\ 2 \in Nat /\ 1 + 2 <= Len(part) /\ Extends(data, part)
            /\ Extends(part, part)
        BY <1>4, <2>5 DEF Extends
      <4>2. D!Bytes(At(data, 1), 2) = D!Bytes(At(part, 1), 2)
        BY <4>1, SameBytes
      <4>3. D!Skip(At(part, 1), 2) = At(part, 1 + 2)
        BY <4>1, SameBytes
      <4>4. QED
        BY <1>1, <4>2, <4>3 DEF D!U16
    <3>2. CASE N > Len(part)
      <4> HIDE DEF N
      <4>1. QED
        BY <2>2, <2>3, <3>1, <3>2
    <3>3. CASE ~(N > Len(part))
      <4> DEFINE Kept == { i \in 0 .. N :
                             /\ read[i].c \in Cursors(part)
                             /\ read[i].c.ok => /\ read[i].c = At(part, start[i])
                                                /\ start[i] <= Len(part) }
      <4>1. 0 \in Kept
        <5>1. read[0] = [c |-> At(part, 3), ranges |-> << >>]
          BY <2>3, <3>1 DEF RecordsRead
        <5>2. read[0].c = At(part, start[0]) /\ At(part, 3) \in Cursors(part)
          BY <1>2, <5>1, AtType
        <5>3. start[0] <= Len(part) /\ 0 \in 0 .. N
          BY <1>2, <1>3, <1>4, <2>5
        <5> HIDE DEF N
        <5>4. QED
          BY <1>2, <5>2, <5>3
      <4>2. ASSUME NEW i \in 1 .. N, i - 1 \in Kept PROVE i \in Kept
        <5>1. i \in 1 .. Len(part) /\ i \in 0 .. N /\ i - 1 \in 0 .. N
          BY <1>3, <1>4, <3>3
        <5>2. PICK r \in RangeValues : r = ranges[i]
          BY <1>3
        <5>3. PICK p \in Nat : p = start[i - 1]
          BY <1>2, <5>1 DEF RangeRow
        <5>4. Holds(data, p, D!EncodeRange(r)) /\ start[i] = p + Len(D!EncodeRange(r))
              /\ start[i] \in Nat
          BY <1>2, <5>1, <5>2, <5>3 DEF RangeRow
        <5>5. PICK before : before = read[i - 1]
          OBVIOUS
        <5>6. /\ before.c \in Cursors(part)
              /\ before.c.ok => before.c = At(part, p)
          <6> HIDE DEF N
          <6>1. QED
            BY <4>2, <5>3, <5>5
        <5>7. read[i] = ReadRecord(before)
          BY <2>3, <5>1, <5>5 DEF RecordsRead
        <5>8. ReadRecord(before).c \in Cursors(part)
          BY <1>4, <5>6, RecordRuns
        <5>9. ASSUME ReadRecord(before).c.ok
              PROVE  /\ ReadRecord(before).c = At(part, start[i])
                     /\ start[i] <= Len(part)
          <6>1. /\ before.c.ok
                /\ \E q \in 0 .. Len(part) :
                     /\ ReadRecord(before).c = At(part, q)
                     /\ \A b : b.c = At(data, before.c.pos) =>
                                  ReadRecord(b).c = At(data, q)
            <7>1. Extends(data, part) /\ before.c \in Cursors(part)
              BY <1>4, <5>6
            <7>2. QED
              BY <5>9, <7>1, RecordRuns
          <6>2. before.c.pos = p
            BY <5>6, <6>1 DEF At
          <6>3. PICK q \in 0 .. Len(part) :
                   /\ ReadRecord(before).c = At(part, q)
                   /\ \A b : b.c = At(data, p) => ReadRecord(b).c = At(data, q)
            BY <6>1, <6>2
          <6>4. PICK b : b = [c |-> At(data, p), ranges |-> << >>]
            OBVIOUS
          <6>5. b.c = At(data, p)
            BY <6>4
          <6>6. ReadRecord(b) = [ c |-> At(data, p + Len(D!EncodeRange(r))),
                                  ranges |-> Append(b.ranges, r) ]
            BY <5>4, <6>5, ReadsRecord
          <6>7. At(data, q) = At(data, start[i])
            BY <5>4, <6>3, <6>5, <6>6
          <6>8. q = start[i]
            BY <6>7 DEF At
          <6>9. QED
            BY <6>3, <6>8
        <5> HIDE DEF N
        <5>10. QED
          BY <5>1, <5>7, <5>8, <5>9
      <4>3. N \in Kept
        <5>1. N \in Nat /\ N \in 0 .. N
          BY <1>3
        <5> HIDE DEF Kept, N
        <5>2. QED
          BY <5>1, <4>1, <4>2, Upwards
      <4>4. ~read[N].c.ok
        <5>1. ~(start[N] <= Len(part))
          BY <1>2, <1>3, <1>4
        <5> HIDE DEF N
        <5>2. QED
          BY <4>3, <5>1
      <4> HIDE DEF N
      <4>5. QED
        BY <2>2, <2>3, <3>1, <4>4
    <3>4. QED
      BY <3>2, <3>3
  <2>6. QED
    BY <2>4, <2>5
<1>7. QED
  BY <1>5, <1>6

------------------------------------------------------------------------------
(* The system messages (src/bedrock/message.rs).                            *)

(* The system messages are made with the same operators as the frames.      *)
LEMMA SameOperators ==
  /\ \A v : M!PutU16(v) = D!PutU16(v)
  /\ \A parts : M!FlattenSeq(parts) = D!FlattenSeq(parts)
<1>1. \A v : M!PutU16(v) = D!PutU16(v)
  BY DEF M!PutU16, D!PutU16
<1>2. ASSUME NEW parts PROVE M!FlattenSeq(parts) = D!FlattenSeq(parts)
  BY DEF M!FlattenSeq, D!FlattenSeq
<1>3. QED
  BY <1>1, <1>2

(* A text of n bytes.                                                       *)
IsBytes(s, n) == s \in Seq(Byte) /\ Len(s) = n

(* What is behind the id of a message, which the decoders get.              *)
BehindId(data, rest) == data # << >> /\ rest = Tail(data)

(* It is one byte shorter.                                                  *)
LEMMA RestType ==
  ASSUME NEW data, NEW n \in Nat, IsBytes(data, n), n # 0
  PROVE  \E rest : BehindId(data, rest) /\ IsBytes(rest, n - 1)
<1>1. data \in Seq(Byte) /\ Len(data) = n /\ data # << >>
  BY DEF IsBytes
<1>2. Tail(data) \in Seq(Byte) /\ Len(Tail(data)) = n - 1
  BY <1>1, HeadTailProperties
<1>3. QED
  BY <1>1, <1>2 DEF BehindId, IsBytes

(* A field of a message, counted from 0 behind the id, is what stands one   *)
(* further in the packet.                                                   *)
LEMMA FieldIs ==
  ASSUME NEW data \in Seq(Byte), NEW rest, BehindId(data, rest),
         NEW pos \in Nat, NEW at \in Nat, at = pos + 1,
         NEW n \in Nat, NEW s, IsBytes(s, n), Holds(data, at, s)
  PROVE  M!Field(rest, pos, n) = s
<1>1. s \in Seq(Byte) /\ Len(s) = n
  BY DEF IsBytes
<1>2. /\ rest \in Seq(Byte) /\ Len(rest) = Len(data) - 1
      /\ \A i \in 1 .. Len(data) - 1 : rest[i] = data[i + 1]
  <2>1. data # << >> /\ rest = Tail(data)
    BY DEF BehindId
  <2>2. PICK tail \in Seq(Byte) :
           /\ tail = Tail(data) /\ Len(tail) = Len(data) - 1
           /\ \A i \in 1 .. Len(tail) : tail[i] = data[i + 1]
    BY <2>1, HeadTailProperties
  <2>3. QED
    BY <2>1, <2>2
<1>3. /\ Len(data) \in Nat /\ pos + 1 + n <= Len(data)
      /\ \A i \in 1 .. n : data[pos + 1 + i] = s[i]
  BY <1>1 DEF Holds
<1>4. PICK field \in Seq(Byte) : /\ field = SubSeq(rest, pos + 1, pos + n)
                                 /\ Len(field) = n
                                 /\ \A i \in 1 .. n : field[i] = rest[pos + i]
  <2>1. pos + 1 \in Int /\ pos + n \in Int /\ Len(rest) \in Nat
        /\ pos + n <= Len(rest) /\ pos + 1 >= 1
    BY <1>2, <1>3
  <2>2. \A i \in pos + 1 .. pos + n : rest[i] \in Byte
    BY <1>2, <2>1
  <2> DEFINE field == SubSeq(rest, pos + 1, pos + n)
  <2>3. field \in Seq(Byte)
    BY <2>1, <2>2, SubSeqProperties
  <2>4. Len(field) = n /\ \A i \in 1 .. n : field[i] = rest[pos + i]
    BY <1>2, <1>3, <2>1
  <2> HIDE DEF field
  <2>5. QED
    BY <2>3, <2>4 DEF field
<1>5. ASSUME NEW i \in 1 .. n PROVE field[i] = s[i]
  <2>1. pos + i \in 1 .. Len(data) - 1 /\ pos + i + 1 = pos + 1 + i
    BY <1>3
  <2>2. QED
    BY <1>2, <1>3, <1>4, <2>1
<1>6. field = s
  BY <1>1, <1>4, <1>5, SeqEqual
<1>7. QED
  BY <1>4, <1>6 DEF M!Field

(* The elements of a concatenation.                                         *)
LEMMA JoinedAt ==
  ASSUME NEW s \in Seq(Byte), NEW t \in Seq(Byte)
  PROVE  /\ s \o t \in Seq(Byte) /\ Len(s \o t) = Len(s) + Len(t)
         /\ \A i \in 1 .. Len(s) : (s \o t)[i] = s[i]
         /\ \A i \in 1 .. Len(t) : (s \o t)[Len(s) + i] = t[i]
OBVIOUS

(* What is joined to a packet stands at its end, and the rest where it was. *)
Chained(w, s, t) == w = s \o t

Appended(w, s, n, t) ==
  /\ Chained(w, s, t) /\ w \in Seq(Byte)
  /\ n # 0 => w[1] = s[1]
  /\ Holds(w, n, t)
  /\ \A pos \in Nat, l \in Nat : \A u :
       IsBytes(u, l) /\ Holds(s, pos, u) => Holds(w, pos, u)

LEMMA Appends ==
  ASSUME NEW n \in Nat, NEW m \in Nat, NEW s, NEW t, IsBytes(s, n), IsBytes(t, m)
  PROVE  \E w : Appended(w, s, n, t) /\ IsBytes(w, n + m)
<1>1. /\ s \in Seq(Byte) /\ Len(s) = n
      /\ t \in Seq(Byte) /\ Len(t) = m
  BY DEF IsBytes
<1>2. PICK w \in Seq(Byte) :
         /\ w = s \o t /\ Len(w) = n + m
         /\ \A i \in 1 .. n : w[i] = s[i]
         /\ \A i \in 1 .. m : w[n + i] = t[i]
  <2>1. /\ s \o t \in Seq(Byte) /\ Len(s \o t) = Len(s) + Len(t)
        /\ \A i \in 1 .. Len(s) : (s \o t)[i] = s[i]
        /\ \A i \in 1 .. Len(t) : (s \o t)[Len(s) + i] = t[i]
    BY <1>1, JoinedAt
  <2>2. QED
    BY <1>1, <2>1
<1>3. Holds(w, n, t)
  BY <1>1, <1>2 DEF Holds
<1>4. ASSUME NEW pos \in Nat, NEW l \in Nat, NEW u, IsBytes(u, l), Holds(s, pos, u)
      PROVE  Holds(w, pos, u)
  <2>1. /\ pos + Len(u) <= n
        /\ \A i \in 1 .. Len(u) : s[pos + i] = u[i]
    BY <1>1, <1>4 DEF Holds
  <2>2. Len(u) \in Nat
    BY <1>4 DEF IsBytes
  <2>3. pos + Len(u) <= n + m /\ \A i \in 1 .. Len(u) : pos + i \in 1 .. n
    BY <2>1, <2>2
  <2>4. QED
    BY <1>1, <1>2, <2>1, <2>3 DEF Holds
<1>5. n # 0 => w[1] = s[1]
  BY <1>2
<1>6. Appended(w, s, n, t)
  BY <1>2, <1>3, <1>4, <1>5 DEF Appended, Chained
<1>7. IsBytes(w, n + m)
  BY <1>2 DEF IsBytes
<1>8. QED
  BY <1>6, <1>7

(* An array of bytes is a sequence of them.                                 *)
LEMMA TupleType ==
  \A n \in Nat : \A s \in [1 .. n -> Byte] : s \in Seq(Byte) /\ Len(s) = n
OBVIOUS

(* Eight bytes of a 64-bit number, and a single byte.                       *)
LEMMA EightType == \A t \in Eight : IsBytes(t, 8)
BY TupleType DEF Eight, IsBytes

LEMMA ByteType == \A b \in Byte : IsBytes(<<b>>, 1) /\ <<b>>[1] = b
BY DEF IsBytes

(* An address is read back: its octets are inverted twice.                  *)
LEMMA AddressReadsBack ==
  ASSUME NEW a \in Address
  PROVE  /\ IsBytes(M!EncodeAddr(a), 7)
         /\ M!DecodeAddr(M!EncodeAddr(a)) = a
<1> DEFINE ip == a.ip
           h  == (a.port \div 256) % 256
           l  == a.port % 256
           e  == M!EncodeAddr(a)
<1>1. ip \in [1 .. 4 -> 0 .. 255] /\ a = [ip |-> ip, port |-> a.port]
  BY DEF Address, Byte
<1>2. a.port \in 0 .. D!U16Max
  BY DEF Address, U16
<1>3. h \in Byte /\ l \in Byte /\ 256 * h + l = a.port
  BY <1>2, TwoBytes
<1>4. PICK inverse \in Seq(Byte) : /\ inverse = [i \in 1 .. 4 |-> M!NotByte(ip[i])]
                                   /\ Len(inverse) = 4
                                   /\ \A i \in 1 .. 4 : inverse[i] = 255 - ip[i]
  <2>1. \A i \in 1 .. 4 : M!NotByte(ip[i]) = 255 - ip[i]
    BY DEF M!NotByte
  <2>2. \A i \in 1 .. 4 : 255 - ip[i] \in 0 .. 255
    <3>1. \A i \in 1 .. 4 : ip[i] \in 0 .. 255
      BY <1>1
    <3> HIDE DEF ip
    <3>2. QED
      BY <3>1
  <2> DEFINE x == [i \in 1 .. 4 |-> M!NotByte(ip[i])]
  <2>3. x \in [1 .. 4 -> Byte]
    BY <2>1, <2>2 DEF Byte
  <2>4. \A i \in 1 .. 4 : x[i] = 255 - ip[i]
    BY <2>1
  <2> HIDE DEF x
  <2>5. x \in Seq(Byte) /\ Len(x) = 4
    BY <2>3, TupleType
  <2>6. QED
    BY <2>4, <2>5 DEF x
<1> HIDE DEF h, l, ip, e
<1>5. <<4>> \in Seq(Byte) /\ Len(<<4>>) = 1
  BY DEF Byte
<1>6. <<h, l>> \in Seq(Byte) /\ Len(<<h, l>>) = 2 /\ <<h, l>>[1] = h /\ <<h, l>>[2] = l
  BY <1>3
<1>7. e = <<4>> \o inverse \o <<h, l>>
  BY <1>4, SameOperators DEF M!EncodeAddr, D!PutU16, e, h, l, ip
<1>8. PICK x \in Seq(Byte) : /\ x = <<4>> \o inverse /\ Len(x) = 5
                             /\ \A i \in 1 .. 4 : x[i + 1] = inverse[i]
  <2>1. PICK four \in Seq(Byte) : four = <<4>> /\ Len(four) = 1
    BY <1>5
  <2>2. PICK y \in Seq(Byte) : /\ y = four \o inverse /\ Len(y) = Len(four) + Len(inverse)
                               /\ \A i \in 1 .. Len(inverse) : y[Len(four) + i] = inverse[i]
    BY JoinedAt
  <2>3. ASSUME NEW i \in 1 .. 4 PROVE y[i + 1] = inverse[i]
    <3>1. Len(four) + i = i + 1 /\ i \in 1 .. Len(inverse)
      BY <1>4, <2>1
    <3>2. QED
      BY <2>2, <3>1
  <2>4. y = <<4>> \o inverse /\ Len(y) = 5
    BY <1>4, <2>1, <2>2
  <2>5. QED
    BY <2>3, <2>4
<1>9. /\ e \in Seq(Byte) /\ Len(e) = 7
      /\ \A i \in 1 .. 4 : e[i + 1] = inverse[i]
      /\ e[6] = h /\ e[7] = l
  <2>1. PICK y \in Seq(Byte) : /\ y = <<h, l>> /\ Len(y) = 2 /\ y[1] = h /\ y[2] = l
    BY <1>6
  <2>2. /\ x \o y \in Seq(Byte) /\ Len(x \o y) = Len(x) + Len(y)
        /\ \A i \in 1 .. Len(x) : (x \o y)[i] = x[i]
        /\ \A i \in 1 .. Len(y) : (x \o y)[Len(x) + i] = y[i]
    BY JoinedAt
  <2>3. e = x \o y
    BY <1>7, <1>8, <2>1
  <2>4. \A i \in 1 .. 4 : i + 1 \in 1 .. 5
    OBVIOUS
  <2>5. \A i \in 1 .. 4 : e[i + 1] = inverse[i]
    BY <1>8, <2>2, <2>3, <2>4
  <2>6. e[6] = h /\ e[7] = l
    BY <1>8, <2>1, <2>2, <2>3
  <2>7. QED
    BY <1>8, <2>1, <2>2, <2>3, <2>5, <2>6
<1>10. [i \in 1 .. 4 |-> M!NotByte(e[i + 1])] = ip
  <2>1. ASSUME NEW i \in 1 .. 4 PROVE M!NotByte(e[i + 1]) = ip[i]
    <3>1. PICK v \in 0 .. 255 : v = ip[i]
      BY <1>1
    <3>2. e[i + 1] = 255 - v
      BY <1>4, <1>9, <3>1
    <3>3. QED
      BY <3>1, <3>2 DEF M!NotByte
  <2>2. QED
    BY <1>1, <2>1
<1>11. 256 * e[6] + e[7] = a.port
  BY <1>3, <1>9
<1>12. M!DecodeAddr(e) = a
  BY <1>1, <1>10, <1>11 DEF M!DecodeAddr
<1>13. QED
  BY <1>9, <1>12 DEF e, IsBytes

(* The twenty slots: what is missing is filled up.                          *)
LEMMA FilledType ==
  ASSUME NEW addresses \in Seq(Address)
  PROVE  /\ \A i \in 1 .. 20 : Filled(addresses)[i] \in Address
         /\ Filled(addresses) = [i \in 1 .. 20 |-> Filled(addresses)[i]]
         /\ M!EncodeAddresses(addresses)
              = D!FlattenSeq([i \in 1 .. 20 |-> M!EncodeAddr(Filled(addresses)[i])])
<1> DEFINE slot(k) == IF k <= Len(addresses) THEN addresses[k] ELSE M!NoAddress
<1>1. M!NoAddress \in Address
  <2>1. <<0, 0, 0, 0>> \in [1 .. 4 -> Byte]
    BY DEF Byte
  <2>2. 0 \in U16
    BY Widths, SMT DEF U16
  <2>3. QED
    BY <2>1, <2>2 DEF M!NoAddress, Address
<1>2. PICK n \in Nat : n = Len(addresses) /\ DOMAIN addresses = 1 .. n
                       /\ \A i \in 1 .. n : addresses[i] \in Address
  BY LenProperties
<1>3. ASSUME NEW i \in 1 .. 20
      PROVE  /\ i \in DOMAIN addresses <=> i <= Len(addresses)
             /\ slot(i) \in Address
  <2> HIDE DEF slot
  <2>1. i \in 1 .. n <=> i <= n
    OBVIOUS
  <2>2. QED
    BY <1>1, <1>2, <2>1 DEF slot
<1>4. Filled(addresses) = [i \in 1 .. 20 |-> slot(i)]
  BY <1>3 DEF Filled, M!SystemAddressCount
<1>5. M!EncodeAddresses(addresses) = M!FlattenSeq([i \in 1 .. 20 |-> M!EncodeAddr(slot(i))])
  BY DEF M!EncodeAddresses, M!SystemAddressCount
<1> HIDE DEF slot
<1>6. \A i \in 1 .. 20 : Filled(addresses)[i] = slot(i)
  BY <1>4
<1>7. [i \in 1 .. 20 |-> M!EncodeAddr(slot(i))]
        = [i \in 1 .. 20 |-> M!EncodeAddr(Filled(addresses)[i])]
  BY <1>6
<1>8. QED
  BY <1>3, <1>5, <1>6, <1>7, <1>4, SameOperators

(* The slots are seven bytes each: the i-th one stands 7 * (i - 1) bytes    *)
(* behind the first, and all of them are 140 bytes.                         *)
LEMMA AddressesAreAt ==
  ASSUME NEW addresses \in Seq(Address), NEW data \in Seq(Byte), NEW pos \in Nat,
         Holds(data, pos, M!EncodeAddresses(addresses))
  PROVE  /\ IsBytes(M!EncodeAddresses(addresses), 140)
         /\ \A i \in 1 .. 20 :
              Holds(data, pos + 7 * (i - 1), M!EncodeAddr(Filled(addresses)[i]))
<1> DEFINE parts == [i \in 1 .. 20 |-> M!EncodeAddr(Filled(addresses)[i])]
<1>1. \A i \in 1 .. 20 : /\ parts[i] = M!EncodeAddr(Filled(addresses)[i])
                         /\ parts[i] \in Seq(Byte) /\ Len(parts[i]) = 7
  BY FilledType, AddressReadsBack DEF IsBytes
<1>2. M!EncodeAddresses(addresses) = D!FlattenSeq(parts)
  BY FilledType
<1>3. parts = [i \in 1 .. 20 |-> parts[i]]
  OBVIOUS
<1> HIDE DEF parts
<1>4. parts \in Seq(Seq(Byte)) /\ Len(parts) = 20
  <2>1. PICK n \in Nat : n = 20
    OBVIOUS
  <2>2. parts \in [1 .. n -> Seq(Byte)]
    BY <1>1, <1>3, <2>1
  <2>3. parts \in Seq(Seq(Byte)) /\ Len(parts) = n
    BY <2>2
  <2>4. QED
    BY <2>1, <2>3
<1>5. PICK start \in [0 .. Len(parts) -> Nat] :
         /\ start[0] = pos
         /\ start[Len(parts)] = pos + Len(D!FlattenSeq(parts))
         /\ \A i \in 1 .. Len(parts) : /\ Holds(data, start[i - 1], parts[i])
                                       /\ start[i] = start[i - 1] + Len(parts[i])
  <2>1. Holds(data, pos, D!FlattenSeq(parts))
    BY <1>2
  <2>2. QED
    BY <1>4, <2>1, PartsAt, ZenonT(60)
<1> DEFINE At7 == { i \in 0 .. 20 : start[i] = pos + 7 * i }
<1>6. 0 .. 20 \subseteq At7
  <2>1. 0 \in At7
    BY <1>5
  <2>2. ASSUME NEW i \in 1 .. 20, i - 1 \in At7 PROVE i \in At7
    <3>1. start[i] = start[i - 1] + 7
      BY <1>1, <1>4, <1>5
    <3>2. start[i - 1] = pos + 7 * (i - 1)
      BY <2>2
    <3>3. QED
      BY <3>1, <3>2
  <2>3. PICK n \in Nat : n = 20
    OBVIOUS
  <2> HIDE DEF At7
  <2>4. QED
    BY <2>1, <2>2, <2>3, Upwards
<1>7. ASSUME NEW i \in 1 .. 20
      PROVE  Holds(data, pos + 7 * (i - 1), M!EncodeAddr(Filled(addresses)[i]))
  <2>1. i - 1 \in 0 .. 20
    OBVIOUS
  <2>2. start[i - 1] = pos + 7 * (i - 1)
    BY <1>6, <2>1
  <2>3. QED
    BY <1>1, <1>4, <1>5, <2>2
<1>8. IsBytes(M!EncodeAddresses(addresses), 140)
  <2>1. start[20] = pos + 7 * 20
    BY <1>6
  <2>2. start[20] = pos + Len(M!EncodeAddresses(addresses))
    BY <1>2, <1>4, <1>5
  <2>3. PICK s \in Seq(Byte) : s = M!EncodeAddresses(addresses)
    <3>1. PICK f \in [0 .. Len(parts) -> Seq(Byte)] :
             D!FlattenSeq(parts) = f[Len(parts)]
      BY <1>4, Flattened
    <3>2. QED
      BY <1>2, <1>4, <3>1
  <2>4. PICK n \in Nat : n = Len(M!EncodeAddresses(addresses))
    <3>1. Len(s) \in Nat
      OBVIOUS
    <3>2. QED
      BY <2>3, <3>1
  <2>5. n = 140
    <3>1. pos + n = pos + 7 * 20
      BY <2>1, <2>2, <2>4
    <3>2. QED
      BY <3>1
  <2>6. QED
    BY <2>3, <2>4, <2>5 DEF IsBytes
<1>9. QED
  BY <1>7, <1>8

(* The twenty slots are 140 bytes.                                          *)
LEMMA AddressesType ==
  ASSUME NEW addresses \in Seq(Address)
  PROVE  IsBytes(M!EncodeAddresses(addresses), 140)
<1> DEFINE parts == [i \in 1 .. 20 |-> M!EncodeAddr(Filled(addresses)[i])]
<1>1. M!EncodeAddresses(addresses) = D!FlattenSeq(parts)
  BY FilledType
<1>2. parts \in Seq(Seq(Byte)) /\ Len(parts) = 20
  <2>1. PICK n \in Nat : n = 20
    OBVIOUS
  <2>2. \A i \in 1 .. 20 : M!EncodeAddr(Filled(addresses)[i]) \in Seq(Byte)
    BY FilledType, AddressReadsBack DEF IsBytes
  <2>3. parts \in [1 .. n -> Seq(Byte)]
    BY <2>1, <2>2
  <2> HIDE DEF parts
  <2>4. parts \in Seq(Seq(Byte)) /\ Len(parts) = n
    BY <2>3
  <2>5. QED
    BY <2>1, <2>4
<1> HIDE DEF parts
<1>3. PICK f \in [0 .. Len(parts) -> Seq(Byte)] : D!FlattenSeq(parts) = f[Len(parts)]
  BY <1>2, Flattened
<1>4. M!EncodeAddresses(addresses) \in Seq(Byte)
  BY <1>1, <1>2, <1>3
<1>5. Holds(M!EncodeAddresses(addresses), 0, M!EncodeAddresses(addresses))
  BY <1>4, HoldsItself
<1>6. QED
  BY <1>4, <1>5, AddressesAreAt

(* The slots are read back from where they stand.                           *)
LEMMA AddressesReadBack ==
  ASSUME NEW addresses \in Seq(Address), NEW data \in Seq(Byte), NEW rest,
         BehindId(data, rest), NEW pos \in Nat, NEW at \in Nat, at = pos + 1,
         Holds(data, at, M!EncodeAddresses(addresses))
  PROVE  M!AddressesAt(rest, pos) = Filled(addresses)
<1> DEFINE slots == { i \in 1 .. 20 :
                        Holds(data, at + 7 * (i - 1), M!EncodeAddr(Filled(addresses)[i])) }
<1>1. 1 .. 20 \subseteq slots
  <2>1. \A i \in 1 .. 20 :
             Holds(data, at + 7 * (i - 1), M!EncodeAddr(Filled(addresses)[i]))
    BY AddressesAreAt
  <2>2. QED
    BY <2>1
<1>2. ASSUME NEW i \in 1 .. 20
      PROVE  M!DecodeAddr(M!Field(rest, pos + 7 * (i - 1), 7)) = Filled(addresses)[i]
  <2>1. PICK p \in Nat : p = pos + 7 * (i - 1)
    OBVIOUS
  <2>2. PICK q \in Nat : q = p + 1 /\ q = at + 7 * (i - 1)
    BY <2>1
  <2>3. PICK a \in Address : a = Filled(addresses)[i]
    BY FilledType
  <2>4. Holds(data, q, M!EncodeAddr(a))
    <3>1. i \in slots
      BY <1>1
    <3>2. QED
      BY <2>3, <2>2, <3>1
  <2>5. PICK s : s = M!EncodeAddr(a) /\ IsBytes(s, 7) /\ M!DecodeAddr(s) = a
    BY AddressReadsBack
  <2>6. M!Field(rest, p, 7) = s
    <3>1. Holds(data, q, s) /\ IsBytes(s, 7) /\ q = p + 1
      BY <2>4, <2>5, <2>2
    <3>2. QED
      BY <3>1, FieldIs
  <2>7. QED
    BY <2>1, <2>3, <2>5, <2>6
<1>3. M!AddressesAt(rest, pos)
        = [ i \in 1 .. 20 |-> M!DecodeAddr(M!Field(rest, pos + 7 * (i - 1), 7)) ]
  BY DEF M!AddressesAt, M!SystemAddressCount
<1>4. QED
  BY <1>2, <1>3, FilledType

(* The first byte of a packet tells which message it is.                    *)
LEMMA ClassifiesById ==
  ASSUME NEW data, NEW rest, BehindId(data, rest)
  PROVE  /\ data[1] = 0  => M!ClassifyMessage(data) = M!DecodePing(rest)
         /\ data[1] = 3  => M!ClassifyMessage(data) = M!DecodePong(rest)
         /\ data[1] = 9  => M!ClassifyMessage(data) = M!DecodeRequest(rest)
         /\ data[1] = 16 => M!ClassifyMessage(data) = M!DecodeAccepted(rest)
         /\ data[1] = 19 => M!ClassifyMessage(data) = M!DecodeIncoming(rest)
BY DEF M!ClassifyMessage, BehindId

(* An id before the fields of a message.                                    *)
LEMMA IdType ==
  \A id \in {0, 1, 3, 9, 16, 19, 21} : IsBytes(<<id>>, 1) /\ <<id>>[1] = id
<1>1. \A id \in {0, 1, 3, 9, 16, 19, 21} : id \in Byte
  BY DEF Byte
<1>2. QED
  BY <1>1, ByteType

(* A ping is read back.                                                     *)
LEMMA PingReadsBack ==
  ASSUME NEW m \in [kind : {"ConnectedPing"}, time : Eight]
  PROVE  M!ClassifyMessage(M!EncodeMessage(m)) = m
<1>1. PICK id : id = <<0>> /\ IsBytes(id, 1) /\ id[1] = 0
  BY IdType
<1>2. PICK time : time = m.time /\ IsBytes(time, 8)
  BY EightType
<1>3. m = [kind |-> "ConnectedPing", time |-> time]
  BY <1>2
<1>4. PICK x : Appended(x, id, 1, time) /\ IsBytes(x, 9)
  BY <1>1, <1>2, Appends
<1>5. /\ x \in Seq(Byte) /\ x[1] = 0
      /\ Holds(x, 1, time)
  BY <1>1, <1>4 DEF Appended
<1>6. M!EncodeMessage(m) = x
  <2>1. x = id \o time
    BY <1>4 DEF Appended, Chained
  <2>2. QED
    BY <1>1, <1>2, <2>1 DEF M!EncodeMessage
<1>7. PICK rest : BehindId(x, rest) /\ IsBytes(rest, 8)
  BY <1>4, RestType
<1>8. M!ClassifyMessage(x) = M!DecodePing(rest)
  BY <1>5, <1>7, ClassifiesById
<1>9. M!Field(rest, 0, 8) = time
  BY <1>2, <1>5, <1>7, FieldIs
<1>10. M!DecodePing(rest) = [kind |-> "ConnectedPing", time |-> time]
  <2>1. Len(rest) = 8
    BY <1>7 DEF IsBytes
  <2>2. QED
    BY <1>9, <2>1 DEF M!DecodePing
<1>11. QED
  BY <1>3, <1>6, <1>8, <1>10

(* A pong is read back.                                                     *)
LEMMA PongReadsBack ==
  ASSUME NEW m \in [kind : {"ConnectedPong"}, ping_time : Eight, pong_time : Eight]
  PROVE  M!ClassifyMessage(M!EncodeMessage(m)) = m
<1>1. PICK id : id = <<3>> /\ IsBytes(id, 1) /\ id[1] = 3
  BY IdType
<1>2. PICK ping : ping = m.ping_time /\ IsBytes(ping, 8)
  BY EightType
<1>3. PICK pong : pong = m.pong_time /\ IsBytes(pong, 8)
  BY EightType
<1>4. m = [kind |-> "ConnectedPong", ping_time |-> ping, pong_time |-> pong]
  BY <1>2, <1>3
<1>5. PICK x : Appended(x, id, 1, ping) /\ IsBytes(x, 9)
  BY <1>1, <1>2, Appends
<1>6. PICK y : Appended(y, x, 9, pong) /\ IsBytes(y, 17)
  BY <1>3, <1>5, Appends
<1>7. M!EncodeMessage(m) = y
  <2>1. x = id \o ping /\ y = x \o pong
    BY <1>5, <1>6 DEF Appended, Chained
  <2>2. QED
    BY <1>1, <1>2, <1>3, <2>1 DEF M!EncodeMessage
<1>8. PICK rest : BehindId(y, rest) /\ IsBytes(rest, 16)
  BY <1>6, RestType
<1>9. /\ y \in Seq(Byte) /\ y[1] = 3
      /\ Holds(y, 1, ping)
      /\ Holds(y, 9, pong)
  BY <1>1, <1>2, <1>3, <1>5, <1>6 DEF Appended
<1>10. M!ClassifyMessage(y) = M!DecodePong(rest)
  BY <1>9, <1>8, ClassifiesById
<1>11. M!Field(rest, 0, 8) = ping
  BY <1>2, <1>9, <1>8, FieldIs
<1>12. M!Field(rest, 8, 8) = pong
  BY <1>3, <1>9, <1>8, FieldIs
<1>13. M!DecodePong(rest)
         = [kind |-> "ConnectedPong", ping_time |-> ping, pong_time |-> pong]
  <2>1. Len(rest) = 16
    BY <1>8 DEF IsBytes
  <2>2. QED
    BY <1>11, <1>12, <2>1 DEF M!DecodePong
<1>14. QED
  BY <1>4, <1>7, <1>10, <1>13

(* A single byte of a message.                                              *)
LEMMA ByteIs ==
  ASSUME NEW data \in Seq(Byte), NEW rest, BehindId(data, rest),
         NEW n \in Nat, IsBytes(rest, n), NEW pos \in Nat,
         NEW k \in Nat, NEW s, IsBytes(s, k), Holds(data, pos, s),
         NEW i \in 1 .. k, NEW at \in 1 .. n, at = pos + i - 1
  PROVE  rest[at] = s[i]
<1>1. data[pos + i] = s[i]
  <2>1. Len(s) = k
    BY DEF IsBytes
  <2>2. QED
    BY <2>1 DEF Holds
<1>2. rest[at] = data[at + 1]
  <2>1. data # << >> /\ rest = Tail(data)
    BY DEF BehindId
  <2>2. Len(rest) = n
    BY DEF IsBytes
  <2>3. Len(rest) = Len(data) - 1 /\ \A j \in 1 .. Len(rest) : rest[j] = data[j + 1]
    BY <2>1, HeadTailProperties
  <2>4. QED
    BY <2>2, <2>3
<1>3. at + 1 = pos + i
  OBVIOUS
<1>4. QED
  BY <1>1, <1>2, <1>3

(* A request is read back, its last byte as a condition.                    *)
LEMMA RequestReadsBack ==
  ASSUME NEW m \in [ kind : {"ConnectionRequest"}, client_guid : Eight,
                     request_time : Eight, use_security : BOOLEAN ]
  PROVE  M!ClassifyMessage(M!EncodeMessage(m)) = m
<1> DEFINE b == IF m.use_security THEN 1 ELSE 0
<1>1. PICK id : id = <<9>> /\ IsBytes(id, 1) /\ id[1] = 9
  BY IdType
<1>2. PICK guid : guid = m.client_guid /\ IsBytes(guid, 8)
  BY EightType
<1>3. PICK time : time = m.request_time /\ IsBytes(time, 8)
  BY EightType
<1>4. b \in {0, 1} /\ (m.use_security <=> b # 0)
  OBVIOUS
<1>5. m = [ kind |-> "ConnectionRequest", client_guid |-> guid,
            request_time |-> time, use_security |-> b # 0 ]
  <2>1. PICK secure \in BOOLEAN : secure = m.use_security
    OBVIOUS
  <2>2. m = [ kind |-> "ConnectionRequest", client_guid |-> guid,
              request_time |-> time, use_security |-> secure ]
    BY <1>2, <1>3, <2>1
  <2>3. secure = (b # 0)
    BY <1>4, <2>1
  <2> HIDE DEF b
  <2>4. QED
    BY <2>2, <2>3
<1> HIDE DEF b
<1>6. PICK last : last = <<b>> /\ IsBytes(last, 1) /\ last[1] = b
  BY <1>4, IdType
<1>7. b \in Byte
  BY <1>4 DEF Byte
<1>8. PICK x : Appended(x, id, 1, guid) /\ IsBytes(x, 9)
  BY <1>1, <1>2, Appends
<1>9. PICK y : Appended(y, x, 9, time) /\ IsBytes(y, 17)
  BY <1>3, <1>8, Appends
<1>10. PICK z : Appended(z, y, 17, last) /\ IsBytes(z, 18)
  BY <1>6, <1>9, Appends
<1>11. /\ z \in Seq(Byte) /\ z[1] = 9
      /\ Holds(z, 1, guid)
      /\ Holds(z, 9, time)
      /\ Holds(z, 17, last)
  BY <1>1, <1>2, <1>3, <1>6, <1>8, <1>9, <1>10 DEF Appended
<1>12. M!EncodeMessage(m) = z
  <2>1. x = id \o guid /\ y = x \o time /\ z = y \o last
    BY <1>8, <1>9, <1>10 DEF Appended, Chained
  <2>2. M!EncodeMessage(m) = <<9>> \o m.client_guid \o m.request_time \o <<b>>
    BY DEF M!EncodeMessage, b
  <2>3. QED
    BY <1>1, <1>2, <1>3, <1>6, <2>1, <2>2
<1>13. PICK rest : BehindId(z, rest) /\ IsBytes(rest, 17)
  BY <1>10, RestType
<1>14. M!ClassifyMessage(z) = M!DecodeRequest(rest)
  BY <1>11, <1>13, ClassifiesById
<1>15. M!Field(rest, 0, 8) = guid
  BY <1>2, <1>11, <1>13, FieldIs
<1>16. M!Field(rest, 8, 8) = time
  BY <1>3, <1>11, <1>13, FieldIs
<1>17. rest[17] = b
  <2>1. PICK n \in Nat, k \in Nat, i \in Nat, at \in Nat :
           /\ n = 17 /\ k = 1 /\ i = 1 /\ at = 17
           /\ i \in 1 .. k /\ at \in 1 .. n /\ at = n + i - 1
    OBVIOUS
  <2>2. /\ n \in Nat /\ k \in Nat /\ i \in 1 .. k /\ at \in 1 .. n /\ at = n + i - 1
        /\ IsBytes(rest, n) /\ IsBytes(last, k) /\ Holds(z, n, last)
    BY <1>6, <1>11, <1>13, <2>1
  <2>3. rest[at] = last[i]
    BY <1>11, <1>13, <2>2, ByteIs
  <2>4. QED
    BY <1>6, <2>1, <2>3
<1>18. M!DecodeRequest(rest)
         = [ kind |-> "ConnectionRequest", client_guid |-> guid,
             request_time |-> time, use_security |-> b # 0 ]
  <2>1. Len(rest) = 17
    BY <1>13 DEF IsBytes
  <2>2. (Len(rest) > 16 /\ rest[17] # 0) = (b # 0)
    BY <1>17, <2>1
  <2>3. Len(rest) >= 16
    BY <2>1
  <2>4. M!DecodeRequest(rest)
          = [ kind |-> "ConnectionRequest", client_guid |-> M!Field(rest, 0, 8),
              request_time |-> M!Field(rest, 8, 8),
              use_security |-> Len(rest) > 16 /\ rest[17] # 0 ]
    <3>1. ~(Len(rest) < 16)
      BY <2>3
    <3>2. QED
      BY <3>1, Zenon DEF M!DecodeRequest
  <2>5. QED
    BY <1>15, <1>16, <2>2, <2>4, Zenon
<1>19. QED
  BY <1>5, <1>12, <1>14, <1>18, Zenon

(* Two bytes.                                                               *)
LEMMA PairType ==
  \A i \in Byte, j \in Byte :
    IsBytes(<<i, j>>, 2) /\ <<i, j>>[1] = i /\ <<i, j>>[2] = j
BY DEF IsBytes

(* An acceptance is read back, its twenty slots filled up.                  *)
LEMMA AcceptedReadsBack ==
  ASSUME NEW m \in [ kind : {"ConnectionRequestAccepted"}, client_address : Address,
                     system_index : U16, system_addresses : Seq(Address),
                     ping_time : Eight, pong_time : Eight ]
  PROVE  M!ClassifyMessage(M!EncodeMessage(m))
           = [m EXCEPT !.system_addresses = Filled(@)]
<1>1. PICK id : id = <<16>> /\ IsBytes(id, 1) /\ id[1] = 16
  BY IdType
<1>2. PICK address : /\ address = M!EncodeAddr(m.client_address) /\ IsBytes(address, 7)
                     /\ M!DecodeAddr(address) = m.client_address
  BY AddressReadsBack
<1>3. PICK slots : slots = M!EncodeAddresses(m.system_addresses) /\ IsBytes(slots, 140)
  BY AddressesType
<1>4. PICK ping : ping = m.ping_time /\ IsBytes(ping, 8)
  BY EightType
<1>5. PICK pong : pong = m.pong_time /\ IsBytes(pong, 8)
  BY EightType
<1>6. PICK hi \in Byte, lo \in Byte :
         /\ 256 * hi + lo = m.system_index
         /\ M!PutU16(m.system_index) = <<hi, lo>>
  <2>1. PICK v \in 0 .. D!U16Max : v = m.system_index
    BY DEF U16
  <2> DEFINE high == (v \div 256) % 256
             low  == v % 256
  <2>2. high \in Byte /\ low \in Byte /\ 256 * high + low = v
    BY TwoBytes
  <2>3. M!PutU16(v) = <<high, low>>
    BY DEF M!PutU16
  <2> HIDE DEF high, low
  <2>4. QED
    BY <2>1, <2>2, <2>3
<1>7. PICK number : /\ number = <<hi, lo>> /\ IsBytes(number, 2)
                    /\ number[1] = hi /\ number[2] = lo
  BY <1>6, PairType
<1>8. [m EXCEPT !.system_addresses = Filled(@)]
        = [ kind |-> "ConnectionRequestAccepted", client_address |-> m.client_address,
            system_index |-> m.system_index,
            system_addresses |-> Filled(m.system_addresses),
            ping_time |-> ping, pong_time |-> pong ]
  BY <1>4, <1>5
<1>9. PICK u : Appended(u, id, 1, address) /\ IsBytes(u, 8)
  BY <1>1, <1>2, Appends
<1>10. PICK v : Appended(v, u, 8, number) /\ IsBytes(v, 10)
  BY <1>9, <1>7, Appends
<1>11. PICK w : Appended(w, v, 10, slots) /\ IsBytes(w, 150)
  BY <1>10, <1>3, Appends
<1>12. PICK x : Appended(x, w, 150, ping) /\ IsBytes(x, 158)
  BY <1>11, <1>4, Appends
<1>13. PICK y : Appended(y, x, 158, pong) /\ IsBytes(y, 166)
  BY <1>12, <1>5, Appends
<1>14. /\ y \in Seq(Byte) /\ y[1] = 16
       /\ Holds(y, 1, address)
       /\ Holds(y, 8, number)
       /\ Holds(y, 10, slots)
       /\ Holds(y, 150, ping)
       /\ Holds(y, 158, pong)
  BY <1>1, <1>2, <1>3, <1>4, <1>5, <1>7, <1>9, <1>10, <1>11, <1>12, <1>13 DEF Appended
<1>15. M!EncodeMessage(m) = y
  <2>1. /\ u = id \o address /\ v = u \o number /\ w = v \o slots
        /\ x = w \o ping /\ y = x \o pong
    BY <1>9, <1>10, <1>11, <1>12, <1>13 DEF Appended, Chained
  <2>2. M!EncodeMessage(m)
          = <<16>> \o M!EncodeAddr(m.client_address) \o M!PutU16(m.system_index)
              \o M!EncodeAddresses(m.system_addresses) \o m.ping_time \o m.pong_time
    BY DEF M!EncodeMessage
  <2>3. QED
    BY <1>1, <1>2, <1>3, <1>4, <1>5, <1>6, <1>7, <2>1, <2>2
<1>16. PICK rest : BehindId(y, rest) /\ IsBytes(rest, 165)
  BY <1>13, RestType
<1>17. M!ClassifyMessage(y) = M!DecodeAccepted(rest)
  BY <1>14, <1>16, ClassifiesById
<1>18. M!Field(rest, 0, 7) = address
  BY <1>2, <1>14, <1>16, FieldIs
<1>19. rest[8] = hi /\ rest[9] = lo
  <2>1. rest[8] = number[1]
    <3>1. PICK n \in Nat, pos \in Nat, k \in Nat, i \in Nat, at \in Nat :
             /\ n = 165 /\ pos = 8 /\ k = 2 /\ i = 1 /\ at = 8
             /\ i \in 1 .. k /\ at \in 1 .. n /\ at = pos + i - 1
      OBVIOUS
    <3>2. /\ n \in Nat /\ pos \in Nat /\ k \in Nat /\ i \in 1 .. k
          /\ at \in 1 .. n /\ at = pos + i - 1
          /\ IsBytes(rest, n) /\ IsBytes(number, k) /\ Holds(y, pos, number)
      BY <1>7, <1>14, <1>16, <3>1
    <3>3. rest[at] = number[i]
      BY <1>14, <1>16, <3>2, ByteIs
    <3>4. QED
      BY <3>1, <3>3
  <2>2. rest[9] = number[2]
    <3>1. PICK n \in Nat, pos \in Nat, k \in Nat, i \in Nat, at \in Nat :
             /\ n = 165 /\ pos = 8 /\ k = 2 /\ i = 2 /\ at = 9
             /\ i \in 1 .. k /\ at \in 1 .. n /\ at = pos + i - 1
      OBVIOUS
    <3>2. /\ n \in Nat /\ pos \in Nat /\ k \in Nat /\ i \in 1 .. k
          /\ at \in 1 .. n /\ at = pos + i - 1
          /\ IsBytes(rest, n) /\ IsBytes(number, k) /\ Holds(y, pos, number)
      BY <1>7, <1>14, <1>16, <3>1
    <3>3. rest[at] = number[i]
      BY <1>14, <1>16, <3>2, ByteIs
    <3>4. QED
      BY <3>1, <3>3
  <2>3. QED
    BY <1>7, <2>1, <2>2
<1>20. M!AddressesAt(rest, 9) = Filled(m.system_addresses)
  <2>1. PICK pos \in Nat, at \in Nat : pos = 9 /\ at = 10 /\ at = pos + 1
    OBVIOUS
  <2>2. Holds(y, at, M!EncodeAddresses(m.system_addresses))
    BY <1>3, <1>14, <2>1
  <2>3. PICK addresses \in Seq(Address) : addresses = m.system_addresses
    OBVIOUS
  <2>4. M!AddressesAt(rest, pos) = Filled(addresses)
    BY <1>14, <1>16, <2>1, <2>2, <2>3, AddressesReadBack
  <2>5. QED
    BY <2>1, <2>3, <2>4
<1>21. M!Field(rest, 149, 8) = ping
  BY <1>4, <1>14, <1>16, FieldIs
<1>22. M!Field(rest, 157, 8) = pong
  BY <1>5, <1>14, <1>16, FieldIs
<1>23. M!DecodeAccepted(rest)
        = [ kind |-> "ConnectionRequestAccepted", client_address |-> m.client_address,
            system_index |-> m.system_index,
            system_addresses |-> Filled(m.system_addresses),
            ping_time |-> ping, pong_time |-> pong ]
  <2>1. Len(rest) = 165
    BY <1>16 DEF IsBytes
  <2>2. ~(Len(rest) < 7) /\ ~(Len(rest) < 9) /\ ~(Len(rest) < 165)
    BY <2>1
  <2>3. M!DecodeAccepted(rest)
          = [ kind |-> "ConnectionRequestAccepted",
              client_address |-> M!DecodeAddr(M!Field(rest, 0, 7)),
              system_index |-> 256 * rest[8] + rest[9],
              system_addresses |-> M!AddressesAt(rest, 9),
              ping_time |-> M!Field(rest, 149, 8), pong_time |-> M!Field(rest, 157, 8) ]
    BY <2>2, Zenon DEF M!DecodeAccepted
  <2>4. 256 * rest[8] + rest[9] = m.system_index
    BY <1>6, <1>19
  <2>5. QED
    BY <1>2, <1>18, <1>19, <1>20, <1>21, <1>22, <2>3, <2>4, Zenon
<1>24. QED
  BY <1>8, <1>15, <1>17, <1>23

(* So is a client's answer to it.                                           *)
LEMMA IncomingReadsBack ==
  ASSUME NEW m \in [ kind : {"NewIncomingConnection"}, server_address : Address,
                     system_addresses : Seq(Address),
                     ping_time : Eight, pong_time : Eight ]
  PROVE  M!ClassifyMessage(M!EncodeMessage(m))
           = [m EXCEPT !.system_addresses = Filled(@)]
<1>1. PICK id : id = <<19>> /\ IsBytes(id, 1) /\ id[1] = 19
  BY IdType
<1>2. PICK address : /\ address = M!EncodeAddr(m.server_address) /\ IsBytes(address, 7)
                     /\ M!DecodeAddr(address) = m.server_address
  BY AddressReadsBack
<1>3. PICK slots : slots = M!EncodeAddresses(m.system_addresses) /\ IsBytes(slots, 140)
  BY AddressesType
<1>4. PICK ping : ping = m.ping_time /\ IsBytes(ping, 8)
  BY EightType
<1>5. PICK pong : pong = m.pong_time /\ IsBytes(pong, 8)
  BY EightType
<1>6. [m EXCEPT !.system_addresses = Filled(@)]
        = [ kind |-> "NewIncomingConnection", server_address |-> m.server_address,
            system_addresses |-> Filled(m.system_addresses),
            ping_time |-> ping, pong_time |-> pong ]
  BY <1>4, <1>5
<1>7. PICK u : Appended(u, id, 1, address) /\ IsBytes(u, 8)
  BY <1>1, <1>2, Appends
<1>8. PICK v : Appended(v, u, 8, slots) /\ IsBytes(v, 148)
  BY <1>7, <1>3, Appends
<1>9. PICK w : Appended(w, v, 148, ping) /\ IsBytes(w, 156)
  BY <1>8, <1>4, Appends
<1>10. PICK x : Appended(x, w, 156, pong) /\ IsBytes(x, 164)
  BY <1>9, <1>5, Appends
<1>11. /\ x \in Seq(Byte) /\ x[1] = 19
       /\ Holds(x, 1, address)
       /\ Holds(x, 8, slots)
       /\ Holds(x, 148, ping)
       /\ Holds(x, 156, pong)
  BY <1>1, <1>2, <1>3, <1>4, <1>5, <1>7, <1>8, <1>9, <1>10 DEF Appended
<1>12. M!EncodeMessage(m) = x
  <2>1. u = id \o address /\ v = u \o slots /\ w = v \o ping /\ x = w \o pong
    BY <1>7, <1>8, <1>9, <1>10 DEF Appended, Chained
  <2>2. M!EncodeMessage(m)
          = <<19>> \o M!EncodeAddr(m.server_address)
              \o M!EncodeAddresses(m.system_addresses) \o m.ping_time \o m.pong_time
    BY DEF M!EncodeMessage
  <2>3. QED
    BY <1>1, <1>2, <1>3, <1>4, <1>5, <2>1, <2>2
<1>13. PICK rest : BehindId(x, rest) /\ IsBytes(rest, 163)
  BY <1>10, RestType
<1>14. M!ClassifyMessage(x) = M!DecodeIncoming(rest)
  BY <1>11, <1>13, ClassifiesById
<1>15. M!Field(rest, 0, 7) = address
  BY <1>2, <1>11, <1>13, FieldIs
<1>16. M!AddressesAt(rest, 7) = Filled(m.system_addresses)
  <2>1. PICK pos \in Nat, at \in Nat : pos = 7 /\ at = 8 /\ at = pos + 1
    OBVIOUS
  <2>2. Holds(x, at, M!EncodeAddresses(m.system_addresses))
    BY <1>3, <1>11, <2>1
  <2>3. PICK addresses \in Seq(Address) : addresses = m.system_addresses
    OBVIOUS
  <2>4. M!AddressesAt(rest, pos) = Filled(addresses)
    BY <1>11, <1>13, <2>1, <2>2, <2>3, AddressesReadBack
  <2>5. QED
    BY <2>1, <2>3, <2>4
<1>17. M!Field(rest, 147, 8) = ping
  BY <1>4, <1>11, <1>13, FieldIs
<1>18. M!Field(rest, 155, 8) = pong
  BY <1>5, <1>11, <1>13, FieldIs
<1>19. M!DecodeIncoming(rest)
        = [ kind |-> "NewIncomingConnection", server_address |-> m.server_address,
            system_addresses |-> Filled(m.system_addresses),
            ping_time |-> ping, pong_time |-> pong ]
  <2>1. Len(rest) = 163
    BY <1>13 DEF IsBytes
  <2>2. ~(Len(rest) < 163)
    BY <2>1
  <2>3. M!DecodeIncoming(rest)
          = [ kind |-> "NewIncomingConnection",
              server_address |-> M!DecodeAddr(M!Field(rest, 0, 7)),
              system_addresses |-> M!AddressesAt(rest, 7),
              ping_time |-> M!Field(rest, 147, 8), pong_time |-> M!Field(rest, 155, 8) ]
    BY <2>2, Zenon DEF M!DecodeIncoming
  <2>4. QED
    BY <1>2, <1>15, <1>16, <1>17, <1>18, <2>3, Zenon
<1>20. QED
  BY <1>6, <1>12, <1>14, <1>19

(* A disconnect and a packet of the application are read back.              *)
LEMMA OthersReadBack ==
  /\ \A m \in [kind : {"Disconnect"}] : M!ClassifyMessage(M!EncodeMessage(m)) = m
  /\ \A m \in [kind : {"Application"}, body : Seq(Byte)] :
       m.body # << >> /\ m.body[1] \notin {0, 3, 9, 16, 19, 21}
         => M!ClassifyMessage(M!EncodeMessage(m)) = m
<1>1. ASSUME NEW m \in [kind : {"Disconnect"}]
      PROVE  M!ClassifyMessage(M!EncodeMessage(m)) = m
  <2>1. m = [kind |-> "Disconnect"]
    OBVIOUS
  <2>2. M!EncodeMessage(m) = <<21>>
    BY <2>1 DEF M!EncodeMessage
  <2>3. <<21>> # << >> /\ <<21>>[1] = 21
    OBVIOUS
  <2>4. M!ClassifyMessage(<<21>>) = [kind |-> "Disconnect"]
    BY <2>3 DEF M!ClassifyMessage
  <2>5. QED
    BY <2>1, <2>2, <2>4
<1>2. ASSUME NEW m \in [kind : {"Application"}, body : Seq(Byte)],
             m.body # << >>, m.body[1] \notin {0, 3, 9, 16, 19, 21}
      PROVE  M!ClassifyMessage(M!EncodeMessage(m)) = m
  <2>1. m = [kind |-> "Application", body |-> m.body]
    OBVIOUS
  <2>2. M!EncodeMessage(m) = m.body
    BY DEF M!EncodeMessage
  <2>3. M!ClassifyMessage(m.body) = [kind |-> "Application", body |-> m.body]
    BY <1>2 DEF M!ClassifyMessage
  <2>4. QED
    BY <2>1, <2>2, <2>3
<1>3. QED
  BY <1>1, <1>2

(* A message is classified as itself: what SystemMessage's encoder writes,  *)
(* classify reads back with every field (message.rs:383), a list of system  *)
(* addresses as its first twenty, filled up with zeros.                     *)
THEOREM MessageReadsBack ==
  ASSUME NEW m \in AnyMessage
  PROVE  M!ClassifyMessage(M!EncodeMessage(m))
           = IF "system_addresses" \in DOMAIN m
             THEN [m EXCEPT !.system_addresses = Filled(@)] ELSE m
<1> DEFINE plain == "system_addresses" \notin DOMAIN m
<1>1. CASE m \in [kind : {"ConnectedPing"}, time : Eight]
  <2>1. plain
    BY <1>1
  <2>2. QED
    BY <1>1, <2>1, PingReadsBack
<1>2. CASE m \in [kind : {"ConnectedPong"}, ping_time : Eight, pong_time : Eight]
  <2>1. plain
    BY <1>2
  <2>2. QED
    BY <1>2, <2>1, PongReadsBack
<1>3. CASE m \in [ kind : {"ConnectionRequest"}, client_guid : Eight,
                   request_time : Eight, use_security : BOOLEAN ]
  <2>1. plain
    BY <1>3
  <2>2. QED
    BY <1>3, <2>1, RequestReadsBack
<1>4. CASE m \in [ kind : {"ConnectionRequestAccepted"}, client_address : Address,
                   system_index : U16, system_addresses : Seq(Address),
                   ping_time : Eight, pong_time : Eight ]
  <2>1. ~plain
    BY <1>4
  <2>2. QED
    BY <1>4, <2>1, AcceptedReadsBack
<1>5. CASE m \in [ kind : {"NewIncomingConnection"}, server_address : Address,
                   system_addresses : Seq(Address),
                   ping_time : Eight, pong_time : Eight ]
  <2>1. ~plain
    BY <1>5
  <2>2. QED
    BY <1>5, <2>1, IncomingReadsBack
<1>6. CASE m \in [kind : {"Disconnect"}]
  <2>1. plain
    BY <1>6
  <2>2. QED
    BY <1>6, <2>1, OthersReadBack
<1>7. CASE m \in { x \in [kind : {"Application"}, body : Seq(Byte)] :
                     x.body # << >> /\ x.body[1] \notin {0, 3, 9, 16, 19, 21} }
  <2>1. plain
    BY <1>7
  <2>2. QED
    BY <1>7, <2>1, OthersReadBack
<1>8. QED
  BY <1>1, <1>2, <1>3, <1>4, <1>5, <1>6, <1>7, Zenon DEF AnyMessage

------------------------------------------------------------------------------
(* Everything an open session sends, on its way from end to end.            *)

(* A frame the encoder takes has its indices in 24 bits.                    *)
LEMMA FrameTaken ==
  ASSUME NEW f \in AnyFrame, D!FrameEncodes(f)
  PROVE  f \in FrameValues
<1>1. \A v \in Nat \cup {D!None} : v <= D!U24Max => v \in Index \cup {D!None}
  <2>1. D!U24Max \in Nat
    BY Widths
  <2>2. QED
    BY <2>1 DEF Index, D!None
<1>2. U32 \subseteq 0 .. U32Max
  <2>1. ASSUME NEW v \in Nat, v \div 65536 \in U16 PROVE v \in 0 .. U32Max
    <3>1. v \div 65536 \in Nat /\ v \div 65536 < 65536
      BY <2>1, Widths, SMT DEF U16
    <3>2. v < 65536 * 65536
      BY <3>1, SMT
    <3>3. QED
      BY <3>2, Widths, SMT
  <2>2. QED
    BY <2>1 DEF U32
<1>3. f.split \in Splits \cup {D!NoSplit}
  <2>1. f.split \in [count : U32, id : U16, index : U32] \cup {D!NoSplit}
    BY DEF AnyFrame
  <2>2. QED
    BY <1>2, <2>1 DEF Splits, U16
<1>4. /\ f.reliable_index \in Index \cup {D!None}
      /\ f.sequence_index \in Index \cup {D!None}
      /\ f.order_index \in Index \cup {D!None}
  BY <1>1 DEF AnyFrame, D!FrameEncodes
<1>5. f = [ reliability    |-> f.reliability,
            reliable_index |-> f.reliable_index,
            sequence_index |-> f.sequence_index,
            order_index    |-> f.order_index,
            order_channel  |-> f.order_channel,
            split          |-> f.split,
            body           |-> f.body ]
  BY DEF AnyFrame
<1>6. /\ f.reliability \in D!Reliabilities /\ f.order_channel \in Byte
      /\ f.body \in Seq(Byte)
      /\ D!CarriesOrder(f.reliability) \/ f.order_channel = 0
  BY DEF AnyFrame
<1>7. QED
  BY <1>3, <1>4, <1>5, <1>6 DEF FrameValues

(* So is a datagram all of whose frames the encoder takes.                  *)
LEMMA DatagramTaken ==
  ASSUME NEW d \in AnyDatagram,
         \A k \in DOMAIN d.frames : D!FrameEncodes(d.frames[k])
  PROVE  d \in DatagramValues
<1>1. d.frames \in Seq(AnyFrame)
  BY DEF AnyDatagram
<1>2. \A k \in 1 .. Len(d.frames) : d.frames[k] \in FrameValues
  BY <1>1, FrameTaken
<1>3. d.frames \in Seq(FrameValues)
  BY <1>1, <1>2
<1>4. QED
  BY <1>3 DEF AnyDatagram, DatagramValues

(* And an acknowledgement.                                                  *)
LEMMA AckTaken ==
  ASSUME NEW a \in AnyAck
  PROVE  [is_ack |-> a.kind = "Ack", ranges |-> a.ranges] \in AckValues
<1>1. D!None .. D!U24Max \subseteq Index \cup {D!None}
  BY Widths DEF Index, D!None
<1> DEFINE ranges == a.ranges
           sent   == [start : Index, end : D!None .. D!U24Max]
<1>2. sent \subseteq RangeValues
  BY <1>1 DEF RangeValues
<1>3. ranges \in Seq(RangeValues)
  <2>1. ranges \in Seq(sent)
    BY DEF AnyAck
  <2> HIDE DEF ranges, sent
  <2>2. \A k \in 1 .. Len(ranges) : ranges[k] \in RangeValues
    BY <1>2, <2>1
  <2>3. QED
    BY <2>1, <2>2
<1>4. Len(a.ranges) <= D!U16Max
  BY Widths DEF AnyAck, U16
<1>5. (a.kind = "Ack") \in BOOLEAN
  OBVIOUS
<1>6. QED
  BY <1>3, <1>4, <1>5 DEF AckValues

(* Whatever an open session sends is read back as it was sent.              *)
LEMMA ReadsSent ==
  ASSUME NEW i \in Items, i.family \in {"datagram", "message"}, Encodes(i)
  PROVE  Read(i, Encode(i)) = Sent(i)
<1>1. CASE i.family = "datagram" /\ i.value \in AnyDatagram
  <2>1. i.value.kind = "Datagram"
    BY <1>1 DEF AnyDatagram
  <2>2. \A k \in DOMAIN i.value.frames : D!FrameEncodes(i.value.frames[k])
    BY <1>1, <2>1 DEF Encodes
  <2>3. Encode(i) = D!EncodeDatagram(i.value)
    BY <1>1, <2>1 DEF Encode
  <2>4. Read(i, Encode(i)) = D!Classify(Encode(i))
    BY <1>1 DEF Read
  <2>5. Sent(i) = i.value
    BY <1>1 DEF Sent
  <2>6. D!Classify(D!EncodeDatagram(i.value)) = i.value
    BY <1>1, <2>2, DatagramTaken, DatagramReadsBack
  <2>7. QED
    BY <2>3, <2>4, <2>5, <2>6
<1>2. CASE i.family = "datagram" /\ i.value \in AnyAck
  <2> DEFINE a == [is_ack |-> i.value.kind = "Ack", ranges |-> i.value.ranges]
  <2>1. i.value.kind # "Datagram"
    BY <1>2 DEF AnyAck
  <2>2. Encode(i) = D!EncodeAck(a)
    BY <1>2, <2>1 DEF Encode
  <2>3. Read(i, Encode(i)) = D!Classify(Encode(i))
    BY <1>2 DEF Read
  <2>4. Sent(i) = i.value
    BY <1>2 DEF Sent
  <2>5. a \in AckValues
    BY <1>2, AckTaken
  <2>6. i.value = [kind |-> IF a.is_ack THEN "Ack" ELSE "Nack", ranges |-> a.ranges]
    BY <1>2 DEF AnyAck
  <2> HIDE DEF a
  <2>7. D!Classify(D!EncodeAck(a)) = i.value
    BY <2>5, <2>6, AckReadsBack
  <2>8. QED
    BY <2>2, <2>3, <2>4, <2>7
<1>3. CASE i.family = "message"
  <2>1. i.value \in AnyMessage
    BY <1>3, ItemsAssumption
  <2>2. Encode(i) = M!EncodeMessage(i.value)
    BY <1>3 DEF Encode
  <2>3. Read(i, Encode(i)) = M!ClassifyMessage(Encode(i))
    BY <1>3 DEF Read
  <2>4. Sent(i) = IF "system_addresses" \in DOMAIN i.value
                  THEN [i.value EXCEPT !.system_addresses = Filled(@)] ELSE i.value
    BY <1>3 DEF Sent
  <2>5. QED
    BY <2>1, <2>2, <2>3, <2>4, MessageReadsBack
<1>4. QED
  <2>1. i.family = "datagram" => i.value \in AnyDatagram \cup AnyAck
    BY ItemsAssumption
  <2>2. QED
    BY <1>1, <1>2, <1>3, <2>1

(* What is underway is what was sent, and what arrived is what was read     *)
(* from it, as long as nothing was cut off.                                 *)
Underway ==
  /\ item = NotYet \/ (item \in Items /\ Encodes(item))
  /\ item = NotYet => received = NotYet
  /\ item # NotYet /\ ~cut => wire = Encode(item)
  /\ received # NotYet /\ ~cut => received = Read(item, wire)

(* It stays so on the way.                                                  *)
LEMMA UnderwayHolds == WireSpec => []Underway
<1>1. WireInit => Underway
  BY DEF WireInit, Underway
<1>2. Underway /\ [WireNext]_wireVars => Underway'
  <2> SUFFICES ASSUME Underway, [WireNext]_wireVars PROVE Underway'
    OBVIOUS
  <2>1. CASE Send
    <3>1. PICK i \in Items : Encodes(i) /\ item' = i /\ wire' = Encode(i)
      BY <2>1 DEF Send
    <3>2. received' = NotYet
      BY <2>1 DEF Send, Underway
    <3>3. Encodes(item)' /\ wire' = Encode(item)' /\ item' \in Items
      BY <3>1 DEF Encodes, Encode
    <3>4. QED
      BY <3>2, <3>3 DEF Underway
  <2>2. CASE Cut
    <3>1. cut' /\ UNCHANGED <<item, received>> /\ item # NotYet /\ received = NotYet
      BY <2>2 DEF Cut
    <3>2. QED
      BY <3>1 DEF Underway
  <2>3. CASE Receive
    <3>1. /\ received' = Read(item, wire) /\ UNCHANGED <<item, wire, cut>>
          /\ item # NotYet
      BY <2>3 DEF Receive
    <3>2. QED
      BY <3>1 DEF Underway
  <2>4. CASE UNCHANGED wireVars
    BY <2>4 DEF Underway, wireVars
  <2>5. QED
    BY <2>1, <2>2, <2>3, <2>4 DEF WireNext
<1>3. QED
  BY <1>1, <1>2, PTL DEF WireSpec

(* Whatever way a packet goes: what an open session sends is read back as it *)
(* was sent, by the dispatches on the first byte that have to tell it from  *)
(* all the others (datagram.rs:694, message.rs:383).                        *)
THEOREM OpenSessionReadsBack == WireSpec => []FramesReadBack
<1>1. Underway => FramesReadBack
  <2>1. SUFFICES ASSUME Underway, received # NotYet, ~cut,
                        item.family \in {"datagram", "message"}
                 PROVE  received = Sent(item)
    BY DEF FramesReadBack, ReadBack
  <2>2. item \in Items /\ Encodes(item)
    BY <2>1 DEF Underway
  <2>3. wire = Encode(item) /\ received = Read(item, wire)
    BY <2>1 DEF Underway
  <2>4. QED
    BY <2>1, <2>2, <2>3, ReadsSent
<1>2. QED
  BY <1>1, UnderwayHolds, PTL
=============================================================================
