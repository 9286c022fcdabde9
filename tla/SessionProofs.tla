--------------------------- MODULE SessionProofs ---------------------------
(***************************************************************************)
(* Theorems about Session, for every stream, capacity and number of faults. *)
(***************************************************************************)
EXTENDS Session, TLAPS

-----------------------------------------------------------------------------
(* Increasing sequences of frames, and what head, tail and append make of   *)
(* them.                                                                    *)
Increasing(s) == \A i, j \in DOMAIN s : i < j => s[i] < s[j]

Below(S, T) == \A a \in S, b \in T : a < b

LEMMA TailOf ==
  ASSUME NEW s \in Seq(Nat), s # << >>, Increasing(s)
  PROVE  /\ Head(s) \in Nat /\ Tail(s) \in Seq(Nat)
         /\ Increasing(Tail(s))
         /\ Range(s) = {Head(s)} \cup Range(Tail(s))
         /\ Below({Head(s)}, Range(Tail(s)))
<1>1. /\ Len(s) \in Nat /\ Len(s) >= 1
      /\ Head(s) = s[1] /\ Head(s) \in Nat
      /\ Tail(s) \in Seq(Nat)
      /\ DOMAIN s = 1 .. Len(s)
      /\ DOMAIN Tail(s) = 1 .. Len(s) - 1
      /\ \A i \in 1 .. Len(s) - 1 : Tail(s)[i] = s[i + 1]
  OBVIOUS
<1>2. Increasing(Tail(s))
  BY <1>1 DEF Increasing
<1>3. Range(s) \subseteq {Head(s)} \cup Range(Tail(s))
  <2> SUFFICES ASSUME NEW i \in 1 .. Len(s), i # 1
               PROVE  s[i] \in Range(Tail(s))
    BY <1>1 DEF Range
  <2>1. i - 1 \in 1 .. Len(s) - 1 /\ Tail(s)[i - 1] = s[i]
    BY <1>1
  <2>2. QED
    BY <1>1, <2>1 DEF Range
<1>4. {Head(s)} \cup Range(Tail(s)) \subseteq Range(s)
  <2>1. \A i \in 1 .. Len(s) - 1 : i + 1 \in 1 .. Len(s)
    BY <1>1
  <2>2. QED
    BY <1>1, <2>1 DEF Range
<1>5. Below({Head(s)}, Range(Tail(s)))
  BY <1>1 DEF Below, Range, Increasing
<1>6. QED
  BY <1>1, <1>2, <1>3, <1>4, <1>5

LEMMA AppendTo ==
  ASSUME NEW s \in Seq(Nat), NEW x \in Nat, Increasing(s), Below(Range(s), {x})
  PROVE  /\ Append(s, x) \in Seq(Nat)
         /\ Increasing(Append(s, x))
         /\ Range(Append(s, x)) = Range(s) \cup {x}
<1>1. /\ Len(s) \in Nat
      /\ DOMAIN s = 1 .. Len(s)
      /\ DOMAIN Append(s, x) = 1 .. Len(s) + 1
      /\ \A i \in 1 .. Len(s) : Append(s, x)[i] = s[i]
      /\ Append(s, x)[Len(s) + 1] = x
      /\ Append(s, x) \in Seq(Nat)
  OBVIOUS
<1>2. \A i \in 1 .. Len(s) : s[i] < x /\ s[i] \in Nat
  BY <1>1 DEF Below, Range
<1>3. Increasing(Append(s, x))
  <2> SUFFICES ASSUME NEW i \in 1 .. Len(s) + 1, NEW j \in 1 .. Len(s) + 1, i < j
               PROVE  Append(s, x)[i] < Append(s, x)[j]
    BY <1>1 DEF Increasing
  <2>1. CASE j = Len(s) + 1
    BY <1>1, <1>2, <2>1
  <2>2. CASE j # Len(s) + 1
    BY <1>1, <2>2 DEF Increasing
  <2>3. QED
    BY <2>1, <2>2
<1>4. Range(Append(s, x)) = Range(s) \cup {x}
  <2>1. \A i \in 1 .. Len(s) + 1 : i \in 1 .. Len(s) \/ i = Len(s) + 1
    BY <1>1
  <2>2. Range(Append(s, x)) \subseteq Range(s) \cup {x}
    BY <1>1, <2>1 DEF Range
  <2>3. Range(s) \cup {x} \subseteq Range(Append(s, x))
    BY <1>1 DEF Range
  <2>4. QED
    BY <2>2, <2>3
<1>5. QED
  BY <1>1, <1>3, <1>4

(* A batch of frames: the n after m, and perhaps an unordered one (0) first. *)
LEMMA BatchOf ==
  ASSUME NEW m \in Nat, NEW n \in Nat, NEW s \in Seq(Nat),
         \/ Len(s) = n /\ \A i \in 1 .. n : s[i] = m + i
         \/ /\ Len(s) = n + 1 /\ s[1] = 0
            /\ \A i \in 2 .. n + 1 : s[i] = m + (i - 1)
  PROVE  /\ Increasing(s)
         /\ Range(s) \subseteq {0} \cup (m + 1 .. m + n)
         /\ (m + 1 .. m + n) \subseteq Range(s)
<1>1. CASE Len(s) = n /\ \A i \in 1 .. n : s[i] = m + i
  <2>1. DOMAIN s = 1 .. n
    BY <1>1
  <2>2. Increasing(s)
    BY <1>1, <2>1 DEF Increasing
  <2>3. Range(s) \subseteq m + 1 .. m + n
    BY <1>1, <2>1 DEF Range
  <2>4. ASSUME NEW f \in m + 1 .. m + n PROVE f \in Range(s)
    <3>1. f - m \in 1 .. n /\ s[f - m] = f
      BY <1>1
    <3>2. QED
      BY <2>1, <3>1 DEF Range
  <2>5. QED
    BY <2>2, <2>3, <2>4
<1>2. CASE /\ Len(s) = n + 1 /\ s[1] = 0
           /\ \A i \in 2 .. n + 1 : s[i] = m + (i - 1)
  <2>1. DOMAIN s = 1 .. n + 1
    BY <1>2
  <2>2. \A i \in 1 .. n + 1 : IF i = 1 THEN s[i] = 0 ELSE s[i] = m + (i - 1)
    BY <1>2
  <2>3. Increasing(s)
    <3> SUFFICES ASSUME NEW i \in 1 .. n + 1, NEW j \in 1 .. n + 1, i < j
                 PROVE  s[i] < s[j]
      BY <2>1 DEF Increasing
    <3>1. s[j] = m + (j - 1) /\ (s[i] = 0 \/ s[i] = m + (i - 1))
      BY <2>2
    <3>2. QED
      BY <3>1
  <2>4. Range(s) \subseteq {0} \cup (m + 1 .. m + n)
    <3> SUFFICES ASSUME NEW i \in 1 .. n + 1
                 PROVE  s[i] \in {0} \cup (m + 1 .. m + n)
      BY <2>1 DEF Range
    <3>1. QED
      BY <2>2
  <2>5. ASSUME NEW f \in m + 1 .. m + n PROVE f \in Range(s)
    <3>1. f - m + 1 \in 1 .. n + 1 /\ f - m + 1 # 1 /\ m + ((f - m + 1) - 1) = f
      OBVIOUS
    <3>2. s[f - m + 1] = f
      BY <2>2, <3>1
    <3>3. QED
      BY <2>1, <3>1, <3>2 DEF Range
  <2>6. QED
    BY <2>3, <2>4, <2>5
<1>3. QED
  BY <1>1, <1>2

(* What a datagram puts into a hand: unordered frames, then the next n.     *)
LEMMA ArrivedBatch ==
  ASSUME NEW m \in Nat, NEW n \in Nat, NEW unordered \in {<< >>, <<UnorderedPing>>}
  PROVE  LET batch == unordered \o [i \in 1 .. n |-> m + i]
         IN  /\ batch \in Seq(Nat) /\ Increasing(batch)
             /\ Range(batch) \subseteq {0} \cup (m + 1 .. m + n)
             /\ (m + 1 .. m + n) \subseteq Range(batch)
             /\ Range(batch) \subseteq 0 .. m + n
<1> DEFINE frames == [i \in 1 .. n |-> m + i]
           batch  == unordered \o frames
<1>1. frames \in Seq(Nat) /\ Len(frames) = n /\ \A i \in 1 .. n : frames[i] = m + i
  OBVIOUS
<1>2. /\ batch \in Seq(Nat) /\ Increasing(batch)
      /\ Range(batch) \subseteq {0} \cup (m + 1 .. m + n)
      /\ (m + 1 .. m + n) \subseteq Range(batch)
  <2>1. CASE unordered = << >>
    <3>1. batch = frames
      BY <1>1, <2>1
    <3>2. QED
      BY <1>1, <3>1, BatchOf
  <2>2. CASE unordered = <<UnorderedPing>>
    <3>1. /\ batch \in Seq(Nat) /\ Len(batch) = n + 1 /\ batch[1] = 0
          /\ \A i \in 2 .. n + 1 : batch[i] = frames[i - 1]
      <4> HIDE DEF frames
      <4>1. QED
        BY <1>1, <2>2 DEF UnorderedPing
    <3>2. \A i \in 2 .. n + 1 : batch[i] = m + (i - 1)
      <4> HIDE DEF frames, batch
      <4>1. QED
        BY <1>1, <3>1
    <3> HIDE DEF batch
    <3>3. QED
      BY <1>1, <3>1, <3>2, BatchOf
  <2>3. QED
    BY <2>1, <2>2
<1>3. {0} \cup (m + 1 .. m + n) \subseteq 0 .. m + n
  OBVIOUS
<1>4. QED
  BY <1>2, <1>3

LEMMA EmptyRange == Range(<< >>) = {} /\ Increasing(<< >>) /\ << >> \in Seq(Nat)
BY DEF Range, Increasing

-----------------------------------------------------------------------------
(***************************************************************************)
(* Order of delivery                                                        *)
(*                                                                         *)
(* ReturnedInOrder speaks of what has been returned.  To be inductive it    *)
(* must also say where the other released frames are: the frames returned   *)
(* come before those in the delivery queue, and these before those in the   *)
(* receiver's hand, each in increasing order (InLine), and an application   *)
(* frame that was released and is in none of the three was lost by a call   *)
(* that failed (Accounted).  With two receivers InLine fails: both may have *)
(* frames in hand.  An empty hand outside of handle_incoming's loop, and    *)
(* what a receiver in the middle of on_request_accepted has at its head     *)
(* (Positions), are what the steps that empty the hand need.                *)
(***************************************************************************)
OrderTypes ==
    /\ stream \in Seq(Kinds)
    /\ next \in 0 .. Len(stream)
    /\ pc \in [Receivers -> Places]
    /\ hand \in [Receivers -> Seq(Nat)]
    /\ delivery \in Seq(Nat)
    /\ returned \in Seq(Nat)

Positions(r) ==
    /\ pc[r] \in {"idle", "check", "pump", "flush"} => hand[r] = << >>
    /\ pc[r] = "confirm" => hand[r] # << >> /\ Kind(Head(hand[r])) = "accepted"

InLine(r) ==
    /\ Increasing(returned) /\ Increasing(delivery) /\ Increasing(hand[r])
    /\ Range(returned) \cup Range(delivery) \subseteq 1 .. next
    /\ Range(hand[r]) \subseteq 0 .. next
    /\ Below(Range(returned), Range(delivery))
    /\ Below(Range(returned) \cup Range(delivery),
             Range(hand[r]) \ {UnorderedPing})

Accounted(r) ==
    /\ \A f \in 1 .. next :
          Kind(f) = "app" => f \in Range(returned) \cup Range(delivery)
                                   \cup Range(hand[r]) \cup lost
    /\ lost # {} => failed

OrderInv(r) == OrderTypes /\ Positions(r) /\ InLine(r) /\ Accounted(r)

LEMMA OrderInit ==
  ASSUME NEW r, Receivers = {r}, Init
  PROVE  OrderInv(r)
<1>1. stream \in Seq(Kinds) /\ hand[r] = << >> /\ pc[r] = "idle"
  BY SessionAssumption DEF Init
<1>2. Len(stream) \in Nat
  BY <1>1
<1>3. OrderTypes
  <2>1. /\ pc \in [Receivers -> Places] /\ hand \in [Receivers -> Seq(Nat)]
        /\ delivery \in Seq(Nat) /\ returned \in Seq(Nat)
    BY EmptyRange DEF Init, Places
  <2>2. next \in 0 .. Len(stream)
    BY <1>2 DEF Init
  <2>3. QED
    BY <1>1, <2>1, <2>2 DEF OrderTypes
<1>4. Positions(r)
  BY <1>1 DEF Positions
<1>5. InLine(r)
  BY <1>1, EmptyRange DEF Init, InLine, Below
<1>6. Accounted(r)
  BY DEF Init, Accounted
<1>7. QED
  BY <1>3, <1>4, <1>5, <1>6 DEF OrderInv

(* A call that fails takes what it had in hand with it.                     *)
LEMMA FailKeepsOrder ==
  ASSUME NEW r, Receivers = {r}, OrderInv(r), Fail(r),
         UNCHANGED <<stream, next, delivery>>
  PROVE  OrderInv(r)'
<1>1. hand'[r] = << >> /\ pc'[r] = "idle"
  BY DEF Fail, Leave, OrderInv, OrderTypes
<1>2. OrderTypes'
  BY EmptyRange DEF OrderInv, OrderTypes, Fail, Leave, Places
<1>3. Positions(r)'
  BY <1>1 DEF Positions
<1>4. InLine(r)'
  BY <1>1, EmptyRange DEF OrderInv, InLine, Fail, Below
<1>5. Accounted(r)'
  <2> SUFFICES ASSUME NEW f \in 1 .. next, Kind(f)' = "app"
               PROVE  f \in Range(returned) \cup Range(delivery) \cup lost'
    BY DEF Accounted, Fail
  <2>1. Kind(f) = "app" /\ f # UnorderedPing
    BY DEF Kind, UnorderedPing
  <2>2. QED
    BY <2>1 DEF OrderInv, Accounted, Fail, Leave
<1>6. QED
  BY <1>2, <1>3, <1>4, <1>5 DEF OrderInv

(* A frame that was not the application's is done with.                     *)
LEMMA DroppedHeadKeepsOrder ==
  ASSUME NEW r, Receivers = {r}, OrderInv(r),
         hand[r] # << >>, Kind(Head(hand[r])) # "app",
         hand' = [hand EXCEPT ![r] = Tail(@)],
         pc' \in [Receivers -> Places], pc'[r] = "deliver",
         UNCHANGED <<stream, next, delivery, returned, lost, failed>>
  PROVE  OrderInv(r)'
<1>1. /\ hand[r] \in Seq(Nat)
      /\ hand'[r] = Tail(hand[r])
      /\ Increasing(hand[r])
  BY DEF OrderInv, OrderTypes, InLine
<1>2. /\ Tail(hand[r]) \in Seq(Nat) /\ Increasing(Tail(hand[r]))
      /\ Range(hand[r]) = {Head(hand[r])} \cup Range(Tail(hand[r]))
  BY <1>1, TailOf
<1>3. OrderTypes'
  BY <1>2 DEF OrderInv, OrderTypes
<1>4. Positions(r)'
  BY DEF Positions
<1>5. InLine(r)'
  BY <1>1, <1>2 DEF OrderInv, InLine, Below
<1>6. Accounted(r)'
  BY <1>1, <1>2 DEF OrderInv, Accounted, Kind
<1>7. QED
  BY <1>3, <1>4, <1>5, <1>6 DEF OrderInv

(* A step that moves no frame keeps the order.                              *)
LEMMA NothingMoved ==
  ASSUME NEW r, Receivers = {r}, OrderInv(r), Positions(r)',
         pc' \in [Receivers -> Places],
         UNCHANGED <<stream, next, hand, delivery, returned, lost, failed>>
  PROVE  OrderInv(r)'
BY DEF OrderInv, OrderTypes, InLine, Accounted, Kind

(* recv hands out the head of the delivery queue.                           *)
LEMMA TakeKeepsOrder ==
  ASSUME NEW r, Receivers = {r}, OrderInv(r), TakeDelivered(r), delivery # << >>
  PROVE  OrderInv(r)'
<1> DEFINE head == Head(delivery)
<1>1. /\ hand[r] = << >> /\ hand'[r] = << >> /\ pc'[r] = "idle"
      /\ returned' = Append(returned, head) /\ delivery' = Tail(delivery)
      /\ lost' = lost /\ failed' = failed
      /\ UNCHANGED <<stream, next>>
  BY EmptyRange DEF OrderInv, OrderTypes, Positions, TakeDelivered, Leave, engine
<1>2. /\ head \in Nat /\ delivery' \in Seq(Nat) /\ Increasing(delivery')
      /\ Range(delivery) = {head} \cup Range(delivery')
      /\ Below({head}, Range(delivery'))
  BY <1>1, TailOf DEF OrderInv, OrderTypes, InLine
<1>3. Below(Range(returned), {head})
  BY <1>2 DEF OrderInv, InLine, Below
<1>4. /\ returned' \in Seq(Nat) /\ Increasing(returned')
      /\ Range(returned') = Range(returned) \cup {head}
  BY <1>1, <1>2, <1>3, AppendTo DEF OrderInv, OrderTypes, InLine
<1>5. OrderTypes'
  BY <1>1, <1>2, <1>4, EmptyRange
     DEF OrderInv, OrderTypes, TakeDelivered, Leave, Places
<1>6. Positions(r)'
  BY <1>1 DEF Positions
<1>7. InLine(r)'
  BY <1>1, <1>2, <1>4, EmptyRange DEF OrderInv, InLine, Below
<1>8. Accounted(r)'
  BY <1>1, <1>2, <1>4 DEF OrderInv, Accounted, Kind
<1>9. QED
  BY <1>5, <1>6, <1>7, <1>8 DEF OrderInv

(* A datagram's frames come into an empty hand: the ordered ones are the    *)
(* next of the stream.                                                      *)
LEMMA ReceiveKeepsOrder ==
  ASSUME NEW r, Receivers = {r}, OrderInv(r),
         NEW new \in BOOLEAN, NEW unordered \in {<< >>, <<UnorderedPing>>},
         NEW n \in 0 .. MaxBatch, ReceiveDatagram(r, new, unordered, n)
  PROVE  OrderInv(r)'
<1> DEFINE frames == [i \in 1 .. n |-> next + i]
           batch  == unordered \o frames
<1>1. /\ n \in Nat /\ next \in Nat /\ next' = next + n
      /\ next' \in 0 .. Len(stream) /\ Len(stream) \in Nat
      /\ UNCHANGED <<stream, delivery, returned, lost, failed>>
  <2>1. n \in Nat /\ next \in Nat /\ Len(stream) \in Nat
    BY SessionAssumption DEF OrderInv, OrderTypes
  <2>2. next' = next + n /\ next + n <= Len(stream)
        /\ UNCHANGED <<stream, delivery, returned, lost, failed>>
    BY DEF ReceiveDatagram, told
  <2>3. QED
    BY <2>1, <2>2
<1>2. /\ hand[r] = << >> /\ hand'[r] = batch /\ pc'[r] = "deliver"
      /\ hand' = [hand EXCEPT ![r] = batch]
      /\ pc' \in [Receivers -> Places]
  BY DEF OrderInv, OrderTypes, Positions, ReceiveDatagram, Goto, Places
<1>3. /\ batch \in Seq(Nat) /\ Increasing(batch)
      /\ Range(batch) \subseteq {0} \cup (next + 1 .. next + n)
      /\ (next + 1 .. next + n) \subseteq Range(batch)
  BY <1>1, ArrivedBatch
<1> HIDE DEF frames, batch
<1>4. OrderTypes'
  BY <1>1, <1>2, <1>3 DEF OrderInv, OrderTypes
<1>5. Positions(r)'
  BY <1>2 DEF Positions
<1>6. InLine(r)'
  <2>1. Range(hand'[r]) \subseteq {0} \cup (next + 1 .. next + n)
    BY <1>2, <1>3
  <2>2. QED
    BY <1>1, <1>2, <1>3, <2>1 DEF OrderInv, InLine, Below, UnorderedPing
<1>7. Accounted(r)'
  <2> SUFFICES ASSUME NEW f \in 1 .. next', Kind(f)' = "app"
               PROVE  f \in Range(returned) \cup Range(delivery)
                            \cup Range(hand'[r]) \cup lost
    BY <1>1 DEF OrderInv, Accounted
  <2>1. CASE f \in 1 .. next
    BY <1>1, <1>2, <2>1, EmptyRange DEF OrderInv, Accounted, Kind
  <2>2. CASE f \in next + 1 .. next + n
    BY <1>2, <1>3, <2>2
  <2>3. QED
    BY <1>1, <2>1, <2>2
<1>8. QED
  BY <1>4, <1>5, <1>6, <1>7 DEF OrderInv

(* An application frame goes from the hand to the end of the queue.         *)
LEMMA ForwardKeepsOrder ==
  ASSUME NEW r, Receivers = {r}, OrderInv(r), Forward(r)
  PROVE  OrderInv(r)'
<1> DEFINE head == Head(hand[r])
<1>1. CASE ~(Len(delivery) < DeliveryCapacity)
  BY <1>1, FailKeepsOrder DEF Forward, engine
<1>2. CASE Len(delivery) < DeliveryCapacity
  <2>1. /\ hand[r] # << >> /\ Kind(head) = "app" /\ pc[r] = "deliver"
        /\ delivery' = Append(delivery, head)
        /\ hand' = [hand EXCEPT ![r] = Tail(@)]
        /\ UNCHANGED <<pc, stream, next, returned, lost, failed>>
    BY <1>2 DEF Forward, AtHead, DropHead, engine, told
  <2>2. hand[r] \in Seq(Nat) /\ Increasing(hand[r]) /\ hand'[r] = Tail(hand[r])
    BY <2>1 DEF OrderInv, OrderTypes, InLine
  <2>3. /\ head \in Nat /\ Tail(hand[r]) \in Seq(Nat) /\ Increasing(Tail(hand[r]))
        /\ Range(hand[r]) = {head} \cup Range(Tail(hand[r]))
        /\ Below({head}, Range(Tail(hand[r])))
    BY <2>1, <2>2, TailOf
  <2>4. head # UnorderedPing /\ head \in 1 .. next
    <3>1. head # UnorderedPing
      BY <2>1 DEF Kind
    <3>2. head \in 0 .. next
      BY <2>3 DEF OrderInv, InLine
    <3>3. next \in Nat
      BY DEF OrderInv, OrderTypes
    <3>4. QED
      BY <3>1, <3>2, <3>3 DEF UnorderedPing
  <2>5. Below(Range(delivery), {head})
    BY <2>3, <2>4 DEF OrderInv, InLine, Below
  <2>6. /\ delivery' \in Seq(Nat) /\ Increasing(delivery')
        /\ Range(delivery') = Range(delivery) \cup {head}
    BY <2>1, <2>3, <2>5, AppendTo DEF OrderInv, OrderTypes, InLine
  <2>7. OrderTypes'
    BY <2>1, <2>3, <2>6 DEF OrderInv, OrderTypes
  <2>8. Positions(r)'
    BY <2>1 DEF Positions
  <2>9. InLine(r)'
    BY <2>1, <2>2, <2>3, <2>4, <2>6 DEF OrderInv, InLine, Below
  <2>10. Accounted(r)'
    BY <2>1, <2>2, <2>3, <2>6 DEF OrderInv, Accounted, Kind
  <2>11. QED
    BY <2>7, <2>8, <2>9, <2>10 DEF OrderInv
<1>3. QED
  BY <1>1, <1>2

LEMMA OrderNext ==
  ASSUME NEW r, Receivers = {r}, OrderInv(r), [Next]_vars
  PROVE  OrderInv(r)'
<1> USE DEF engine, told, tasks, state, wire, ticker
<1>1. /\ pc \in [Receivers -> Places] /\ hand \in [Receivers -> Seq(Nat)]
      /\ Positions(r)
  BY DEF OrderInv, OrderTypes
<1>2. CASE CallConnect(r)
  <2>1. CASE Broken(r)
    BY <1>2, <2>1, FailKeepsOrder DEF CallConnect, Broken
  <2>2. CASE pc' = [pc EXCEPT ![r] = "check"] /\ UNCHANGED <<hand, told>>
    <3>1. Positions(r)' /\ pc' \in [Receivers -> Places]
      BY <1>1, <1>2, <2>2 DEF CallConnect, Positions, Places
    <3>2. QED
      BY <1>2, <2>2, <3>1, NothingMoved DEF CallConnect
  <2>3. QED
    BY <1>2, <2>1, <2>2 DEF CallConnect
<1>3. CASE CallRecv(r)
  <2>1. Positions(r)' /\ pc' \in [Receivers -> Places]
    BY <1>1, <1>3 DEF CallRecv, Positions, Places
  <2>2. QED
    BY <1>3, <2>1, NothingMoved DEF CallRecv
<1>4. CASE TakeDelivered(r)
  <2>1. CASE delivery = << >>
    <3>1. Positions(r)' /\ pc' \in [Receivers -> Places]
      BY <1>1, <1>4, <2>1 DEF TakeDelivered, Goto, Positions, Places
    <3>2. QED
      BY <1>4, <2>1, <3>1, NothingMoved DEF TakeDelivered
  <2>2. QED
    BY <1>4, <2>1, TakeKeepsOrder
<1>5. CASE CheckOnline(r)
  <2>1. CASE Fail(r)
    BY <1>5, <2>1, FailKeepsOrder DEF CheckOnline
  <2>2. CASE Goto(r, "pump") /\ UNCHANGED <<hand, told>>
    <3>1. Positions(r)' /\ pc' \in [Receivers -> Places]
      BY <1>1, <1>5, <2>2 DEF CheckOnline, Goto, Positions, Places
    <3>2. QED
      BY <1>5, <2>2, <3>1, NothingMoved DEF CheckOnline
  <2>3. CASE Leave(r) /\ UNCHANGED <<returned, handled, failed>>
    <3>1. hand[r] = << >>
      BY <1>1, <1>5 DEF CheckOnline, Positions
    <3>2. hand' = hand /\ lost' = lost
      BY <1>1, <2>3, <3>1, EmptyRange DEF Leave
    <3>3. Positions(r)' /\ pc' \in [Receivers -> Places]
      BY <1>1, <2>3, <3>1, <3>2 DEF Leave, Positions, Places
    <3>4. QED
      BY <1>5, <2>3, <3>2, <3>3, NothingMoved DEF CheckOnline
  <2>4. QED
    BY <1>5, <2>1, <2>2, <2>3 DEF CheckOnline
<1>6. CASE PollTimesOut(r) \/ AllDelivered(r) \/ Flush(r)
  <2>1. Positions(r)' /\ pc' \in [Receivers -> Places]
    BY <1>1, <1>6 DEF PollTimesOut, AllDelivered, Flush, Goto, Positions, Places
  <2>2. QED
    BY <1>6, <2>1, NothingMoved DEF PollTimesOut, AllDelivered, Flush
<1>7. CASE Forward(r)
  BY <1>7, ForwardKeepsOrder
<1>8. CASE AnswerPing(r) \/ NoteState(r)
  <2>1. CASE Broken(r)
    BY <1>8, <2>1, FailKeepsOrder DEF AnswerPing, NoteState, Broken
  <2>2. CASE DropHead(r) /\ HandledHead(r)
    <3>1. /\ hand[r] # << >> /\ Kind(Head(hand[r])) # "app" /\ pc[r] = "deliver"
          /\ UNCHANGED <<stream, next, delivery>>
      BY <1>8 DEF AnswerPing, NoteState, AtHead
    <3>2. QED
      BY <1>1, <2>2, <3>1, DroppedHeadKeepsOrder DEF DropHead, HandledHead
  <2>3. QED
    BY <1>8, <2>1, <2>2 DEF AnswerPing, NoteState
<1>9. CASE ReplyNewIncoming(r)
  <2>1. CASE Broken(r)
    BY <1>9, <2>1, FailKeepsOrder DEF ReplyNewIncoming, Broken
  <2>2. CASE Goto(r, "confirm") /\ UNCHANGED <<hand, told>>
    <3>1. Positions(r)' /\ pc' \in [Receivers -> Places]
      BY <1>1, <1>9, <2>2
         DEF ReplyNewIncoming, AtHead, Goto, Positions, Places, Kind
    <3>2. QED
      BY <1>9, <2>2, <3>1, NothingMoved DEF ReplyNewIncoming
  <2>3. QED
    BY <1>9, <2>1, <2>2 DEF ReplyNewIncoming
<1>10. CASE ConfirmOnline(r)
  <2>1. hand[r] # << >> /\ Kind(Head(hand[r])) # "app"
    BY <1>1, <1>10 DEF ConfirmOnline, Positions
  <2>2. pc' \in [Receivers -> Places] /\ pc'[r] = "deliver"
    BY <1>1, <1>10 DEF ConfirmOnline, Goto, Places
  <2>3. QED
    BY <1>10, <2>1, <2>2, DroppedHeadKeepsOrder DEF ConfirmOnline, HandledHead
<1>11. CASE BadBody(r) \/ ConnectTimesOut(r)
  BY <1>11, FailKeepsOrder DEF BadBody, ConnectTimesOut
<1>12. CASE PumpFails(r) \/ Cancel(r)
  BY <1>12, FailKeepsOrder DEF PumpFails, Cancel, Broken
<1>13. CASE ReceiveControl(r)
  <2>1. CASE Broken(r)
    BY <1>13, <2>1, FailKeepsOrder DEF ReceiveControl, Broken
  <2>2. CASE Goto(r, "flush") /\ UNCHANGED <<hand, faults, told>>
    <3>1. Positions(r)' /\ pc' \in [Receivers -> Places]
      BY <1>1, <1>13, <2>2 DEF ReceiveControl, Goto, Positions, Places
    <3>2. QED
      BY <1>13, <2>2, <3>1, NothingMoved DEF ReceiveControl
  <2>3. QED
    BY <1>13, <2>1, <2>2 DEF ReceiveControl
<1>14. CASE \E new \in BOOLEAN, unordered \in {<< >>, <<UnorderedPing>>},
              n \in 0 .. MaxBatch : ReceiveDatagram(r, new, unordered, n)
  BY <1>14, ReceiveKeepsOrder
<1>15. CASE UNCHANGED <<tasks, stream, next, delivery, told>>
  <2>1. Positions(r)'
    BY <1>1, <1>15 DEF Positions, Kind
  <2>2. QED
    BY <1>1, <1>15, <2>1, NothingMoved
<1>16. CASE CallSend \/ FallSilent \/ UNCHANGED vars
  BY <1>15, <1>16 DEF CallSend, FallSilent, vars
<1>17. CASE \E others \in {<< >>, NackOrResend} : Tick(others)
  BY <1>15, <1>17 DEF Tick
<1>18. QED
  BY <1>2, <1>3, <1>4, <1>5, <1>6, <1>7, <1>8, <1>9, <1>10, <1>11, <1>12, <1>13,
     <1>14, <1>16, <1>17 DEF Next, Step, Deliver, Receive

(***************************************************************************)
(* With one receiving task, recv returns the application frames of the      *)
(* stream in their order, and a frame is left out only by a call that       *)
(* failed with the frame in its hand (reliable_conn.rs:12-13).              *)
(***************************************************************************)
THEOREM InOrder ==
  ASSUME NEW r, Receivers = {r}
  PROVE  Spec => []ReturnedInOrder
<1>1. OrderInv(r) => ReturnedInOrder
  <2> SUFFICES ASSUME OrderInv(r) PROVE ReturnedInOrder
    OBVIOUS
  <2>1. \A i, j \in DOMAIN returned : i < j => returned[i] < returned[j]
    BY DEF OrderInv, InLine, Increasing
  <2>2. ASSUME NEW f \in Frames, NEW i \in DOMAIN returned,
               Kind(f) = "app", f < returned[i], f \notin Range(returned)
        PROVE  failed /\ f \in lost
    <3>1. returned[i] \in Range(returned)
      BY DEF Range
    <3>2. Len(stream) \in Nat /\ next \in Nat /\ f \in Nat /\ f # UnorderedPing
      BY DEF OrderInv, OrderTypes, Frames, UnorderedPing
    <3>3. returned[i] \in 1 .. next /\ f \in 1 .. next
      BY <2>2, <3>1, <3>2 DEF OrderInv, InLine, Frames
    <3>4. f \notin Range(delivery)
      BY <2>2, <3>1, <3>3 DEF OrderInv, InLine, Below
    <3>5. f \notin Range(hand[r])
      BY <2>2, <3>1, <3>2, <3>3 DEF OrderInv, InLine, Below
    <3>6. QED
      BY <2>2, <3>3, <3>4, <3>5 DEF OrderInv, Accounted
  <2>3. QED
    BY <2>1, <2>2 DEF ReturnedInOrder
<1>2. Init => OrderInv(r)
  BY OrderInit
<1>3. OrderInv(r) /\ [Next]_vars => OrderInv(r)'
  BY OrderNext
<1>4. QED
  BY <1>1, <1>2, <1>3, PTL DEF Spec

-----------------------------------------------------------------------------
(***************************************************************************)
(* The online handshake                                                     *)
(*                                                                         *)
(* ConfirmOnline tests nothing: that the reply went out, and that there was *)
(* an acceptance at all, is known from where the task stands.  OnlineInv    *)
(* says it of every task, for any number of receivers.                      *)
(***************************************************************************)
Reached(t) ==
    /\ Range(hand[t]) \subseteq 0 .. next
    /\ pc[t] = "confirm" => /\ "newincoming" \in sent
                            /\ hand[t] # << >>
                            /\ Kind(Head(hand[t])) = "accepted"

OnlineInv ==
    /\ next \in Nat
    /\ pc \in [Receivers -> Places] /\ hand \in [Receivers -> Seq(Nat)]
    /\ \A t \in Receivers : Reached(t)
    /\ OnlineConfirmed

LEMMA HeadAndTail ==
  ASSUME NEW s \in Seq(Nat), s # << >>
  PROVE  /\ Head(s) \in Range(s) /\ Tail(s) \in Seq(Nat)
         /\ Range(Tail(s)) \subseteq Range(s)
<1>1. /\ Len(s) \in Nat /\ Len(s) >= 1
      /\ DOMAIN s = 1 .. Len(s) /\ Head(s) = s[1]
      /\ Tail(s) \in Seq(Nat)
      /\ DOMAIN Tail(s) = 1 .. Len(s) - 1
      /\ \A i \in 1 .. Len(s) - 1 : Tail(s)[i] = s[i + 1]
  OBVIOUS
<1>2. \A i \in 1 .. Len(s) - 1 : i + 1 \in 1 .. Len(s)
  BY <1>1
<1>3. QED
  BY <1>1, <1>2 DEF Range

(* What a step does to the task that takes it, when it moves no stream: the *)
(* hand stays, loses its head or is emptied, and the place is not the one   *)
(* where a confirmation is due, unless it stays what it was.                *)
LEMMA TaskMoves ==
  ASSUME OnlineInv, NEW r \in Receivers, NEW place \in Places \ {"confirm"},
         \/ hand' = hand
         \/ hand' = [hand EXCEPT ![r] = << >>]
         \/ hand[r] # << >> /\ hand' = [hand EXCEPT ![r] = Tail(@)],
         pc' = [pc EXCEPT ![r] = place],
         sent \subseteq sent', UNCHANGED <<stream, next, online>>
  PROVE  OnlineInv'
<1>1. hand[r] \in Seq(Nat) /\ Range(hand[r]) \subseteq 0 .. next
  BY DEF OnlineInv, Reached
<1>2. /\ hand' \in [Receivers -> Seq(Nat)]
      /\ Range(hand'[r]) \subseteq 0 .. next
      /\ \A t \in Receivers \ {r} : hand'[t] = hand[t]
  <2>1. CASE hand' = hand
    BY <1>1, <2>1 DEF OnlineInv
  <2>2. CASE hand' = [hand EXCEPT ![r] = << >>]
    BY <2>2, EmptyRange DEF OnlineInv
  <2>3. CASE hand[r] # << >> /\ hand' = [hand EXCEPT ![r] = Tail(@)]
    BY <1>1, <2>3, HeadAndTail DEF OnlineInv
  <2>4. QED
    BY <2>1, <2>2, <2>3
<1>3. pc' \in [Receivers -> Places] /\ pc'[r] # "confirm"
      /\ \A t \in Receivers \ {r} : pc'[t] = pc[t]
  BY DEF OnlineInv
<1>4. ASSUME NEW t \in Receivers PROVE Reached(t)'
  BY <1>2, <1>3, <1>4 DEF OnlineInv, Reached, Kind
<1>5. OnlineConfirmed'
  BY DEF OnlineInv, OnlineConfirmed, Kind
<1>6. QED
  BY <1>2, <1>3, <1>4, <1>5 DEF OnlineInv

LEMMA FailsOnline ==
  ASSUME OnlineInv, NEW r \in Receivers, Leave(r),
         sent \subseteq sent', UNCHANGED <<stream, next, online>>
  PROVE  OnlineInv'
BY TaskMoves DEF Leave, Places

LEMMA StandsOnline ==
  ASSUME OnlineInv, sent \subseteq sent',
         UNCHANGED <<pc, hand, stream, next, online>>
  PROVE  OnlineInv'
<1>1. ASSUME NEW t \in Receivers PROVE Reached(t)'
  BY <1>1 DEF OnlineInv, Reached, Kind
<1>2. OnlineConfirmed'
  BY DEF OnlineInv, OnlineConfirmed, Kind
<1>3. QED
  BY <1>1, <1>2 DEF OnlineInv

LEMMA OnlineInit == Init => OnlineInv
<1>1. SUFFICES ASSUME Init PROVE OnlineInv
  OBVIOUS
<1>2. pc \in [Receivers -> Places] /\ hand \in [Receivers -> Seq(Nat)]
  BY <1>1, EmptyRange DEF Init, Places
<1>3. \A t \in Receivers : Reached(t)
  BY <1>1, EmptyRange DEF Init, Reached
<1>4. QED
  BY <1>1, <1>2, <1>3 DEF Init, OnlineInv, OnlineConfirmed

LEMMA OnlineNext == OnlineInv /\ [Next]_vars => OnlineInv'
<1> SUFFICES ASSUME OnlineInv, [Next]_vars PROVE OnlineInv'
  OBVIOUS
<1> USE DEF engine, told, tasks, state, wire, ticker
<1>1. ASSUME NEW r \in Receivers, CallConnect(r) PROVE OnlineInv'
  <2>1. CASE Broken(r)
    BY <1>1, <2>1, FailsOnline
       DEF CallConnect, Broken, Fail, Send, SendCut, SendFails
  <2>2. CASE Send("request") /\ pc' = [pc EXCEPT ![r] = "check"] /\ hand' = hand
    BY <1>1, <2>2, TaskMoves DEF CallConnect, Send, Places
  <2>3. QED
    BY <1>1, <2>1, <2>2 DEF CallConnect
<1>2. ASSUME NEW r \in Receivers,
             CallRecv(r) \/ PollTimesOut(r) \/ AllDelivered(r) \/ Flush(r)
      PROVE  OnlineInv'
  BY <1>2, TaskMoves
     DEF CallRecv, PollTimesOut, AllDelivered, Flush, Goto, Places
<1>3. ASSUME NEW r \in Receivers,
             TakeDelivered(r) \/ CheckOnline(r) \/ ReceiveControl(r)
      PROVE  OnlineInv'
  <2>1. UNCHANGED <<stream, next, online, sent>>
    BY <1>3 DEF TakeDelivered, CheckOnline, ReceiveControl
  <2>2. CASE Leave(r)
    BY <2>1, <2>2, FailsOnline
  <2>3. CASE hand' = hand /\ (Goto(r, "pump") \/ Goto(r, "flush"))
    BY <2>1, <2>3, TaskMoves DEF Goto, Places
  <2>4. QED
    BY <1>3, <2>2, <2>3
       DEF TakeDelivered, CheckOnline, ReceiveControl, Broken, Fail
<1>4. ASSUME NEW r \in Receivers,
             \/ BadBody(r) \/ ConnectTimesOut(r) \/ PumpFails(r) \/ Cancel(r)
      PROVE  OnlineInv'
  BY <1>4, FailsOnline
     DEF BadBody, ConnectTimesOut, PumpFails, Cancel, Broken, Fail, SendFails
<1>5. ASSUME NEW r \in Receivers, Forward(r) \/ AnswerPing(r) \/ NoteState(r)
      PROVE  OnlineInv'
  <2>1. sent \subseteq sent' /\ UNCHANGED <<stream, next, online>>
    BY <1>5 DEF Forward, AnswerPing, NoteState, Send, SendCut, SendFails
  <2>2. CASE Leave(r)
    BY <2>1, <2>2, FailsOnline
  <2>3. CASE AtHead(r, {"app", "ping", "pong", "disconnect"}) /\ DropHead(r)
    <3>1. pc' = [pc EXCEPT ![r] = "deliver"]
      BY <2>3 DEF AtHead, DropHead, OnlineInv
    <3>2. QED
      BY <2>1, <2>3, <3>1, TaskMoves DEF AtHead, DropHead, Places
  <2>4. QED
    BY <1>5, <2>2, <2>3
       DEF Forward, AnswerPing, NoteState, Broken, Fail, AtHead
<1>6. ASSUME NEW r \in Receivers, ReplyNewIncoming(r) PROVE OnlineInv'
  <2>1. CASE Broken(r)
    BY <1>6, <2>1, FailsOnline
       DEF ReplyNewIncoming, Broken, Fail, Send, SendCut, SendFails
  <2>2. CASE Send("newincoming") /\ Goto(r, "confirm") /\ hand' = hand
    <3>1. /\ sent \subseteq sent' /\ "newincoming" \in sent'
          /\ UNCHANGED <<stream, next, online>>
      BY <1>6, <2>2 DEF ReplyNewIncoming, Send, Handshakes
    <3>2. ASSUME NEW t \in Receivers PROVE Reached(t)'
      BY <1>6, <2>2, <3>1
         DEF ReplyNewIncoming, AtHead, Goto, OnlineInv, Reached, Kind
    <3>3. pc' \in [Receivers -> Places]
      BY <2>2 DEF Goto, OnlineInv, Places
    <3>4. OnlineConfirmed'
      BY <3>1 DEF OnlineInv, OnlineConfirmed, Kind
    <3>5. QED
      BY <2>2, <3>1, <3>2, <3>3, <3>4 DEF OnlineInv
  <2>3. QED
    BY <1>6, <2>1, <2>2 DEF ReplyNewIncoming
<1>7. ASSUME NEW r \in Receivers, ConfirmOnline(r) PROVE OnlineInv'
  <2> DEFINE head == Head(hand[r])
  <2>1. /\ "newincoming" \in sent /\ hand[r] # << >> /\ Kind(head) = "accepted"
        /\ hand[r] \in Seq(Nat) /\ Range(hand[r]) \subseteq 0 .. next
    BY <1>7 DEF ConfirmOnline, OnlineInv, Reached
  <2>2. head \in 0 .. next /\ head # 0
    BY <2>1, HeadAndTail DEF Kind, UnorderedPing
  <2>3. next \in Nat
    BY DEF OnlineInv
  <2>4. head \in 1 .. next
    BY <2>2, <2>3 DEF OnlineInv
  <2>5. hand' = [hand EXCEPT ![r] = Tail(@)] /\ pc' = [pc EXCEPT ![r] = "deliver"]
        /\ UNCHANGED <<stream, next, sent>>
    BY <1>7 DEF ConfirmOnline, Goto
  <2>6. pc' \in [Receivers -> Places] /\ hand' \in [Receivers -> Seq(Nat)]
    BY <2>1, <2>5, HeadAndTail DEF OnlineInv, Places
  <2>7. ASSUME NEW t \in Receivers PROVE Reached(t)'
    BY <2>1, <2>5, HeadAndTail DEF OnlineInv, Reached, Kind
  <2>8. OnlineConfirmed'
    BY <2>1, <2>4, <2>5 DEF OnlineConfirmed, Kind
  <2>9. QED
    BY <2>4, <2>5, <2>6, <2>7, <2>8 DEF OnlineInv
<1>8. ASSUME NEW r \in Receivers, NEW new \in BOOLEAN,
             NEW unordered \in {<< >>, <<UnorderedPing>>}, NEW n \in 0 .. MaxBatch,
             ReceiveDatagram(r, new, unordered, n)
      PROVE  OnlineInv'
  <2>1. n \in Nat /\ next \in Nat
    BY SessionAssumption DEF OnlineInv
  <2>2. next' = next + n /\ next' \in Nat
        /\ UNCHANGED <<stream, online, sent>>
        /\ pc' = [pc EXCEPT ![r] = "deliver"]
        /\ hand' = [hand EXCEPT ![r] = unordered \o [i \in 1 .. n |-> next + i]]
    BY <1>8, <2>1 DEF ReceiveDatagram, Goto
  <2>3. /\ unordered \o [i \in 1 .. n |-> next + i] \in Seq(Nat)
        /\ Range(unordered \o [i \in 1 .. n |-> next + i]) \subseteq 0 .. next + n
    BY <2>1, ArrivedBatch
  <2>4. pc' \in [Receivers -> Places] /\ hand' \in [Receivers -> Seq(Nat)]
    BY <2>2, <2>3 DEF OnlineInv, Places
  <2>5. ASSUME NEW t \in Receivers PROVE Reached(t)'
    BY <2>1, <2>2, <2>3 DEF OnlineInv, Reached, Kind
  <2>6. OnlineConfirmed'
    BY <2>1, <2>2 DEF OnlineInv, OnlineConfirmed, Kind
  <2>7. QED
    BY <2>1, <2>2, <2>4, <2>5, <2>6 DEF OnlineInv
<1>9. CASE CallSend \/ FallSilent \/ UNCHANGED vars
  BY <1>9, StandsOnline DEF CallSend, FallSilent, vars, Send, SendCut, SendFails
<1>10. CASE \E others \in {<< >>, NackOrResend} : Tick(others)
  BY <1>10, StandsOnline DEF Tick
<1>11. QED
  BY <1>1, <1>2, <1>3, <1>4, <1>5, <1>6, <1>7, <1>8, <1>9, <1>10
     DEF Next, Step, Deliver, Receive

(***************************************************************************)
(* Whatever number of tasks pump the session, it is online only when an     *)
(* acceptance has come and the reply has gone out (reliable_conn.rs:238).   *)
(***************************************************************************)
THEOREM OnlineOnlyConfirmed == Spec => []OnlineConfirmed
<1>1. OnlineInv => OnlineConfirmed
  BY DEF OnlineInv
<1>2. QED
  BY <1>1, OnlineInit, OnlineNext, PTL DEF Spec

-----------------------------------------------------------------------------
(***************************************************************************)
(* Types                                                                    *)
(*                                                                         *)
(* ConfirmOnline takes the head of a hand without looking at it again: that *)
(* TypeOK is kept needs Positions, of every receiver.                       *)
(***************************************************************************)
Hands == Seq(Frames \cup {UnorderedPing})

TasksOK ==
    /\ pc \in [Receivers -> Places]
    /\ call \in [Receivers -> {"none", "recv", "connect"}]
    /\ hand \in [Receivers -> Hands]
    /\ \A t \in Receivers : Positions(t)

EngineOK ==
    /\ stream \in Streams /\ stream \in Seq(Kinds)
    /\ next \in 0 .. Len(stream)
    /\ datagrams \in 0 .. MaxDatagrams
    /\ pending_acks \subseteq 1 .. datagrams

QueuesOK ==
    /\ delivery \in Seq(Frames) /\ Len(delivery) <= DeliveryCapacity
    /\ outgoing \in Seq(SUBSET (1 .. datagrams))
    /\ Len(outgoing) <= OutgoingCapacity
    /\ acked \subseteq 1 .. datagrams

EndsOK ==
    /\ returned \in Seq(Frames)
    /\ handled \subseteq Frames /\ lost \subseteq Frames

FlagsOK ==
    /\ faults \in 0 .. MaxFaults
    /\ silent \in BOOLEAN /\ ticking \in BOOLEAN /\ online \in BOOLEAN
    /\ disconnected \in BOOLEAN /\ failed \in BOOLEAN
    /\ overflowed \in BOOLEAN /\ dropped \in BOOLEAN
    /\ sent \subseteq Handshakes

TypeInv == TasksOK /\ EngineOK /\ QueuesOK /\ EndsOK /\ FlagsOK

LEMMA Numbers ==
  ASSUME EngineOK
  PROVE  /\ Len(stream) \in Nat /\ next \in Nat /\ next <= Len(stream)
         /\ datagrams \in Nat /\ MaxDatagrams \in Nat /\ MaxBatch \in Nat
         /\ DeliveryCapacity \in Nat /\ OutgoingCapacity \in Nat
         /\ MaxFaults \in Nat
<1>1. Len(stream) \in Nat
  BY DEF EngineOK
<1>2. QED
  BY <1>1, SessionAssumption DEF EngineOK

LEMMA HeadTailOf ==
  ASSUME NEW S, NEW s \in Seq(S), s # << >>
  PROVE  Head(s) \in S /\ Tail(s) \in Seq(S) /\ Len(Tail(s)) < Len(s)
OBVIOUS

LEMMA RangeIn ==
  ASSUME NEW S, NEW s \in Seq(S)
  PROVE  Range(s) \subseteq S
BY DEF Range

(* A part of a queue is a queue of the same kind, and holds nothing else.   *)
LEMMA PartOf ==
  ASSUME NEW S, NEW s \in Seq(S), NEW i \in Nat, NEW j \in Nat, i >= 1, j <= Len(s)
  PROVE  /\ SubSeq(s, i, j) \in Seq(S)
         /\ Len(SubSeq(s, i, j)) <= Len(s)
OBVIOUS

LEMMA NothingIn ==
  ASSUME NEW S
  PROVE  << >> \in Seq(S) /\ Len(<< >>) = 0
OBVIOUS

LEMMA OneIn ==
  ASSUME NEW S, NEW x \in S
  PROVE  <<x>> \in Seq(S)
OBVIOUS

LEMMA Wider ==
  ASSUME NEW S, NEW T, S \subseteq T, NEW s \in Seq(S)
  PROVE  s \in Seq(T)
OBVIOUS

(* A step of one task leaves the others where they are.                     *)
LEMMA TaskStep ==
  ASSUME TasksOK, NEW r \in Receivers, NEW h \in Hands, NEW place \in Places,
         pc' = [pc EXCEPT ![r] = place], hand' = [hand EXCEPT ![r] = h],
         call' \in [Receivers -> {"none", "recv", "connect"}],
         place \in {"idle", "check", "pump", "flush"} => h = << >>,
         place = "confirm" => h # << >> /\ Kind(Head(h)) = "accepted",
         UNCHANGED stream
  PROVE  TasksOK'
<1>1. /\ pc' \in [Receivers -> Places]
      /\ hand' \in [Receivers -> Hands]
      /\ pc'[r] = place /\ hand'[r] = h
      /\ \A t \in Receivers \ {r} : pc'[t] = pc[t] /\ hand'[t] = hand[t]
  BY DEF TasksOK
<1>2. Hands' = Hands
  BY DEF Hands, Frames
<1>3. ASSUME NEW t \in Receivers PROVE Positions(t)'
  <2>1. CASE t = r
    BY <1>1, <2>1 DEF Positions, Kind
  <2>2. CASE t # r
    BY <1>1, <2>2 DEF TasksOK, Positions, Kind
  <2>3. QED
    BY <2>1, <2>2
<1>4. QED
  BY <1>1, <1>2, <1>3 DEF TasksOK

LEMMA TasksStand ==
  ASSUME TasksOK, UNCHANGED <<pc, call, hand, stream>>
  PROVE  TasksOK'
BY DEF TasksOK, Positions, Kind, Hands, Frames

LEMMA TaskLeaves ==
  ASSUME TasksOK, NEW r \in Receivers, Leave(r), UNCHANGED stream
  PROVE  TasksOK'
<1>1. << >> \in Hands /\ "idle" \in Places
  BY DEF Hands, Places
<1>2. call' \in [Receivers -> {"none", "recv", "connect"}]
  BY DEF Leave, TasksOK
<1>3. QED
  BY <1>1, <1>2, TaskStep DEF Leave

(* A task goes on to another place with the hand it has.                    *)
LEMMA TaskGoes ==
  ASSUME TasksOK, NEW r \in Receivers, NEW place \in Places,
         pc' = [pc EXCEPT ![r] = place],
         call' \in [Receivers -> {"none", "recv", "connect"}],
         hand' = hand, UNCHANGED stream,
         place \in {"idle", "check", "pump", "flush"} => hand[r] = << >>,
         place = "confirm" =>
             hand[r] # << >> /\ Kind(Head(hand[r])) = "accepted"
  PROVE  TasksOK'
<1>1. hand[r] \in Hands /\ hand' = [hand EXCEPT ![r] = hand[r]]
  BY DEF TasksOK
<1>2. QED
  BY <1>1, TaskStep

LEMMA TaskDrops ==
  ASSUME TasksOK, NEW r \in Receivers, hand[r] # << >>,
         hand' = [hand EXCEPT ![r] = Tail(@)],
         pc' = [pc EXCEPT ![r] = "deliver"], UNCHANGED <<call, stream>>
  PROVE  TasksOK'
<1>1. Tail(hand[r]) \in Hands /\ hand' = [hand EXCEPT ![r] = Tail(hand[r])]
  BY HeadTailOf DEF TasksOK, Hands
<1>2. call' \in [Receivers -> {"none", "recv", "connect"}] /\ "deliver" \in Places
  BY DEF TasksOK, Places
<1>3. QED
  BY <1>1, <1>2, TaskStep

LEMMA TasksNext ==
  ASSUME TypeInv, [Next]_vars
  PROVE  TasksOK'
<1> USE DEF engine, told, tasks, state, wire, ticker
<1>1. TasksOK /\ EngineOK
  BY DEF TypeInv
<1>2. /\ \A t \in Receivers : call[t] \in {"none", "recv", "connect"}
      /\ call \in [Receivers -> {"none", "recv", "connect"}]
  BY <1>1 DEF TasksOK
<1>3. ASSUME NEW r \in Receivers, Leave(r), UNCHANGED stream PROVE TasksOK'
  BY <1>1, <1>3, TaskLeaves
<1>4. ASSUME NEW r \in Receivers, CallConnect(r) \/ CallRecv(r) PROVE TasksOK'
  <2>1. CASE Leave(r)
    BY <1>3, <1>4, <2>1 DEF CallConnect, CallRecv
  <2>2. CASE pc' = [pc EXCEPT ![r] = "check"] /\ hand' = hand
    <3>1. /\ call' \in [Receivers -> {"none", "recv", "connect"}]
          /\ UNCHANGED stream
      <4>1. CASE CallRecv(r)
        BY <1>2, <4>1 DEF CallRecv
      <4>2. CASE CallConnect(r)
        BY <1>1, <1>2, <2>2, <4>2, TaskLeaves
           DEF CallConnect, Broken, Fail, Leave
      <4>3. QED
        BY <1>4, <4>1, <4>2
    <3>2. hand[r] = << >>
      BY <1>1, <1>4 DEF CallConnect, CallRecv, TasksOK, Positions
    <3>3. QED
      BY <1>1, <2>2, <3>1, <3>2, TaskGoes DEF Places
  <2>3. QED
    BY <1>4, <2>1, <2>2 DEF CallConnect, CallRecv, Broken, Fail
<1>5. ASSUME NEW r \in Receivers,
             \/ TakeDelivered(r) \/ CheckOnline(r) \/ PollTimesOut(r)
             \/ AllDelivered(r) \/ Flush(r) \/ ReceiveControl(r)
      PROVE  TasksOK'
  <2>1. UNCHANGED stream
    BY <1>5 DEF TakeDelivered, CheckOnline, PollTimesOut, AllDelivered, Flush,
                ReceiveControl
  <2>2. CASE Leave(r)
    BY <1>3, <2>1, <2>2
  <2>3. CASE /\ hand' = hand
             /\ \/ Goto(r, "pump") /\ pc[r] = "check"
                \/ Goto(r, "flush") /\ pc[r] = "pump"
                \/ Goto(r, "flush") /\ hand[r] = << >>
                \/ Goto(r, "check") /\ pc[r] = "flush"
    <3>1. hand[r] = << >>
      BY <1>1, <2>3 DEF TasksOK, Positions
    <3>2. QED
      BY <1>1, <1>2, <2>1, <2>3, <3>1, TaskGoes DEF Goto, Places
  <2>4. QED
    BY <1>5, <2>2, <2>3
       DEF TakeDelivered, CheckOnline, PollTimesOut, AllDelivered, Flush,
           ReceiveControl, Broken, Fail
<1>6. ASSUME NEW r \in Receivers,
             BadBody(r) \/ ConnectTimesOut(r) \/ PumpFails(r) \/ Cancel(r)
      PROVE  TasksOK'
  BY <1>3, <1>6 DEF BadBody, ConnectTimesOut, PumpFails, Cancel, Broken, Fail
<1>7. ASSUME NEW r \in Receivers, Forward(r) \/ AnswerPing(r) \/ NoteState(r)
      PROVE  TasksOK'
  <2>1. UNCHANGED stream
    BY <1>7 DEF Forward, AnswerPing, NoteState
  <2>2. CASE Leave(r)
    BY <1>3, <2>1, <2>2
  <2>3. CASE pc[r] = "deliver" /\ hand[r] # << >> /\ DropHead(r)
    <3>1. pc' = [pc EXCEPT ![r] = "deliver"] /\ UNCHANGED call
      BY <1>1, <2>3 DEF DropHead, TasksOK
    <3>2. QED
      BY <1>1, <2>1, <2>3, <3>1, TaskDrops DEF DropHead
  <2>4. QED
    BY <1>7, <2>2, <2>3 DEF Forward, AnswerPing, NoteState, Broken, Fail, AtHead
<1>8. ASSUME NEW r \in Receivers, ReplyNewIncoming(r) PROVE TasksOK'
  <2>1. UNCHANGED stream
    BY <1>8 DEF ReplyNewIncoming
  <2>2. CASE Leave(r)
    BY <1>3, <2>1, <2>2
  <2>3. CASE /\ hand' = hand /\ Goto(r, "confirm") /\ AtHead(r, {"accepted"})
    BY <1>1, <1>2, <2>1, <2>3, TaskGoes DEF Goto, AtHead, Places
  <2>4. QED
    BY <1>8, <2>2, <2>3 DEF ReplyNewIncoming, Broken, Fail
<1>9. ASSUME NEW r \in Receivers, ConfirmOnline(r) PROVE TasksOK'
  <2>1. hand[r] # << >>
    BY <1>1, <1>9 DEF ConfirmOnline, TasksOK, Positions
  <2>2. QED
    BY <1>1, <1>9, <2>1, TaskDrops DEF ConfirmOnline, Goto
<1>10. ASSUME NEW r \in Receivers, NEW new \in BOOLEAN,
              NEW unordered \in {<< >>, <<UnorderedPing>>},
              NEW n \in 0 .. MaxBatch, ReceiveDatagram(r, new, unordered, n)
       PROVE  TasksOK'
  <2> DEFINE frames == [i \in 1 .. n |-> next + i]
  <2>1. /\ n \in Nat /\ next \in Nat /\ Len(stream) \in Nat
        /\ next + n <= Len(stream)
    BY <1>1, <1>10, Numbers DEF ReceiveDatagram
  <2>2. \A i \in 1 .. n : next + i \in Frames
    BY <2>1 DEF Frames
  <2>3. frames \in Seq(Frames \cup {UnorderedPing})
    BY <2>1, <2>2
  <2>4. unordered \in Seq(Frames \cup {UnorderedPing})
    <3>1. << >> \in Seq(Frames \cup {UnorderedPing})
      OBVIOUS
    <3>2. <<UnorderedPing>> \in Seq(Frames \cup {UnorderedPing})
      OBVIOUS
    <3>3. QED
      BY <3>1, <3>2
  <2>5. unordered \o frames \in Hands
    <3> HIDE DEF frames
    <3>1. QED
      BY <2>3, <2>4 DEF Hands
  <2>6. /\ hand' = [hand EXCEPT ![r] = unordered \o frames]
        /\ pc' = [pc EXCEPT ![r] = "deliver"] /\ UNCHANGED <<call, stream>>
    BY <1>10 DEF ReceiveDatagram, Goto
  <2> HIDE DEF frames
  <2>7. QED
    BY <1>1, <1>2, <2>5, <2>6, TaskStep DEF Places
<1>11. CASE CallSend \/ FallSilent \/ UNCHANGED vars
  BY <1>1, <1>11, TasksStand DEF CallSend, FallSilent, vars
<1>12. CASE \E others \in {<< >>, NackOrResend} : Tick(others)
  BY <1>1, <1>12, TasksStand DEF Tick
<1>13. QED
  BY <1>4, <1>5, <1>6, <1>7, <1>8, <1>9, <1>10, <1>11, <1>12
     DEF Next, Step, Deliver, Receive

LEMMA EngineNext ==
  ASSUME TypeInv, [Next]_vars
  PROVE  EngineOK' /\ datagrams <= datagrams' /\ UNCHANGED stream
<1> USE DEF engine, told, tasks, state, wire, ticker
<1> DEFINE Goal == EngineOK' /\ datagrams <= datagrams' /\ UNCHANGED stream
<1>1. EngineOK
  BY DEF TypeInv
<1>2. ASSUME UNCHANGED <<stream, next, datagrams>>,
             pending_acks' = pending_acks \/ pending_acks' = {}
      PROVE  Goal
  <2>1. datagrams <= datagrams'
    BY <1>1, <1>2, Numbers
  <2>2. pending_acks' \subseteq 1 .. datagrams
    BY <1>1, <1>2 DEF EngineOK
  <2>3. QED
    BY <1>1, <1>2, <2>1, <2>2 DEF EngineOK
<1>3. ASSUME UNCHANGED stream, next' \in 0 .. Len(stream),
             NEW new \in BOOLEAN, Recorded(new)
      PROVE  Goal
  <2>1. datagrams' \in 0 .. MaxDatagrams /\ datagrams' = datagrams + 1
        /\ datagrams <= datagrams'
    BY <1>1, <1>3, Numbers DEF Recorded, EngineOK
  <2>2. pending_acks' \subseteq 1 .. datagrams'
    BY <1>1, <1>3, <2>1, Numbers DEF Recorded, EngineOK
  <2>3. QED
    BY <1>1, <1>3, <2>1, <2>2 DEF EngineOK
<1>4. CASE UNCHANGED <<stream, engine>>
  BY <1>2, <1>4
<1>5. ASSUME NEW r \in Receivers, Receive(r) PROVE Goal
  <2>1. ASSUME NEW new \in BOOLEAN, NEW unordered \in {<< >>, <<UnorderedPing>>},
               NEW n \in 0 .. MaxBatch, ReceiveDatagram(r, new, unordered, n)
        PROVE  Goal
    <3>1. next' \in 0 .. Len(stream) /\ UNCHANGED stream
      BY <1>1, <2>1, Numbers DEF ReceiveDatagram
    <3>2. QED
      BY <1>3, <2>1, <3>1 DEF ReceiveDatagram
  <2>2. CASE ReceiveControl(r)
    BY <1>4, <2>2 DEF ReceiveControl
  <2>3. CASE PumpFails(r)
    <3>1. CASE UNCHANGED engine
      BY <1>4, <2>3, <3>1 DEF PumpFails
    <3>2. ASSUME NEW new \in BOOLEAN, Recorded(new) /\ UNCHANGED next PROVE Goal
      <4>1. next' \in 0 .. Len(stream) /\ UNCHANGED stream
        BY <1>1, <2>3, <3>2 DEF EngineOK, PumpFails
      <4>2. QED
        BY <1>3, <3>2, <4>1
    <3>3. QED
      BY <2>3, <3>1, <3>2 DEF PumpFails
  <2>4. QED
    BY <1>5, <2>1, <2>2, <2>3 DEF Receive
<1>6. CASE FallSilent
  BY <1>2, <1>6 DEF FallSilent
<1>7. CASE \E others \in {<< >>, NackOrResend} : Tick(others)
  BY <1>2, <1>7 DEF Tick
<1>8. ASSUME NEW r \in Receivers,
             CallConnect(r) \/ Step(r) \/ ConnectTimesOut(r) \/ Cancel(r)
      PROVE  UNCHANGED <<stream, engine>>
  <2>1. CASE CallConnect(r) \/ ConnectTimesOut(r) \/ Cancel(r)
    BY <2>1 DEF CallConnect, ConnectTimesOut, Cancel
  <2>2. CASE \/ CallRecv(r) \/ TakeDelivered(r) \/ CheckOnline(r)
             \/ PollTimesOut(r) \/ Flush(r)
    BY <2>2 DEF CallRecv, TakeDelivered, CheckOnline, PollTimesOut, Flush
  <2>3. CASE Deliver(r)
    BY <2>3 DEF Deliver, Forward, AnswerPing, ReplyNewIncoming, ConfirmOnline,
                NoteState, BadBody, AllDelivered
  <2>4. QED
    BY <1>8, <2>1, <2>2, <2>3 DEF Step
<1>9. CASE CallSend \/ UNCHANGED vars
  BY <1>4, <1>9 DEF CallSend, vars
<1>10. QED
  BY <1>4, <1>5, <1>6, <1>7, <1>8, <1>9 DEF Next

(* What a flush, whole or cut short, and a tick make of the tick task's     *)
(* queue.                                                                   *)
LEMMA GivenAre ==
  ASSUME QueuesOK, NEW ks \in SUBSET DOMAIN outgoing, NEW refused,
         GiveToSocket(ks, refused)
  PROVE  acked' \subseteq 1 .. datagrams
<1>1. \A k \in DOMAIN outgoing : outgoing[k] \subseteq 1 .. datagrams
  BY DEF QueuesOK
<1>2. UNION { outgoing[k] : k \in ks \ refused } \subseteq 1 .. datagrams
  BY <1>1
<1>3. QED
  BY <1>2 DEF GiveToSocket, QueuesOK

LEMMA FlushOf ==
  ASSUME QueuesOK, FlushOutgoing \/ FlushCut
  PROVE  /\ outgoing' \in Seq(SUBSET (1 .. datagrams))
         /\ Len(outgoing') <= OutgoingCapacity
         /\ acked' \subseteq 1 .. datagrams
<1>1. /\ outgoing \in Seq(SUBSET (1 .. datagrams)) /\ Len(outgoing) \in Nat
      /\ Len(outgoing) <= OutgoingCapacity /\ acked \subseteq 1 .. datagrams
      /\ OutgoingCapacity \in Nat
  BY SessionAssumption DEF QueuesOK
<1>2. CASE FlushOutgoing
  <2>1. << >> \in Seq(SUBSET (1 .. datagrams)) /\ Len(<< >>) = 0
    BY NothingIn
  <2>2. outgoing' = << >> /\ acked' \subseteq 1 .. datagrams
    BY <1>2, GivenAre DEF FlushOutgoing
  <2>3. QED
    BY <1>1, <2>1, <2>2
<1>3. CASE UNCHANGED <<outgoing, acked>>
  BY <1>1, <1>3
<1>4. ASSUME NEW k \in DOMAIN outgoing, NEW refused,
             outgoing' = SubSeq(outgoing, k + 1, Len(outgoing)),
             GiveToSocket(1 .. k - 1, refused)
      PROVE  /\ outgoing' \in Seq(SUBSET (1 .. datagrams))
             /\ Len(outgoing') <= OutgoingCapacity
             /\ acked' \subseteq 1 .. datagrams
  <2>1. k \in Nat /\ k >= 1 /\ k <= Len(outgoing) /\ k + 1 \in Nat
        /\ 1 .. k - 1 \in SUBSET DOMAIN outgoing
    BY <1>1
  <2>2. outgoing' \in Seq(SUBSET (1 .. datagrams))
        /\ Len(outgoing') <= Len(outgoing)
    BY <1>1, <1>4, <2>1, PartOf
  <2>3. Len(outgoing') \in Nat
    BY <2>2
  <2>4. Len(outgoing') <= OutgoingCapacity
    BY <1>1, <2>2, <2>3
  <2>5. acked' \subseteq 1 .. datagrams
    BY <1>4, <2>1, GivenAre
  <2>6. QED
    BY <2>2, <2>4, <2>5
<1>5. QED
  BY <1>2, <1>3, <1>4 DEF FlushCut

(* try_send of some packets: as many as there is room for.                  *)
LEMMA TickOf ==
  ASSUME TypeInv, NEW others \in {<< >>, NackOrResend}, Tick(others), ~silent
  PROVE  /\ outgoing' \in Seq(SUBSET (1 .. datagrams))
         /\ Len(outgoing') <= OutgoingCapacity
         /\ \/ overflowed' /\ Len(outgoing') = OutgoingCapacity
            \/ /\ pending_acks \subseteq UNION Range(outgoing')
               /\ UNION Range(outgoing) \subseteq UNION Range(outgoing')
            \/ dropped' /\ faults' = faults + 1
<1>a. PICK encoded \in {pending_acks, {}} :
        LET acks    == IF encoded = {} THEN << >> ELSE <<encoded>>
            packets == acks \o others
            room    == OutgoingCapacity - Len(outgoing)
            fits    == IF Len(packets) <= room THEN Len(packets) ELSE room
        IN  /\ \/ encoded = pending_acks
               \/ dropped' = TRUE /\ faults' = faults + 1
            /\ outgoing' = outgoing \o SubSeq(packets, 1, fits)
            /\ overflowed' = (overflowed \/ fits < Len(packets))
  BY DEF Tick, Fault
<1> DEFINE own     == IF encoded = {} THEN << >> ELSE <<encoded>>
           packets == own \o others
           room    == OutgoingCapacity - Len(outgoing)
           fits    == IF Len(packets) <= room THEN Len(packets) ELSE room
<1>1. /\ outgoing \in Seq(SUBSET (1 .. datagrams))
      /\ Len(outgoing) <= OutgoingCapacity /\ OutgoingCapacity \in Nat
      /\ pending_acks \in SUBSET (1 .. datagrams)
  BY Numbers DEF TypeInv, QueuesOK, EngineOK
<1>2. own \in Seq(SUBSET (1 .. datagrams)) /\ others \in Seq(SUBSET (1 .. datagrams))
  BY <1>1, NothingIn, OneIn DEF NackOrResend
<1>3. outgoing' = outgoing \o SubSeq(packets, 1, fits)
      /\ overflowed' = (overflowed \/ fits < Len(packets))
  BY <1>a
<1>4. encoded # {} => Len(own) = 1 /\ own[1] = encoded
  OBVIOUS
<1> HIDE DEF own
<1>5. packets \in Seq(SUBSET (1 .. datagrams))
      /\ (encoded # {} => encoded \in Range(packets))
  <2>1. /\ packets \in Seq(SUBSET (1 .. datagrams))
        /\ Len(packets) = Len(own) + Len(others)
        /\ \A i \in 1 .. Len(own) : packets[i] = own[i]
        /\ Len(own) \in Nat /\ Len(others) \in Nat
    BY <1>2
  <2> HIDE DEF packets
  <2>2. CASE encoded # {}
    <3>1. packets[1] = encoded /\ 1 \in DOMAIN packets
      BY <1>4, <2>1, <2>2
    <3>2. QED
      BY <2>1, <3>1 DEF Range
  <2>3. QED
    BY <2>1, <2>2
<1> HIDE DEF packets
<1>6. PICK S, p, taken, first :
         /\ S = SUBSET (1 .. datagrams) /\ p = packets
         /\ taken = IF Len(p) <= OutgoingCapacity - Len(outgoing)
                   THEN Len(p) ELSE OutgoingCapacity - Len(outgoing)
         /\ first = SubSeq(p, 1, taken)
  OBVIOUS
<1>7. /\ outgoing \in Seq(S) /\ p \in Seq(S) /\ outgoing' = outgoing \o first
      /\ overflowed' = (overflowed \/ taken < Len(p))
  BY <1>1, <1>3, <1>5, <1>6
<1>8. /\ Len(outgoing) \in Nat /\ Len(p) \in Nat /\ taken \in Nat
      /\ taken <= Len(p) /\ Len(outgoing) + taken <= OutgoingCapacity
      /\ taken < Len(p) => Len(outgoing) + taken = OutgoingCapacity
  BY <1>1, <1>6, <1>7
<1>9. first \in Seq(S) /\ Len(first) = taken /\ \A i \in 1 .. taken : first[i] = p[i]
  BY <1>6, <1>7, <1>8
<1>10. /\ outgoing' \in Seq(S) /\ Len(outgoing') = Len(outgoing) + taken
       /\ \A i \in 1 .. Len(outgoing) : outgoing'[i] = outgoing[i]
       /\ \A i \in 1 .. taken : outgoing'[Len(outgoing) + i] = first[i]
  <2>1. PICK q : q = outgoing
    OBVIOUS
  <2>2. q \in Seq(S) /\ first \in Seq(S) /\ Len(first) = taken
    BY <1>7, <1>9, <2>1
  <2>3. q \o first \in Seq(S) /\ Len(q \o first) = Len(q) + taken
    BY <2>2
  <2>4. \A i \in 1 .. Len(q) : (q \o first)[i] = q[i]
    BY <2>2
  <2>5. \A i \in 1 .. taken : (q \o first)[Len(q) + i] = first[i]
    BY <1>8, <2>1, <2>2
  <2>6. QED
    BY <1>7, <2>1, <2>3, <2>4, <2>5
<1>11. /\ \A i \in 1 .. Len(outgoing) : i \in 1 .. Len(outgoing')
       /\ \A i \in 1 .. taken : Len(outgoing) + i \in 1 .. Len(outgoing')
  BY <1>8, <1>10
<1>12. /\ DOMAIN outgoing = 1 .. Len(outgoing) /\ DOMAIN p = 1 .. Len(p)
       /\ DOMAIN outgoing' = 1 .. Len(outgoing')
  BY <1>7, <1>10
<1>13. Range(outgoing) \subseteq Range(outgoing')
  BY <1>10, <1>11, <1>12 DEF Range
<1>14. outgoing' \in Seq(SUBSET (1 .. datagrams))
       /\ Len(outgoing') <= OutgoingCapacity
  BY <1>6, <1>8, <1>10
<1>15. CASE taken < Len(p)
  BY <1>7, <1>8, <1>10, <1>14, <1>15
<1>16. CASE taken = Len(p)
  <2>1. Range(p) \subseteq Range(outgoing')
    BY <1>9, <1>10, <1>11, <1>12, <1>16 DEF Range
  <2>2. encoded # {} => encoded \in Range(outgoing')
    BY <1>5, <1>6, <2>1
  <2>4. encoded = pending_acks => pending_acks \subseteq UNION Range(outgoing')
    BY <2>2
  <2>3. QED
    BY <1>a, <1>13, <1>14, <2>4
<1>17. QED
  BY <1>8, <1>15, <1>16

(* Who touches which queue: only the tick task adds to its queue, only a    *)
(* flush takes from it, and one cut short spends a fault.                   *)
LEMMA WhoFlushes ==
  ASSUME [Next]_vars
  PROVE  \/ FlushOutgoing
         \/ UNCHANGED <<outgoing, acked>>
         \/ FlushCut /\ faults' = faults + 1
         \/ \E others \in {<< >>, NackOrResend} : Tick(others)
<1> USE DEF engine, told, tasks, state, ticker
<1> DEFINE Goal == \/ FlushOutgoing
                   \/ UNCHANGED <<outgoing, acked>>
                   \/ FlushCut /\ faults' = faults + 1
<1>1. ASSUME NEW kind, SendCut(kind), faults' = faults + 1 PROVE Goal
  BY <1>1 DEF SendCut, SendFails, wire
<1>2. ASSUME NEW kind, Send(kind) PROVE Goal
  BY <1>2 DEF Send
<1>3. ASSUME UNCHANGED <<outgoing, wire>> PROVE Goal
  BY <1>3 DEF wire
<1>4. ASSUME NEW r \in Receivers,
             CallConnect(r) \/ AnswerPing(r) \/ ReplyNewIncoming(r)
      PROVE  Goal
  BY <1>1, <1>2, <1>4 DEF CallConnect, AnswerPing, ReplyNewIncoming, Broken, Fault
<1>5. ASSUME NEW r \in Receivers, Cancel(r) PROVE Goal
  BY <1>5 DEF Cancel, Broken, Fault, SendFails, wire
<1>6. ASSUME NEW r \in Receivers, Receive(r) \/ ConnectTimesOut(r) PROVE Goal
  BY <1>3, <1>6 DEF Receive, ReceiveDatagram, ReceiveControl, PumpFails,
                    ConnectTimesOut
<1>7. ASSUME NEW r \in Receivers,
             \/ CallRecv(r) \/ TakeDelivered(r) \/ CheckOnline(r)
             \/ PollTimesOut(r)
      PROVE  Goal
  BY <1>3, <1>7 DEF CallRecv, TakeDelivered, CheckOnline, PollTimesOut
<1>8. ASSUME NEW r \in Receivers,
             \/ Forward(r) \/ ConfirmOnline(r) \/ NoteState(r) \/ BadBody(r)
             \/ AllDelivered(r)
      PROVE  Goal
  BY <1>3, <1>8 DEF Forward, ConfirmOnline, NoteState, BadBody, AllDelivered
<1>9. ASSUME NEW r \in Receivers, Flush(r) PROVE Goal
  BY <1>9 DEF Flush
<1>10. ASSUME CallSend PROVE Goal
  BY <1>1, <1>2, <1>10 DEF CallSend, Fault
<1>11. ASSUME FallSilent \/ UNCHANGED vars PROVE Goal
  BY <1>3, <1>11 DEF FallSilent, vars
<1>12. QED
  BY <1>4, <1>5, <1>6, <1>7, <1>8, <1>9, <1>10, <1>11
     DEF Next, Step, Deliver

LEMMA WhoDelivers ==
  ASSUME [Next]_vars
  PROVE  \/ UNCHANGED delivery
         \/ delivery # << >> /\ delivery' = Tail(delivery)
         \/ \E t \in Receivers :
               /\ AtHead(t, {"app"}) /\ Len(delivery) < DeliveryCapacity
               /\ delivery' = Append(delivery, Head(hand[t]))
<1> USE DEF engine, told, tasks, state, wire, ticker
<1> DEFINE Goal == \/ UNCHANGED delivery
                   \/ delivery # << >> /\ delivery' = Tail(delivery)
                   \/ \E t \in Receivers :
                         /\ AtHead(t, {"app"}) /\ Len(delivery) < DeliveryCapacity
                         /\ delivery' = Append(delivery, Head(hand[t]))
<1>1. ASSUME NEW r \in Receivers,
             CallConnect(r) \/ ConnectTimesOut(r) \/ Receive(r) \/ Cancel(r)
      PROVE  UNCHANGED delivery
  BY <1>1 DEF CallConnect, ConnectTimesOut, Cancel, Receive, ReceiveDatagram,
              ReceiveControl, PumpFails
<1>2. ASSUME NEW r \in Receivers,
             CallRecv(r) \/ CheckOnline(r) \/ PollTimesOut(r) \/ Flush(r)
      PROVE  UNCHANGED delivery
  BY <1>2 DEF CallRecv, CheckOnline, PollTimesOut, Flush
<1>3. ASSUME NEW r \in Receivers,
             \/ AnswerPing(r) \/ ReplyNewIncoming(r) \/ ConfirmOnline(r)
             \/ NoteState(r) \/ BadBody(r) \/ AllDelivered(r)
      PROVE  UNCHANGED delivery
  BY <1>3 DEF AnswerPing, ReplyNewIncoming, ConfirmOnline, NoteState, BadBody,
              AllDelivered
<1>4. ASSUME NEW r \in Receivers, Forward(r) PROVE Goal
  BY <1>4 DEF Forward
<1>5. ASSUME NEW r \in Receivers, TakeDelivered(r) PROVE Goal
  BY <1>5 DEF TakeDelivered
<1>6. CASE CallSend \/ FallSilent \/ UNCHANGED vars
  BY <1>6 DEF CallSend, FallSilent, vars
<1>7. CASE \E others \in {<< >>, NackOrResend} : Tick(others)
  BY <1>7 DEF Tick
<1>8. QED
  BY <1>1, <1>2, <1>3, <1>4, <1>5, <1>6, <1>7 DEF Next, Step, Deliver

LEMMA QueuesNext ==
  ASSUME TypeInv, [Next]_vars
  PROVE  QueuesOK'
<1>1. /\ EngineOK' /\ datagrams <= datagrams' /\ UNCHANGED stream
      /\ datagrams \in Nat /\ datagrams' \in Nat
  BY EngineNext, Numbers DEF TypeInv, EngineOK
<1>2. /\ 1 .. datagrams \subseteq 1 .. datagrams'
      /\ SUBSET (1 .. datagrams) \subseteq SUBSET (1 .. datagrams')
  BY <1>1
<1>3. /\ outgoing' \in Seq(SUBSET (1 .. datagrams))
      /\ Len(outgoing') <= OutgoingCapacity
      /\ acked' \subseteq 1 .. datagrams
  <2>1. QueuesOK
    BY DEF TypeInv
  <2>2. CASE FlushOutgoing \/ FlushCut
    BY <2>1, <2>2, FlushOf
  <2>3. ASSUME NEW others \in {<< >>, NackOrResend}, Tick(others)
        PROVE  /\ outgoing' \in Seq(SUBSET (1 .. datagrams))
               /\ Len(outgoing') <= OutgoingCapacity
               /\ acked' \subseteq 1 .. datagrams
    <3>1. acked' = acked /\ acked \subseteq 1 .. datagrams
      BY <2>1, <2>3 DEF Tick, QueuesOK, wire
    <3>2. CASE silent
      BY <2>1, <2>3, <3>1, <3>2 DEF Tick, QueuesOK
    <3>3. CASE ~silent
      BY <2>3, <3>1, <3>3, TickOf
    <3>4. QED
      BY <3>2, <3>3
  <2>4. CASE UNCHANGED <<outgoing, acked>>
    BY <2>1, <2>4 DEF QueuesOK
  <2>5. QED
    BY <2>2, <2>3, <2>4, WhoFlushes
<1>4. outgoing' \in Seq(SUBSET (1 .. datagrams')) /\ acked' \subseteq 1 .. datagrams'
  BY <1>2, <1>3, Wider
<1>5. delivery' \in Seq(Frames) /\ Len(delivery') <= DeliveryCapacity
  <2>1. /\ delivery \in Seq(Frames) /\ Len(delivery) \in Nat
        /\ Len(delivery) <= DeliveryCapacity /\ DeliveryCapacity \in Nat
    BY Numbers DEF TypeInv, QueuesOK
  <2>2. CASE UNCHANGED delivery
    BY <2>1, <2>2
  <2>3. CASE delivery # << >> /\ delivery' = Tail(delivery)
    <3>1. delivery' \in Seq(Frames) /\ Len(delivery') < Len(delivery)
          /\ Len(delivery') \in Nat
      BY <2>1, <2>3, HeadTailOf
    <3>2. QED
      BY <2>1, <3>1
  <2>4. ASSUME NEW t \in Receivers,
               AtHead(t, {"app"}), Len(delivery) < DeliveryCapacity,
               delivery' = Append(delivery, Head(hand[t]))
        PROVE  delivery' \in Seq(Frames) /\ Len(delivery') <= DeliveryCapacity
    <3>1. hand[t] \in Seq(Frames \cup {UnorderedPing}) /\ hand[t] # << >>
      BY <2>4 DEF TypeInv, TasksOK, Hands, AtHead
    <3>2. Head(hand[t]) \in Frames
      BY <2>4, <3>1, HeadTailOf DEF AtHead, Kind
    <3>3. delivery' \in Seq(Frames) /\ Len(delivery') = Len(delivery) + 1
      BY <2>1, <2>4, <3>2
    <3>4. QED
      BY <2>1, <2>4, <3>3
  <2>5. QED
    BY <2>2, <2>3, <2>4, WhoDelivers
<1>6. Frames' = Frames
  BY <1>1 DEF Frames
<1>7. QED
  BY <1>3, <1>4, <1>5, <1>6 DEF QueuesOK

LEMMA EndsNext ==
  ASSUME TypeInv, [Next]_vars
  PROVE  EndsOK'
<1> USE DEF engine, told, tasks, state, wire, ticker
<1> DEFINE Ends == /\ returned' \in Seq(Frames)
                   /\ handled' \subseteq Frames /\ lost' \subseteq Frames
<1>1. /\ returned \in Seq(Frames) /\ handled \subseteq Frames
      /\ lost \subseteq Frames /\ delivery \in Seq(Frames)
      /\ \A t \in Receivers : hand[t] \in Seq(Frames \cup {UnorderedPing})
  BY DEF TypeInv, EndsOK, QueuesOK, TasksOK, Hands
<1>2. \A t \in Receivers : Range(hand[t]) \ {UnorderedPing} \subseteq Frames
  BY <1>1, RangeIn
<1>3. ASSUME NEW r \in Receivers, Leave(r) PROVE lost' \subseteq Frames
  BY <1>1, <1>2, <1>3 DEF Leave
<1>4. ASSUME NEW r \in Receivers, Fail(r) PROVE Ends
  BY <1>1, <1>3, <1>4 DEF Fail
<1>5. ASSUME NEW r \in Receivers, Broken(r) PROVE Ends
  BY <1>4, <1>5 DEF Broken
<1>6. ASSUME NEW r \in Receivers, HandledHead(r), hand[r] # << >> PROVE Ends
  <2>1. Head(hand[r]) \in Frames \cup {UnorderedPing}
    BY <1>1, <1>6, HeadTailOf
  <2>2. QED
    BY <1>1, <1>6, <2>1 DEF HandledHead
<1>7. ASSUME UNCHANGED told PROVE Ends
  BY <1>1, <1>7
<1>8. ASSUME NEW r \in Receivers, CallConnect(r) \/ CallRecv(r) \/ CheckOnline(r)
      PROVE  Ends
  BY <1>1, <1>3, <1>4, <1>5, <1>8 DEF CallConnect, CallRecv, CheckOnline
<1>9. ASSUME NEW r \in Receivers, TakeDelivered(r) PROVE Ends
  <2>1. CASE delivery # << >>
    <3>1. Append(returned, Head(delivery)) \in Seq(Frames)
      BY <1>1, <2>1, HeadTailOf
    <3>2. QED
      BY <1>1, <1>3, <1>9, <2>1, <3>1 DEF TakeDelivered
  <2>2. QED
    BY <1>1, <1>9, <2>1 DEF TakeDelivered
<1>10. ASSUME NEW r \in Receivers, PollTimesOut(r) \/ Flush(r) \/ AllDelivered(r)
       PROVE  Ends
  BY <1>1, <1>10 DEF PollTimesOut, Flush, AllDelivered
<1>11. ASSUME NEW r \in Receivers, Forward(r) \/ BadBody(r) \/ ConnectTimesOut(r)
       PROVE  Ends
  BY <1>1, <1>4, <1>11 DEF Forward, BadBody, ConnectTimesOut
<1>12. ASSUME NEW r \in Receivers,
              AnswerPing(r) \/ NoteState(r) \/ ReplyNewIncoming(r)
       PROVE  Ends
  BY <1>1, <1>5, <1>6, <1>12 DEF AnswerPing, NoteState, ReplyNewIncoming, AtHead
<1>13. ASSUME NEW r \in Receivers, ConfirmOnline(r) PROVE Ends
  <2>1. hand[r] # << >>
    BY <1>13 DEF TypeInv, TasksOK, Positions, ConfirmOnline
  <2>2. QED
    BY <1>6, <1>13, <2>1 DEF ConfirmOnline
<1>14. ASSUME NEW r \in Receivers, Receive(r) \/ Cancel(r) PROVE Ends
  BY <1>1, <1>5, <1>14
     DEF Receive, ReceiveDatagram, ReceiveControl, PumpFails, Cancel
<1>15. ASSUME CallSend \/ FallSilent \/ UNCHANGED vars PROVE Ends
  BY <1>7, <1>15 DEF CallSend, FallSilent, vars
<1>16. ASSUME NEW others \in {<< >>, NackOrResend}, Tick(others) PROVE Ends
  BY <1>7, <1>16 DEF Tick
<1>17. Ends
  BY <1>8, <1>9, <1>10, <1>11, <1>12, <1>13, <1>14, <1>15, <1>16
     DEF Next, Step, Deliver
<1>18. Frames' = Frames
  BY EngineNext DEF Frames
<1>19. QED
  BY <1>17, <1>18 DEF EndsOK

LEMMA FlagsNext ==
  ASSUME TypeInv, [Next]_vars
  PROVE  FlagsOK'
<1> USE DEF engine, told, tasks, state, wire, ticker
<1>1. FlagsOK
  BY DEF TypeInv
<1>2. MaxFaults \in Nat
  BY Numbers DEF TypeInv
<1>3. ASSUME NEW r \in Receivers, Broken(r)
      PROVE  faults' \in 0 .. MaxFaults /\ failed' \in BOOLEAN
  <2>1. faults' \in 0 .. MaxFaults
    BY <1>1, <1>2, <1>3 DEF Broken, Fault, FlagsOK
  <2>2. QED
    BY <1>3, <2>1 DEF Broken, Fail
<1>4. ASSUME NEW kind, Send(kind) \/ SendCut(kind)
      PROVE  sent' \subseteq Handshakes /\ dropped' \in BOOLEAN
  BY <1>1, <1>4
     DEF FlagsOK, Send, SendCut, SendFails, FlushOutgoing, FlushCut, Handshakes
<1>b. ASSUME FlushOutgoing
      PROVE  faults' \in 0 .. MaxFaults /\ dropped' \in BOOLEAN
  <2>1. \/ UNCHANGED <<faults, dropped>>
        \/ faults < MaxFaults /\ faults' = faults + 1 /\ dropped' = TRUE
    BY <1>b DEF FlushOutgoing, Fault
  <2>2. faults \in 0 .. MaxFaults /\ dropped \in BOOLEAN
    BY <1>1 DEF FlagsOK
  <2>3. faults' \in 0 .. MaxFaults
    BY <1>2, <2>1, <2>2
  <2>4. dropped' = dropped \/ dropped' = TRUE
    BY <2>1
  <2>5. QED
    BY <2>2, <2>3, <2>4
<1>c. ASSUME NEW kind, Send(kind) PROVE faults' \in 0 .. MaxFaults
  BY <1>b, <1>c DEF Send
<1>5. ASSUME NEW r \in Receivers, CallConnect(r) \/ CallRecv(r) \/ CheckOnline(r)
      PROVE  FlagsOK'
  <2>1. CASE CallConnect(r)
    <3>1. /\ sent' \subseteq Handshakes /\ dropped' \in BOOLEAN
          /\ faults' \in 0 .. MaxFaults /\ failed' \in BOOLEAN
      BY <1>1, <1>3, <1>4, <1>c, <2>1 DEF CallConnect, FlagsOK
    <3>2. QED
      BY <1>1, <2>1, <3>1 DEF CallConnect, FlagsOK
  <2>2. CASE CallRecv(r)
    BY <1>1, <2>2 DEF CallRecv, FlagsOK
  <2>3. CASE CheckOnline(r)
    BY <1>1, <2>3 DEF CheckOnline, Fail, FlagsOK
  <2>4. QED
    BY <1>5, <2>1, <2>2, <2>3
<1>6. ASSUME NEW r \in Receivers, TakeDelivered(r) \/ PollTimesOut(r) \/ AllDelivered(r)
      PROVE  FlagsOK'
  BY <1>1, <1>6 DEF TakeDelivered, PollTimesOut, AllDelivered, FlagsOK
<1>7. ASSUME NEW r \in Receivers, Flush(r) PROVE FlagsOK'
  BY <1>1, <1>7, <1>b DEF Flush, FlagsOK
<1>8. ASSUME NEW r \in Receivers, Forward(r) \/ BadBody(r) \/ ConnectTimesOut(r)
      PROVE  FlagsOK'
  BY <1>1, <1>8 DEF Forward, BadBody, ConnectTimesOut, Fail, FlagsOK
<1>9. ASSUME NEW r \in Receivers, AnswerPing(r) \/ ReplyNewIncoming(r)
      PROVE  FlagsOK'
  <2>1. sent' \subseteq Handshakes /\ dropped' \in BOOLEAN
    BY <1>4, <1>9 DEF AnswerPing, ReplyNewIncoming
  <2>2. faults' \in 0 .. MaxFaults /\ failed' \in BOOLEAN
    BY <1>1, <1>3, <1>c, <1>9 DEF AnswerPing, ReplyNewIncoming, HandledHead, FlagsOK
  <2>3. UNCHANGED <<silent, ticker, state>>
    BY <1>9 DEF AnswerPing, ReplyNewIncoming
  <2>4. QED
    BY <1>1, <2>1, <2>2, <2>3 DEF FlagsOK
<1>10. ASSUME NEW r \in Receivers, ConfirmOnline(r) \/ NoteState(r) PROVE FlagsOK'
  BY <1>1, <1>10 DEF ConfirmOnline, NoteState, HandledHead, FlagsOK
<1>11. ASSUME NEW r \in Receivers, Cancel(r) PROVE FlagsOK'
  <2>1. faults' \in 0 .. MaxFaults /\ failed' \in BOOLEAN
    BY <1>3, <1>11 DEF Cancel
  <2>2. sent' = sent /\ dropped' \in BOOLEAN /\ UNCHANGED <<silent, ticker, state>>
    BY <1>1, <1>11 DEF Cancel, SendFails, FlushCut, FlagsOK
  <2>3. QED
    BY <1>1, <2>1, <2>2 DEF FlagsOK
<1>12. ASSUME NEW r \in Receivers, Receive(r) PROVE FlagsOK'
  <2>1. faults' \in 0 .. MaxFaults /\ failed' \in BOOLEAN
    BY <1>1, <1>3, <1>12
       DEF Receive, ReceiveDatagram, ReceiveControl, PumpFails, FlagsOK
  <2>2. silent' \in BOOLEAN /\ UNCHANGED <<ticker, state, wire>>
    BY <1>1, <1>12 DEF Receive, ReceiveDatagram, ReceiveControl, PumpFails,
                       Recorded, FlagsOK
  <2>3. QED
    BY <1>1, <2>1, <2>2 DEF FlagsOK
<1>13. CASE CallSend
  <2>1. sent' \subseteq Handshakes /\ dropped' \in BOOLEAN
    BY <1>4, <1>13 DEF CallSend
  <2>2. faults' \in 0 .. MaxFaults
    BY <1>1, <1>2, <1>c, <1>13 DEF CallSend, Fault, FlagsOK
  <2>3. QED
    BY <1>1, <1>13, <2>1, <2>2 DEF CallSend, FlagsOK
<1>14. CASE FallSilent \/ UNCHANGED vars
  BY <1>1, <1>14 DEF FallSilent, vars, FlagsOK
<1>15. CASE \E others \in {<< >>, NackOrResend} : Tick(others)
  <2>1. PICK others \in {<< >>, NackOrResend} : Tick(others)
    BY <1>15
  <2>2. \/ UNCHANGED <<faults, dropped>>
        \/ faults < MaxFaults /\ faults' = faults + 1 /\ dropped' = TRUE
    BY <2>1 DEF Tick, Fault
  <2>3. ticking' \in BOOLEAN /\ overflowed' \in BOOLEAN
    <3>1. \/ ticking' = FALSE /\ UNCHANGED overflowed
          \/ UNCHANGED ticking /\ (overflowed' \in BOOLEAN)
      BY <2>1 DEF Tick
    <3>2. QED
      BY <1>1, <3>1 DEF FlagsOK
  <2>4. UNCHANGED <<silent, state, failed, sent>>
    BY <2>1 DEF Tick
  <2>5. faults' \in 0 .. MaxFaults /\ dropped' \in BOOLEAN
    <3>1. faults \in 0 .. MaxFaults /\ dropped \in BOOLEAN
      BY <1>1 DEF FlagsOK
    <3>2. faults' \in 0 .. MaxFaults
      BY <1>2, <2>2, <3>1
    <3>3. dropped' = dropped \/ dropped' = TRUE
      BY <2>2
    <3>4. QED
      BY <3>1, <3>2, <3>3
  <2>6. QED
    BY <1>1, <2>3, <2>4, <2>5 DEF FlagsOK
<1>16. QED
  BY <1>5, <1>6, <1>7, <1>8, <1>9, <1>10, <1>11, <1>12, <1>13, <1>14, <1>15
     DEF Next, Step, Deliver

LEMMA TypeInit == Init => TypeInv
<1> SUFFICES ASSUME Init PROVE TypeInv
  OBVIOUS
<1>1. EngineOK
  <2>1. stream \in Streams /\ stream \in Seq(Kinds) /\ Len(stream) \in Nat
    BY SessionAssumption DEF Init
  <2>2. MaxDatagrams \in Nat
    BY SessionAssumption
  <2>3. QED
    BY <2>1, <2>2 DEF Init, EngineOK
<1>2. TasksOK
  <2>1. << >> \in Hands
    BY DEF Hands
  <2>2. QED
    BY <2>1 DEF Init, TasksOK, Places, Positions
<1>3. QueuesOK
  BY <1>1, Numbers, NothingIn DEF Init, QueuesOK
<1>4. EndsOK
  BY NothingIn DEF Init, EndsOK
<1>5. FlagsOK
  <2>1. MaxFaults \in Nat
    BY <1>1, Numbers
  <2>2. faults \in 0 .. MaxFaults
    BY <2>1 DEF Init
  <2>3. QED
    BY <2>2 DEF Init, FlagsOK
<1>6. QED
  BY <1>1, <1>2, <1>3, <1>4, <1>5 DEF TypeInv

LEMMA TypeNext == TypeInv /\ [Next]_vars => TypeInv'
BY TasksNext, EngineNext, QueuesNext, EndsNext, FlagsNext DEF TypeInv

(***************************************************************************)
(* The types, for any number of receivers: the two queues never hold more   *)
(* than their capacity, every hand and queue holds frames of the stream,    *)
(* and only datagrams that came are acknowledged.                           *)
(***************************************************************************)
THEOREM TypesHold == Spec => []TypeOK
<1>1. TypeInv => TypeOK
  BY DEF TypeInv, TypeOK, TasksOK, EngineOK, QueuesOK, EndsOK, FlagsOK, Hands
<1>2. QED
  BY <1>1, TypeInit, TypeNext, PTL DEF Spec

-----------------------------------------------------------------------------
(***************************************************************************)
(* An ACK that is owed stays owed until the socket has it, but for a queue  *)
(* that is full, the end of the tick task, and a packet that is lost: it    *)
(* does not encode, the socket refuses it, or the call that flushes it is   *)
(* dropped (reliable_conn.rs:569, :580-584, :616-618, :630-640).            *)
(***************************************************************************)
AcksStep == \/ Owed \subseteq Owed'
            \/ overflowed' /\ Len(outgoing') = OutgoingCapacity
            \/ ticking # ticking'
            \/ dropped' /\ faults' > faults

LEMMA AcksPend ==
  ASSUME [Next]_vars
  PROVE  \/ pending_acks \subseteq pending_acks'
         \/ \E others \in {<< >>, NackOrResend} : Tick(others)
<1> USE DEF engine
<1>1. ASSUME NEW r \in Receivers, Receive(r)
      PROVE  pending_acks \subseteq pending_acks'
  BY <1>1 DEF Receive, ReceiveDatagram, ReceiveControl, PumpFails, Recorded
<1>2. ASSUME NEW r \in Receivers, CallConnect(r) \/ ConnectTimesOut(r) \/ Cancel(r)
      PROVE  UNCHANGED engine
  BY <1>2 DEF CallConnect, ConnectTimesOut, Cancel
<1>3. ASSUME NEW r \in Receivers,
             \/ CallRecv(r) \/ TakeDelivered(r) \/ CheckOnline(r)
             \/ PollTimesOut(r) \/ Flush(r)
      PROVE  UNCHANGED engine
  BY <1>3 DEF CallRecv, TakeDelivered, CheckOnline, PollTimesOut, Flush
<1>4. ASSUME NEW r \in Receivers, Deliver(r) PROVE UNCHANGED engine
  BY <1>4 DEF Deliver, Forward, AnswerPing, ReplyNewIncoming, ConfirmOnline,
              NoteState, BadBody, AllDelivered
<1>5. CASE CallSend \/ FallSilent \/ UNCHANGED vars
  BY <1>5 DEF CallSend, FallSilent, vars
<1>6. QED
  BY <1>1, <1>2, <1>3, <1>4, <1>5 DEF Next, Step

LEMMA AcksStepHolds ==
  ASSUME TypeInv, [Next]_vars
  PROVE  AcksStep
<1>1. /\ faults \in Nat /\ ticking \in BOOLEAN
  BY Numbers DEF TypeInv, FlagsOK
<1>2. ASSUME NEW others \in {<< >>, NackOrResend}, Tick(others) PROVE AcksStep
  <2>1. CASE silent
    BY <1>2, <2>1 DEF Tick, AcksStep
  <2>2. CASE ~silent
    <3>1. \/ overflowed' /\ Len(outgoing') = OutgoingCapacity
          \/ /\ pending_acks \subseteq UNION Range(outgoing')
             /\ UNION Range(outgoing) \subseteq UNION Range(outgoing')
          \/ dropped' /\ faults' = faults + 1
      BY <1>2, <2>2, TickOf
    <3>2. acked' = acked
      BY <1>2 DEF Tick, wire
    <3>3. QED
      BY <1>1, <3>1, <3>2 DEF AcksStep, Owed
  <2>3. QED
    BY <2>1, <2>2
<1>3. CASE pending_acks \subseteq pending_acks'
  <2>1. CASE FlushOutgoing
    <3>1. PICK refused \in SUBSET DOMAIN outgoing :
             /\ GiveToSocket(DOMAIN outgoing, refused)
             /\ refused = {} \/ (dropped' = TRUE /\ faults' = faults + 1)
      BY <2>1 DEF FlushOutgoing, Fault
    <3>2. CASE refused = {}
      <4>1. acked \cup UNION Range(outgoing) \subseteq acked'
        BY <3>1, <3>2 DEF GiveToSocket, Range
      <4>2. Owed \subseteq Owed'
        BY <1>3, <4>1 DEF Owed
      <4>3. QED
        BY <4>2 DEF AcksStep
    <3>3. QED
      BY <1>1, <3>1, <3>2 DEF AcksStep
  <2>2. CASE UNCHANGED <<outgoing, acked>>
    BY <1>3, <2>2 DEF AcksStep, Owed
  <2>3. CASE FlushCut /\ faults' = faults + 1
    <3>1. UNCHANGED <<outgoing, acked>> \/ (dropped' /\ faults' > faults)
      BY <1>1, <2>3 DEF FlushCut
    <3>2. QED
      BY <2>2, <3>1 DEF AcksStep
  <2>4. QED
    BY <1>2, <2>1, <2>2, <2>3, WhoFlushes
<1>4. QED
  BY <1>2, <1>3, AcksPend

(***************************************************************************)
(* No step forgets an ACK but those five: a due ACK is in pending_acks, in  *)
(* the tick task's queue or at the socket (reliable_conn.rs:569).           *)
(***************************************************************************)
THEOREM AcksAreKept == Spec => AcksKept
<1>1. TypeInv /\ [Next]_vars => [AcksStep]_vars
  BY AcksStepHolds
<1>2. QED
  <2>1. AcksKept <=> [][AcksStep]_vars
    BY DEF AcksKept, AcksStep
  <2>2. QED
    BY <1>1, <2>1, TypeInit, TypeNext, PTL DEF Spec

-----------------------------------------------------------------------------
(***************************************************************************)
(* Every released frame is at one place                                     *)
(*                                                                         *)
(* A step moves a frame from a hand to a store, from the delivery queue to  *)
(* the application, or from the engine into a hand.  That the frames the    *)
(* engine releases are nowhere yet needs Bounded; that a hand may be        *)
(* overwritten with them needs Positions, of TypeInv.                       *)
(***************************************************************************)
Bounded ==
    /\ Range(returned) \cup Range(delivery) \cup handled \cup lost \subseteq 1 .. next
    /\ \A t \in Receivers : Range(hand[t]) \subseteq 0 .. next

OnceInv == TypeInv /\ Bounded /\ ReleasedOnce

AtOne(f) == \/ One(Stores(f)) /\ Holders(f) = {}
            \/ Stores(f) = {} /\ One(Holders(f))

IsIn(store, S, f) == IF f \in S THEN {store} ELSE {}

LEMMA StoresAre ==
  ASSUME NEW f
  PROVE  /\ Stores(f) = IsIn("returned", Range(returned), f)
                          \cup IsIn("delivery", Range(delivery), f)
                          \cup IsIn("handled", handled, f) \cup IsIn("lost", lost, f)
         /\ Stores(f)' = IsIn("returned", Range(returned'), f)
                          \cup IsIn("delivery", Range(delivery'), f)
                          \cup IsIn("handled", handled', f) \cup IsIn("lost", lost', f)
BY DEF Stores, IsIn

(* What may become of a frame in a step that releases none.                 *)
Rests(f) == UNCHANGED <<Stores(f), Holders(f)>>

PutAway(f) ==
    \E t \in Receivers, store \in {"delivery", "handled", "lost"} :
        /\ t \in Holders(f) /\ Holders(f)' = Holders(f) \ {t}
        /\ Stores(f)' = Stores(f) \cup {store}

HandedOut(f) ==
    /\ "delivery" \in Stores(f) /\ UNCHANGED Holders(f)
    /\ Stores(f)' = (Stores(f) \ {"delivery"}) \cup {"returned"}

LEMMA OneAfterMove ==
  ASSUME NEW f, AtOne(f), Rests(f) \/ PutAway(f) \/ HandedOut(f)
  PROVE  AtOne(f)'
<1>1. CASE Rests(f)
  BY <1>1 DEF Rests, AtOne, One
<1>2. CASE PutAway(f)
  BY <1>2 DEF PutAway, AtOne, One
<1>3. CASE HandedOut(f)
  BY <1>3 DEF HandedOut, AtOne, One
<1>4. QED
  BY <1>1, <1>2, <1>3

LEMMA OnceTail ==
  ASSUME NEW s \in Seq(Nat), s # << >>, Once(s)
  PROVE  /\ Once(Tail(s)) /\ Range(s) = {Head(s)} \cup Range(Tail(s))
         /\ Head(s) # UnorderedPing => Head(s) \notin Range(Tail(s))
<1>1. /\ Len(s) \in Nat /\ Len(s) >= 1 /\ Head(s) = s[1]
      /\ DOMAIN s = 1 .. Len(s) /\ DOMAIN Tail(s) = 1 .. Len(s) - 1
      /\ \A i \in 1 .. Len(s) - 1 : Tail(s)[i] = s[i + 1]
  OBVIOUS
<1>2. \A i \in 1 .. Len(s) - 1 : i + 1 \in 1 .. Len(s)
  BY <1>1
<1>3. Once(Tail(s))
  <2> SUFFICES ASSUME NEW i \in 1 .. Len(s) - 1, NEW j \in 1 .. Len(s) - 1,
                      s[i + 1] = s[j + 1], s[i + 1] # UnorderedPing
               PROVE  i = j
    BY <1>1 DEF Once
  <2>1. i + 1 = j + 1
    BY <1>1, <1>2 DEF Once
  <2>2. QED
    BY <1>1, <2>1
<1>4. Range(s) \subseteq {Head(s)} \cup Range(Tail(s))
  <2> SUFFICES ASSUME NEW i \in 1 .. Len(s), i # 1 PROVE s[i] \in Range(Tail(s))
    BY <1>1 DEF Range
  <2>1. i - 1 \in 1 .. Len(s) - 1 /\ Tail(s)[i - 1] = s[i]
    BY <1>1
  <2>2. QED
    BY <1>1, <2>1 DEF Range
<1>5. {Head(s)} \cup Range(Tail(s)) \subseteq Range(s)
  BY <1>1, <1>2 DEF Range
<1>6. ASSUME Head(s) # UnorderedPing, Head(s) \in Range(Tail(s)) PROVE FALSE
  <2>1. PICK i \in 1 .. Len(s) - 1 : s[i + 1] = s[1]
    BY <1>1, <1>6 DEF Range
  <2>2. i + 1 = 1
    BY <1>1, <1>2, <1>6, <2>1 DEF Once
  <2>3. QED
    BY <2>2
<1>7. QED
  BY <1>3, <1>4, <1>5, <1>6

LEMMA OnceAppend ==
  ASSUME NEW s \in Seq(Nat), NEW x \in Nat, Once(s), x \notin Range(s)
  PROVE  Once(Append(s, x)) /\ Range(Append(s, x)) = Range(s) \cup {x}
<1>1. /\ Len(s) \in Nat
      /\ DOMAIN s = 1 .. Len(s)
      /\ DOMAIN Append(s, x) = 1 .. Len(s) + 1
      /\ \A i \in 1 .. Len(s) : Append(s, x)[i] = s[i]
      /\ Append(s, x)[Len(s) + 1] = x
  OBVIOUS
<1>2. \A i \in 1 .. Len(s) + 1 : i \in 1 .. Len(s) \/ i = Len(s) + 1
  BY <1>1
<1>3. \A i \in 1 .. Len(s) : s[i] # x /\ i \in 1 .. Len(s) + 1
  BY <1>1 DEF Range
<1>4. Once(Append(s, x))
  BY <1>1, <1>2, <1>3 DEF Once
<1>5. Range(Append(s, x)) \subseteq Range(s) \cup {x}
  BY <1>1, <1>2 DEF Range
<1>6. Range(s) \cup {x} \subseteq Range(Append(s, x))
  <2>1. Len(s) + 1 \in 1 .. Len(s) + 1
    BY <1>1
  <2>2. QED
    BY <1>1, <1>3, <2>1 DEF Range
<1>7. QED
  BY <1>4, <1>5, <1>6

LEMMA OnceEmpty == Once(<< >>) /\ Range(<< >>) = {}
BY DEF Once, Range

LEMMA OnceTypes ==
  ASSUME OnceInv
  PROVE  /\ next \in Nat /\ UnorderedPing = 0
         /\ \A t \in Receivers : hand[t] \in Seq(Nat) /\ Once(hand[t])
         /\ hand \in [Receivers -> Hands]
         /\ delivery \in Seq(Nat) /\ Once(delivery)
         /\ returned \in Seq(Nat) /\ Once(returned)
         /\ \A f \in 1 .. next : AtOne(f)
<1>1. Frames \subseteq Nat /\ Frames \cup {UnorderedPing} \subseteq Nat
  BY Numbers DEF OnceInv, TypeInv, Frames, UnorderedPing
<1>2. delivery \in Seq(Nat) /\ returned \in Seq(Nat)
  BY <1>1, Wider DEF OnceInv, TypeInv, QueuesOK, EndsOK
<1>3. \A t \in Receivers : hand[t] \in Seq(Nat)
  BY <1>1, Wider DEF OnceInv, TypeInv, TasksOK, Hands
<1>4. QED
  BY <1>2, <1>3, Numbers
     DEF OnceInv, TypeInv, TasksOK, ReleasedOnce, AtOne, UnorderedPing

LEMMA MovesKeepOne ==
  ASSUME OnceInv, TypeInv', Bounded', UNCHANGED next,
         Once(returned'), Once(delivery'), \A t \in Receivers : Once(hand'[t]),
         \A f \in 1 .. next : Rests(f) \/ PutAway(f) \/ HandedOut(f)
  PROVE  OnceInv'
<1>1. \A f \in 1 .. next : AtOne(f)'
  BY OneAfterMove, OnceTypes
<1>2. ReleasedOnce'
  BY <1>1 DEF ReleasedOnce, AtOne
<1>3. QED
  BY <1>2 DEF OnceInv

LEMMA NothingPlaced ==
  ASSUME OnceInv, TypeInv', UNCHANGED <<next, hand, delivery, returned, handled, lost>>
  PROVE  OnceInv'
<1>1. \A f : Rests(f)
  BY DEF Rests, Stores, Holders
<1>2. Bounded'
  BY DEF OnceInv, Bounded
<1>3. QED
  BY <1>1, <1>2, OnceTypes, MovesKeepOne

(* The frames a call had in hand are lost when it ends.                     *)
LEMMA LeavingKeepsOne ==
  ASSUME OnceInv, TypeInv', NEW r \in Receivers, Leave(r),
         UNCHANGED <<next, delivery, returned, handled>>
  PROVE  OnceInv'
<1>1. /\ hand' = [hand EXCEPT ![r] = << >>] /\ hand'[r] = << >>
      /\ \A t \in Receivers \ {r} : hand'[t] = hand[t]
      /\ lost' = lost \cup (Range(hand[r]) \ {0})
  BY OnceTypes DEF Leave, UnorderedPing
<1>2. ASSUME NEW f \in 1 .. next PROVE Rests(f) \/ PutAway(f)
  <2>1. f # 0 /\ next \in Nat
    BY OnceTypes
  <2>2. CASE f \in Range(hand[r])
    <3>1. r \in Holders(f) /\ Holders(f)' = Holders(f) \ {r}
      BY <1>1, <2>2, OnceEmpty DEF Holders
    <3>2. Stores(f)' = Stores(f) \cup {"lost"}
      <4>1. f \in lost'
        BY <1>1, <2>1, <2>2
      <4>2. QED
        BY <4>1, StoresAre DEF IsIn
    <3>3. QED
      BY <3>1, <3>2 DEF PutAway
  <2>3. CASE f \notin Range(hand[r])
    <3>1. Holders(f)' = Holders(f)
      BY <1>1, <2>3, OnceEmpty DEF Holders
    <3>2. Stores(f)' = Stores(f)
      <4>1. f \in lost' <=> f \in lost
        BY <1>1, <2>3
      <4>2. QED
        BY <4>1, StoresAre DEF IsIn
    <3>3. QED
      BY <3>1, <3>2 DEF Rests
  <2>4. QED
    BY <2>2, <2>3
<1>3. \A t \in Receivers : Once(hand'[t])
  BY <1>1, OnceEmpty, OnceTypes
<1>4. Bounded'
  <2>1. Range(hand[r]) \ {0} \subseteq 1 .. next
    <3>1. next \in Nat
      BY OnceTypes
    <3>2. Range(hand[r]) \subseteq 0 .. next
      BY DEF OnceInv, Bounded
    <3>3. QED
      BY <3>1, <3>2
  <2>2. \A t \in Receivers : Range(hand'[t]) \subseteq 0 .. next
    BY <1>1, OnceEmpty DEF OnceInv, Bounded
  <2>3. QED
    BY <1>1, <2>1, <2>2 DEF OnceInv, Bounded
<1>5. QED
  BY <1>2, <1>3, <1>4, OnceTypes, MovesKeepOne

(* The head of a hand goes into a store; the unordered ping goes nowhere.   *)
LEMMA HeadGoes ==
  ASSUME OnceInv, NEW r \in Receivers, hand[r] # << >>,
         hand' = [hand EXCEPT ![r] = Tail(@)]
  PROVE  /\ Head(hand[r]) \in 0 .. next
         /\ \A t \in Receivers : Once(hand'[t]) /\ Range(hand'[t]) \subseteq 0 .. next
         /\ \A f \in 1 .. next :
               IF f = Head(hand[r])
               THEN r \in Holders(f) /\ Holders(f)' = Holders(f) \ {r}
               ELSE Holders(f)' = Holders(f)
<1>1. /\ hand[r] \in Seq(Nat) /\ Once(hand[r])
      /\ hand'[r] = Tail(hand[r])
      /\ \A t \in Receivers \ {r} : hand'[t] = hand[t]
  BY OnceTypes
<1>2. /\ Once(hand'[r]) /\ Range(hand[r]) = {Head(hand[r])} \cup Range(hand'[r])
      /\ Head(hand[r]) # 0 => Head(hand[r]) \notin Range(hand'[r])
  BY <1>1, OnceTail, OnceTypes
<1>3. Range(hand[r]) \subseteq 0 .. next
  BY DEF OnceInv, Bounded
<1>4. \A t \in Receivers : Once(hand'[t]) /\ Range(hand'[t]) \subseteq 0 .. next
  BY <1>1, <1>2, <1>3, OnceTypes DEF OnceInv, Bounded
<1>5. ASSUME NEW f \in 1 .. next
      PROVE  IF f = Head(hand[r])
             THEN r \in Holders(f) /\ Holders(f)' = Holders(f) \ {r}
             ELSE Holders(f)' = Holders(f)
  <2>1. f # 0
    BY OnceTypes
  <2>2. CASE f = Head(hand[r])
    BY <1>1, <1>2, <2>1, <2>2 DEF Holders
  <2>3. CASE f # Head(hand[r])
    BY <1>1, <1>2, <2>3 DEF Holders
  <2>4. QED
    BY <2>2, <2>3
<1>6. QED
  BY <1>2, <1>3, <1>4, <1>5

LEMMA HandledKeepsOne ==
  ASSUME OnceInv, TypeInv', NEW r \in Receivers, hand[r] # << >>,
         hand' = [hand EXCEPT ![r] = Tail(@)], HandledHead(r),
         UNCHANGED <<next, delivery>>
  PROVE  OnceInv'
<1> DEFINE head == Head(hand[r])
<1>1. /\ head \in 0 .. next
      /\ \A t \in Receivers : Once(hand'[t]) /\ Range(hand'[t]) \subseteq 0 .. next
  BY HeadGoes
<1>2. /\ handled' = handled \cup ({head} \ {0})
      /\ UNCHANGED <<returned, lost>>
  BY DEF HandledHead, UnorderedPing
<1>3. ASSUME NEW f \in 1 .. next PROVE Rests(f) \/ PutAway(f)
  <2>1. f # 0
    BY OnceTypes
  <2>2. CASE f = head
    <3>1. f \in handled'
      BY <1>2, <2>1, <2>2
    <3>2. Stores(f)' = Stores(f) \cup {"handled"}
      BY <1>2, <3>1, StoresAre DEF IsIn
    <3>3. r \in Holders(f) /\ Holders(f)' = Holders(f) \ {r}
      BY <2>2, HeadGoes
    <3>4. QED
      BY <3>2, <3>3 DEF PutAway
  <2>3. CASE f # head
    <3>1. f \in handled' <=> f \in handled
      BY <1>2, <2>3
    <3>2. Stores(f)' = Stores(f)
      BY <1>2, <3>1, StoresAre DEF IsIn
    <3>3. Holders(f)' = Holders(f)
      BY <2>3, HeadGoes
    <3>4. QED
      BY <3>2, <3>3 DEF Rests
  <2>4. QED
    BY <2>2, <2>3
<1>4. Bounded'
  <2>1. {head} \ {0} \subseteq 1 .. next
    BY <1>1, OnceTypes
  <2>2. QED
    BY <1>1, <1>2, <2>1 DEF OnceInv, Bounded
<1>5. QED
  BY <1>1, <1>2, <1>3, <1>4, OnceTypes, MovesKeepOne

LEMMA ForwardKeepsOne ==
  ASSUME OnceInv, TypeInv', NEW r \in Receivers, AtHead(r, {"app"}),
         delivery' = Append(delivery, Head(hand[r])),
         hand' = [hand EXCEPT ![r] = Tail(@)],
         UNCHANGED <<next, returned, handled, lost>>
  PROVE  OnceInv'
<1> DEFINE head == Head(hand[r])
<1>1. /\ hand[r] # << >> /\ head # 0
  BY DEF AtHead, Kind, UnorderedPing
<1>2. /\ head \in 1 .. next /\ next \in Nat
      /\ \A t \in Receivers : Once(hand'[t]) /\ Range(hand'[t]) \subseteq 0 .. next
  <2>1. next \in Nat
    BY OnceTypes
  <2>2. /\ head \in 0 .. next
        /\ \A t \in Receivers : Once(hand'[t]) /\ Range(hand'[t]) \subseteq 0 .. next
    BY <1>1, HeadGoes
  <2>3. QED
    BY <1>1, <2>1, <2>2
<1>3. head \notin Range(delivery)
  <2>1. r \in Holders(head) /\ AtOne(head)
    BY <1>1, <1>2, HeadGoes, OnceTypes
  <2>2. "delivery" \notin Stores(head)
    BY <2>1 DEF AtOne
  <2>3. QED
    BY <2>2, StoresAre DEF IsIn
<1>4. /\ Once(delivery') /\ Range(delivery') = Range(delivery) \cup {head}
  BY <1>2, <1>3, OnceAppend, OnceTypes
<1>5. ASSUME NEW f \in 1 .. next PROVE Rests(f) \/ PutAway(f)
  <2>1. CASE f = head
    <3>1. Stores(f)' = Stores(f) \cup {"delivery"}
      BY <1>4, <2>1, StoresAre DEF IsIn
    <3>2. r \in Holders(f) /\ Holders(f)' = Holders(f) \ {r}
      BY <1>1, <2>1, HeadGoes
    <3>3. QED
      BY <3>1, <3>2 DEF PutAway
  <2>2. CASE f # head
    <3>1. f \in Range(delivery') <=> f \in Range(delivery)
      BY <1>4, <2>2
    <3>2. Stores(f)' = Stores(f)
      BY <3>1, StoresAre DEF IsIn
    <3>3. Holders(f)' = Holders(f)
      BY <1>1, <2>2, HeadGoes
    <3>4. QED
      BY <3>2, <3>3 DEF Rests
  <2>3. QED
    BY <2>1, <2>2
<1>6. Bounded'
  BY <1>2, <1>4 DEF OnceInv, Bounded
<1>7. QED
  BY <1>2, <1>4, <1>5, <1>6, OnceTypes, MovesKeepOne

LEMMA TakeKeepsOne ==
  ASSUME OnceInv, TypeInv', NEW r \in Receivers, TakeDelivered(r), delivery # << >>
  PROVE  OnceInv'
<1> DEFINE head == Head(delivery)
<1>1. /\ hand[r] = << >> /\ hand \in [Receivers -> Hands]
      /\ returned' = Append(returned, head) /\ delivery' = Tail(delivery)
      /\ hand' = [hand EXCEPT ![r] = << >>]
      /\ lost' = lost \cup (Range(hand[r]) \ {0})
      /\ UNCHANGED <<next, handled>>
  BY DEF TakeDelivered, Leave, engine, OnceInv, TypeInv, TasksOK, Positions,
         UnorderedPing
<1>2. hand' = hand /\ lost' = lost
  BY <1>1, OnceEmpty
<1>3. /\ Once(delivery') /\ Range(delivery) = {head} \cup Range(delivery')
      /\ head # 0 => head \notin Range(delivery')
  BY <1>1, OnceTail, OnceTypes
<1>4. head \in 1 .. next /\ head # 0
  BY <1>3, OnceTypes DEF OnceInv, Bounded
<1>5. head \notin Range(returned)
  <2>1. "delivery" \in Stores(head)
    BY <1>3, StoresAre DEF IsIn
  <2>2. "returned" \notin Stores(head)
    BY <1>4, <2>1, OnceTypes DEF AtOne, One
  <2>3. QED
    BY <2>2, StoresAre DEF IsIn
<1>6. Once(returned') /\ Range(returned') = Range(returned) \cup {head}
  BY <1>1, <1>4, <1>5, OnceAppend, OnceTypes
<1>7. ASSUME NEW f \in 1 .. next PROVE Rests(f) \/ HandedOut(f)
  <2>1. Holders(f)' = Holders(f)
    BY <1>2 DEF Holders
  <2>2. CASE f = head
    <3>1. f \in Range(delivery) /\ f \notin Range(delivery') /\ f \in Range(returned')
      BY <1>3, <1>4, <1>6, <2>2
    <3>2. "delivery" \in Stores(f)
      BY <3>1, StoresAre DEF IsIn
    <3>3. Stores(f)' = (Stores(f) \ {"delivery"}) \cup {"returned"}
      BY <1>1, <1>2, <3>1, StoresAre DEF IsIn
    <3>4. QED
      BY <2>1, <3>2, <3>3 DEF HandedOut
  <2>3. CASE f # head
    <3>1. (f \in Range(delivery') <=> f \in Range(delivery))
          /\ (f \in Range(returned') <=> f \in Range(returned))
      BY <1>3, <1>6, <2>3
    <3>2. Stores(f)' = Stores(f)
      BY <1>1, <1>2, <3>1, StoresAre DEF IsIn
    <3>3. QED
      BY <2>1, <3>2 DEF Rests
  <2>4. QED
    BY <2>2, <2>3
<1>8. Bounded'
  BY <1>1, <1>2, <1>3, <1>4, <1>6 DEF OnceInv, Bounded
<1>9. QED
  BY <1>1, <1>2, <1>3, <1>6, <1>7, <1>8, OnceTypes, MovesKeepOne

(* The engine releases the next frames of the stream into an empty hand.    *)
LEMMA ReceiveKeepsOne ==
  ASSUME OnceInv, TypeInv', NEW r \in Receivers,
         NEW new \in BOOLEAN, NEW unordered \in {<< >>, <<UnorderedPing>>},
         NEW n \in 0 .. MaxBatch, ReceiveDatagram(r, new, unordered, n)
  PROVE  OnceInv'
<1> DEFINE batch == unordered \o [i \in 1 .. n |-> next + i]
<1>1. n \in Nat /\ next \in Nat
  BY Numbers DEF OnceInv, TypeInv
<1>2. /\ batch \in Seq(Nat) /\ Increasing(batch)
      /\ Range(batch) \subseteq {0} \cup (next + 1 .. next + n)
      /\ (next + 1 .. next + n) \subseteq Range(batch)
  BY <1>1, ArrivedBatch
<1>3. /\ hand[r] = << >> /\ next' = next + n
      /\ hand' = [hand EXCEPT ![r] = batch]
      /\ UNCHANGED <<delivery, returned, handled, lost>>
  BY DEF ReceiveDatagram, Goto, told, OnceInv, TypeInv, TasksOK, Positions
<1> HIDE DEF batch
<1>4. /\ hand'[r] = batch /\ Range(hand[r]) = {}
      /\ \A t \in Receivers \ {r} : hand'[t] = hand[t]
  BY <1>3, OnceEmpty, OnceTypes
<1>5. Once(batch)
  <2>1. DOMAIN batch = 1 .. Len(batch) /\ Len(batch) \in Nat
        /\ \A i \in DOMAIN batch : batch[i] \in Nat
    BY <1>2
  <2>2. QED
    BY <1>2, <2>1 DEF Once, Increasing
<1>6. \A t \in Receivers : Once(hand'[t])
  BY <1>4, <1>5, OnceTypes
<1>7. ASSUME NEW f \in 1 .. next PROVE AtOne(f)'
  <2>1. f \notin Range(batch)
    BY <1>1, <1>2
  <2>2. Holders(f)' = Holders(f)
    BY <1>4, <2>1 DEF Holders
  <2>3. Stores(f)' = Stores(f)
    BY <1>3 DEF Stores
  <2>4. QED
    BY <2>2, <2>3, OnceTypes DEF AtOne
<1>8. ASSUME NEW f \in next + 1 .. next + n PROVE AtOne(f)'
  <2>1. f \notin 0 .. next /\ f \in Range(batch)
    BY <1>1, <1>2
  <2>2. f \notin Range(returned) /\ f \notin Range(delivery)
        /\ f \notin handled /\ f \notin lost
    BY <1>1, <2>1 DEF OnceInv, Bounded
  <2>3. Stores(f)' = {}
    BY <1>3, <2>2, StoresAre DEF IsIn
  <2>4. \A t \in Receivers : f \in Range(hand'[t]) <=> t = r
    BY <1>4, <2>1 DEF OnceInv, Bounded
  <2>5. Holders(f)' = {r}
    BY <2>4 DEF Holders
  <2>6. QED
    BY <2>3, <2>5 DEF AtOne, One
<1>9. \A f \in 1 .. next' : f \in 1 .. next \/ f \in next + 1 .. next + n
  BY <1>1, <1>3
<1>10. ReleasedOnce'
  <2>1. \A f \in 1 .. next' : AtOne(f)'
    BY <1>7, <1>8, <1>9
  <2>2. Once(returned') /\ Once(delivery')
    BY <1>3, OnceTypes
  <2>3. QED
    BY <1>6, <2>1, <2>2 DEF ReleasedOnce, AtOne
<1>11. Bounded'
  <2>1. 1 .. next \subseteq 1 .. next' /\ 0 .. next \subseteq 0 .. next'
    BY <1>1, <1>3
  <2>2. Range(batch) \subseteq 0 .. next'
    BY <1>1, <1>2, <1>3
  <2>3. \A t \in Receivers : Range(hand'[t]) \subseteq 0 .. next'
    BY <1>4, <2>1, <2>2 DEF OnceInv, Bounded
  <2>4. Range(returned) \cup Range(delivery) \cup handled \cup lost \subseteq 1 .. next
    BY DEF OnceInv, Bounded
  <2>5. Range(returned') \cup Range(delivery') \cup handled' \cup lost'
          \subseteq 1 .. next'
    BY <1>3, <2>1, <2>4
  <2>6. QED
    BY <2>3, <2>5 DEF Bounded
<1>12. QED
  BY <1>10, <1>11 DEF OnceInv

LEMMA OnceInit == Init => OnceInv
<1> SUFFICES ASSUME Init PROVE OnceInv
  OBVIOUS
<1>1. TypeInv
  BY TypeInit
<1>2. Bounded
  BY OnceEmpty DEF Init, Bounded
<1>3. ReleasedOnce
  BY OnceEmpty DEF Init, ReleasedOnce
<1>4. QED
  BY <1>1, <1>2, <1>3 DEF OnceInv

LEMMA OnceNext == OnceInv /\ [Next]_vars => OnceInv'
<1> SUFFICES ASSUME OnceInv, [Next]_vars PROVE OnceInv'
  OBVIOUS
<1> USE DEF engine, told, tasks, state, wire, ticker
<1>1. TypeInv'
  BY TypeNext DEF OnceInv
<1>2. ASSUME UNCHANGED <<next, hand, delivery, told>> PROVE OnceInv'
  BY <1>1, <1>2, NothingPlaced
<1>3. ASSUME NEW r \in Receivers, Leave(r),
             UNCHANGED <<next, delivery, returned, handled>>
      PROVE  OnceInv'
  BY <1>1, <1>3, LeavingKeepsOne
<1>4. ASSUME NEW r \in Receivers, CallConnect(r) \/ CallRecv(r) \/ CheckOnline(r)
      PROVE  OnceInv'
  <2>1. CASE CallConnect(r)
    BY <1>2, <1>3, <2>1 DEF CallConnect, Broken, Fail
  <2>2. CASE CallRecv(r)
    BY <1>2, <2>2 DEF CallRecv
  <2>3. CASE CheckOnline(r)
    BY <1>2, <1>3, <2>3 DEF CheckOnline, Fail
  <2>4. QED
    BY <1>4, <2>1, <2>2, <2>3
<1>5. ASSUME NEW r \in Receivers, TakeDelivered(r) PROVE OnceInv'
  <2>1. CASE delivery # << >>
    BY <1>1, <1>5, <2>1, TakeKeepsOne
  <2>2. CASE delivery = << >>
    BY <1>2, <1>5, <2>2 DEF TakeDelivered
  <2>3. QED
    BY <2>1, <2>2
<1>6. ASSUME NEW r \in Receivers, PollTimesOut(r) \/ Flush(r) \/ AllDelivered(r)
      PROVE  OnceInv'
  BY <1>2, <1>6 DEF PollTimesOut, Flush, AllDelivered
<1>7. ASSUME NEW r \in Receivers, Forward(r) PROVE OnceInv'
  <2>1. CASE Len(delivery) < DeliveryCapacity
    BY <1>1, <1>7, <2>1, ForwardKeepsOne DEF Forward, DropHead
  <2>2. CASE ~(Len(delivery) < DeliveryCapacity)
    BY <1>3, <1>7, <2>2 DEF Forward, Fail
  <2>3. QED
    BY <2>1, <2>2
<1>8. ASSUME NEW r \in Receivers,
             AnswerPing(r) \/ NoteState(r) \/ ReplyNewIncoming(r)
      PROVE  OnceInv'
  <2>1. CASE Broken(r)
    BY <1>3, <1>8, <2>1 DEF AnswerPing, NoteState, ReplyNewIncoming, Broken, Fail
  <2>2. CASE hand[r] # << >> /\ DropHead(r) /\ HandledHead(r)
    BY <1>1, <1>8, <2>2, HandledKeepsOne
       DEF AnswerPing, NoteState, ReplyNewIncoming, DropHead
  <2>3. CASE UNCHANGED <<hand, told>>
    BY <1>2, <1>8, <2>3 DEF AnswerPing, NoteState, ReplyNewIncoming
  <2>4. QED
    BY <1>8, <2>1, <2>2, <2>3 DEF AnswerPing, NoteState, ReplyNewIncoming, AtHead
<1>9. ASSUME NEW r \in Receivers, ConfirmOnline(r) PROVE OnceInv'
  <2>1. hand[r] # << >>
    BY <1>9 DEF ConfirmOnline, OnceInv, TypeInv, TasksOK, Positions
  <2>2. QED
    BY <1>1, <1>9, <2>1, HandledKeepsOne DEF ConfirmOnline
<1>10. ASSUME NEW r \in Receivers,
              BadBody(r) \/ ConnectTimesOut(r) \/ PumpFails(r) \/ Cancel(r)
       PROVE  OnceInv'
  BY <1>3, <1>10 DEF BadBody, ConnectTimesOut, PumpFails, Cancel, Broken, Fail
<1>11. ASSUME NEW r \in Receivers, ReceiveControl(r) PROVE OnceInv'
  BY <1>2, <1>3, <1>11 DEF ReceiveControl, Broken, Fail
<1>12. ASSUME NEW r \in Receivers, NEW new \in BOOLEAN,
              NEW unordered \in {<< >>, <<UnorderedPing>>}, NEW n \in 0 .. MaxBatch,
              ReceiveDatagram(r, new, unordered, n)
       PROVE  OnceInv'
  BY <1>1, <1>12, ReceiveKeepsOne
<1>13. CASE CallSend \/ FallSilent \/ UNCHANGED vars
  BY <1>2, <1>13 DEF CallSend, FallSilent, vars
<1>14. CASE \E others \in {<< >>, NackOrResend} : Tick(others)
  BY <1>2, <1>14 DEF Tick
<1>15. QED
  BY <1>4, <1>5, <1>6, <1>7, <1>8, <1>9, <1>10, <1>11, <1>12, <1>13, <1>14
     DEF Next, Step, Deliver, Receive

(***************************************************************************)
(* Whatever number of tasks pump the session, no released frame vanishes    *)
(* between the engine's lock and the delivery queue, and none is returned   *)
(* twice (reliable_conn.rs:520-530).                                        *)
(***************************************************************************)
THEOREM EveryFrameOnce == Spec => []ReleasedOnce
<1>1. OnceInv => ReleasedOnce
  BY DEF OnceInv
<1>2. QED
  BY <1>1, OnceInit, OnceNext, PTL DEF Spec
=============================================================================
