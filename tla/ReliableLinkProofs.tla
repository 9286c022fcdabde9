------------------------- MODULE ReliableLinkProofs -------------------------
(***************************************************************************)
(* Theorems about ReliableLink, for every size of the number circle, every  *)
(* number of payloads and every network.                                    *)
(***************************************************************************)
EXTENDS ReliableLink, DatagramLemmas

(* What a drain of the order queue returns, keeps and moves to.             *)
LEMMA DrainType ==
  ASSUME TypeOK, NEW queue,
         DOMAIN queue \subseteq SeqNums,
         \A i \in DOMAIN queue : queue[i] \in Payload
  PROVE  /\ DrainCount(queue) \in 0 .. Mod
         /\ Drained(queue) \in Seq(Payload)
         /\ Len(Drained(queue)) = DrainCount(queue)
         /\ \A i \in 1 .. DrainCount(queue) :
              /\ SeqAdd(next_delivery_order_index, i - 1) \in DOMAIN queue
              /\ Drained(queue)[i] =
                   queue[SeqAdd(next_delivery_order_index, i - 1)]
         /\ DOMAIN Remaining(queue) \subseteq DOMAIN queue
         /\ \A i \in DOMAIN Remaining(queue) : Remaining(queue)[i] = queue[i]
         /\ SeqAdd(next_delivery_order_index, DrainCount(queue)) \in SeqNums
<1> DEFINE n == DrainCount(queue)
<1>1. /\ n \in 0 .. Mod
      /\ IsRunLength(DOMAIN queue, next_delivery_order_index, n)
  BY RunLengthIs DEF DrainCount
<1>2. \A i \in 1 .. n : SeqAdd(next_delivery_order_index, i - 1) \in DOMAIN queue
  <2> SUFFICES ASSUME NEW i \in 1 .. n
               PROVE  SeqAdd(next_delivery_order_index, i - 1) \in DOMAIN queue
    OBVIOUS
  <2>1. i - 1 \in 0 .. n - 1
    BY <1>1, ModType
  <2>2. QED
    BY <1>1, <2>1 DEF IsRunLength
<1> HIDE DEF n
<1>3. n \in Nat
  BY <1>1, ModType
<1>4. Drained(queue) = [i \in 1 .. n |->
                          queue[SeqAdd(next_delivery_order_index, i - 1)]]
  BY DEF Drained, n
<1>5. /\ Drained(queue) \in Seq(Payload)
      /\ Len(Drained(queue)) = n
  BY <1>2, <1>3, <1>4
<1>6. /\ DOMAIN Remaining(queue) \subseteq DOMAIN queue
      /\ \A i \in DOMAIN Remaining(queue) : Remaining(queue)[i] = queue[i]
  BY DEF Remaining
<1>7. SeqAdd(next_delivery_order_index, n) \in SeqNums
  BY <1>1, SeqAddType DEF TypeOK
<1>8. QED
  BY <1>1, <1>2, <1>4, <1>5, <1>6, <1>7 DEF n

LEMMA RoutedType ==
  ASSUME TypeOK, NEW frame \in Frame
  PROVE  /\ DOMAIN Routed(frame) \subseteq SeqNums
         /\ \A i \in DOMAIN Routed(frame) : Routed(frame)[i] \in Payload
BY DEF TypeOK, Routed, Frame

LEMMA WrittenType ==
  ASSUME NEW ranges \in SUBSET AckRange, NEW spans \in BOOLEAN
  PROVE  Written(ranges, spans) \subseteq AckRange
BY DEF Written, AsSpan, IsSingle, AckRange, Span

-----------------------------------------------------------------------------
(* Type correctness                                                         *)

LEMMA InitType == Init => TypeOK
<1> SUFFICES ASSUME Init PROVE TypeOK
  OBVIOUS
<1>1. NewWindow \in Window
  BY ModType DEF NewWindow, Window
<1>2. 0 \in SeqNums /\ 0 \in 0 .. MaxSend
  BY ModType, LinkAssumption
<1>3. << >> \in Seq(Payload) /\ << >> \in Seq(Payload \cup {Failed})
  OBVIOUS
<1>4. [p \in Payload |-> 0] \in [Payload -> 0 .. 2]
  OBVIOUS
<1>5. QED
  BY <1>1, <1>2, <1>3, <1>4 DEF Init, TypeOK

LEMMA TakeIndicesType ==
  ASSUME TypeOK, NEW k \in Kinds, TakeIndices(k)
  PROVE  /\ next_message_index' \in SeqNums
         /\ next_sequence_index' \in SeqNums
         /\ next_order_index' \in SeqNums
BY SeqIncType DEF TypeOK, TakeIndices

LEMMA NextType == TypeOK /\ [Next]_vars => TypeOK'
<1> SUFFICES ASSUME TypeOK, [Next]_vars PROVE TypeOK'
  OBVIOUS
<1> USE DEF sender, receiver, sent, given
<1>1. ASSUME NEW k \in Kinds, PrepareSend(k) PROVE TypeOK'
  <2> DEFINE d == [seq |-> next_datagram_seq, frame |-> NewFrame(k, calls + 1)]
  <2>1. calls + 1 \in Payload /\ calls + 1 \in 0 .. MaxSend
    BY <1>1, LinkAssumption DEF PrepareSend, TypeOK, Payload
  <2>2. d \in Datagram
    BY <2>1 DEF Datagram, Frame, NewFrame, TypeOK, NoIndex, SeqNums
  <2>3. ordered' \in Seq(Payload \cup {Failed})
    BY <1>1, <2>1 DEF PrepareSend, TypeOK
  <2>4. next_datagram_seq' \in SeqNums
    BY <1>1, SeqIncType DEF PrepareSend, TypeOK
  <2>5. /\ unacked' \subseteq Datagram
        /\ datagrams' \subseteq Datagram
        /\ transmitted' \subseteq Datagram
    BY <1>1, <2>2 DEF PrepareSend, TypeOK
  <2>6. QED
    BY <1>1, <2>1, <2>3, <2>4, <2>5, TakeIndicesType DEF PrepareSend, TypeOK
<1>2. ASSUME NEW k \in Kinds, PrepareSendFails(k) PROVE TypeOK'
  <2>1. calls + 1 \in 0 .. MaxSend
    BY <1>2, LinkAssumption DEF PrepareSendFails, TypeOK
  <2>2. ordered' \in Seq(Payload \cup {Failed})
    BY <1>2 DEF PrepareSendFails, TypeOK
  <2>3. next_datagram_seq' \in SeqNums
    BY <1>2, SeqIncType DEF PrepareSendFails, TypeOK
  <2>4. QED
    BY <1>2, <2>1, <2>2, <2>3, TakeIndicesType DEF PrepareSendFails, TypeOK
<1>3. ASSUME NEW due \in SUBSET unacked, ResendDue(due) PROVE TypeOK'
  BY <1>3 DEF ResendDue, TypeOK
<1>4. ASSUME NEW d \in datagrams, ReceiveDatagram(d) PROVE TypeOK'
  <2> DEFINE queue == Routed(d.frame)
  <2>1. d \in Datagram /\ d.frame \in Frame /\ d.seq \in SeqNums
    BY DEF TypeOK, Datagram
  <2>2. UNCHANGED <<sender, control, sent>>
    BY <1>4 DEF ReceiveDatagram
  <2>3. /\ DOMAIN queue \subseteq SeqNums
        /\ \A i \in DOMAIN queue : queue[i] \in Payload
    BY <2>1, RoutedType
  <2> HIDE DEF queue
  <2>4. /\ Drained(queue) \in Seq(Payload)
        /\ DOMAIN Remaining(queue) \subseteq DOMAIN queue
        /\ \A i \in DOMAIN Remaining(queue) : Remaining(queue)[i] = queue[i]
        /\ SeqAdd(next_delivery_order_index, DrainCount(queue)) \in SeqNums
    BY <2>3, DrainType
  <2>5. released' \in Seq(Payload)
    BY <1>4, <2>4 DEF ReceiveDatagram, TypeOK, queue
  <2>6. recv_window' \in Window
    BY <1>4, <2>1, RecordType DEF ReceiveDatagram, TypeOK
  <2>7. pending_acks' \subseteq SeqNums
    BY <1>4, <2>1 DEF ReceiveDatagram, TypeOK
  <2>8. /\ datagrams' \subseteq Datagram
        /\ arrived' \subseteq Datagram
    BY <1>4, <2>1 DEF ReceiveDatagram, TypeOK, Consume
  <2>9. /\ DOMAIN order_queue' \subseteq SeqNums
        /\ \A i \in DOMAIN order_queue' : order_queue'[i] \in Payload
        /\ next_delivery_order_index' \in SeqNums
    BY <1>4, <2>3, <2>4 DEF ReceiveDatagram, queue
  <2>10. QED
    BY <2>2, <2>5, <2>6, <2>7, <2>8, <2>9 DEF TypeOK
<1>5. ASSUME NEW c \in control, ReceiveAck(c) PROVE TypeOK'
  BY <1>5 DEF ReceiveAck, TypeOK, Consume
<1>6. ASSUME NEW c \in control, ReceiveNack(c) PROVE TypeOK'
  BY <1>6 DEF ReceiveNack, TypeOK, Consume
<1>7. ASSUME NEW spans \in BOOLEAN, FlushAcks(spans) PROVE TypeOK'
  <2>1. AckPackets(spans) \subseteq Control
    <3>1. CoalesceRanges(pending_acks) \in SUBSET AckRange
      BY CoalesceType DEF TypeOK
    <3>2. Written(CoalesceRanges(pending_acks), spans) \subseteq AckRange
      BY <3>1, WrittenType
    <3>3. [ack |-> TRUE, ranges |-> Written(CoalesceRanges(pending_acks), spans)]
            \in Control
      BY <3>2 DEF Control
    <3>4. QED
      BY <3>3 DEF AckPackets
  <2>2. NackPackets(spans) \subseteq Control
    <3>1. Missing(recv_window) \in SUBSET AckRange
      BY MissingType DEF TypeOK
    <3>2. Written(Missing(recv_window), spans) \subseteq AckRange
      BY <3>1, WrittenType
    <3>3. [ack |-> FALSE, ranges |-> Written(Missing(recv_window), spans)] \in Control
      BY <3>2 DEF Control
    <3>4. QED
      BY <3>3 DEF NackPackets
  <2>3. QED
    BY <1>7, <2>1, <2>2 DEF FlushAcks, TypeOK
<1>8. ASSUME NEW d \in datagrams, LoseDatagram(d) PROVE TypeOK'
  BY <1>8 DEF LoseDatagram, TypeOK
<1>9. ASSUME NEW c \in control, LoseControl(c) PROVE TypeOK'
  BY <1>9 DEF LoseControl, TypeOK
<1>10. CASE UNCHANGED vars
  BY <1>10 DEF vars, TypeOK
<1>11. QED
  BY <1>1, <1>2, <1>3, <1>4, <1>5, <1>6, <1>7, <1>8, <1>9, <1>10 DEF Next

(***************************************************************************)
(* Every value the engine, the network and the history hold is of its kind: *)
(* no counter leaves the circle, no frame with an order index is routed     *)
(* past the queue or one without into it.                                   *)
(***************************************************************************)
THEOREM TypeCorrect == Spec => []TypeOK
<1>1. QED
  BY InitType, NextType, PTL DEF Spec

-----------------------------------------------------------------------------
(***************************************************************************)
(* Ordered delivery                                                         *)
(*                                                                         *)
(* OrderedPrefix is not inductive: a step that drains the order queue keeps *)
(* it only if the queue holds, at each index, the payload that was sent     *)
(* with that index, and the queue is filled from frames that were in flight *)
(* or kept for retransmission.  LinkInv says so of all of them.  It needs   *)
(* every order index to be used once, so the theorems below are about       *)
(* sessions of fewer than Mod sends.  They cannot be extended: a copy of a  *)
(* frame already released stays in the queue, and would be released again   *)
(* in place of the frame that carries its index one turn of the circle on.  *)
(***************************************************************************)
IsNth(i, p) == i < Len(ordered) /\ ordered[i + 1] = p

FramesMatch ==
    \A d \in transmitted :
        IsOrdered(d.frame.kind) => IsNth(d.frame.order_index, d.frame.id)

QueueMatches == \A i \in DOMAIN order_queue : IsNth(i, order_queue[i])

LinkInv ==
    /\ Len(ordered) <= calls
    /\ next_order_index = Len(ordered)
    /\ datagrams \subseteq transmitted
    /\ unacked \subseteq transmitted
    /\ FramesMatch
    /\ QueueMatches
    /\ next_delivery_order_index = Len(released)
    /\ OrderedPrefix

LEMMA LinkInit == Init => LinkInv
BY DEF Init, LinkInv, FramesMatch, QueueMatches, OrderedPrefix

(* A drain releases the next stretch of what was sent, and the released     *)
(* payloads stay a prefix of it.                                            *)
LEMMA DrainReleasesNext ==
  ASSUME TypeOK, LinkInv, MaxSend < Mod, NEW queue,
         DOMAIN queue \subseteq SeqNums,
         \A i \in DOMAIN queue : queue[i] \in Payload,
         \A i \in DOMAIN queue : IsNth(i, queue[i])
  PROVE  /\ Len(released) + DrainCount(queue) <= Len(ordered)
         /\ \A i \in 1 .. DrainCount(queue) :
              Drained(queue)[i] = ordered[Len(released) + i]
         /\ SeqAdd(next_delivery_order_index, DrainCount(queue))
              = Len(released) + DrainCount(queue)
<1> DEFINE n == DrainCount(queue)
           at == Len(released)
<1>1. /\ n \in 0 .. Mod
      /\ \A i \in 1 .. n :
           /\ SeqAdd(at, i - 1) \in DOMAIN queue
           /\ Drained(queue)[i] = queue[SeqAdd(at, i - 1)]
  BY DrainType DEF LinkInv
<1>2. /\ Len(ordered) \in Nat /\ Len(ordered) < Mod /\ calls \in Nat
      /\ at \in Nat /\ at <= Len(ordered)
  BY LinkAssumption, ModType DEF TypeOK, LinkInv, OrderedPrefix
<1> HIDE DEF n, at
<1>3. \A i \in 1 .. n : SeqAdd(at, i - 1) < Len(ordered)
  BY <1>1 DEF IsNth
(* The run cannot go round the circle: it would have to pass Mod - 1, an    *)
(* index no frame carries.                                                  *)
<1>4. at + n <= Len(ordered)
  <2> SUFFICES ASSUME at + n > Len(ordered) PROVE FALSE
    BY <1>1, <1>2, ModType
  <2> DEFINE i == Len(ordered) - at + 1
  <2>1. i \in 1 .. n /\ i - 1 = Len(ordered) - at
    BY <1>1, <1>2, ModType
  <2>2. SeqAdd(at, i - 1) = Len(ordered)
    BY <1>2, <2>1, ModType DEF SeqAdd
  <2>3. QED
    BY <1>2, <1>3, <2>1, <2>2
<1>5. \A i \in 1 .. n : SeqAdd(at, i - 1) = at + i - 1
  BY <1>1, <1>2, <1>4, ModType DEF SeqAdd
<1>6. \A i \in 1 .. n : Drained(queue)[i] = ordered[at + i]
  <2> SUFFICES ASSUME NEW i \in 1 .. n
               PROVE  Drained(queue)[i] = ordered[at + i]
    OBVIOUS
  <2>1. SeqAdd(at, i - 1) = at + i - 1 /\ (at + i - 1) + 1 = at + i
    BY <1>1, <1>2, <1>5, ModType
  <2>2. at + i - 1 \in DOMAIN queue /\ Drained(queue)[i] = queue[at + i - 1]
    BY <1>1, <2>1
  <2>3. QED
    BY <2>1, <2>2 DEF IsNth
<1>7. SeqAdd(at, n) = at + n
  BY <1>1, <1>2, <1>4, ModType DEF SeqAdd
<1>8. QED
  BY <1>4, <1>6, <1>7 DEF n, at, LinkInv

(* Appending to what was sent moves no earlier payload.                     *)
LEMMA NthKept ==
  ASSUME TypeOK, NEW x \in Payload \cup {Failed},
         ordered' = Append(ordered, x)
  PROVE  /\ Len(ordered') = Len(ordered) + 1
         /\ \A i \in Nat : \A p : IsNth(i, p) => IsNth(i, p)'
         /\ ordered'[Len(ordered) + 1] = x
         /\ OrderedPrefix /\ released' = released => OrderedPrefix'
<1>1. /\ ordered \in Seq(Payload \cup {Failed})
      /\ Len(ordered) \in Nat
      /\ released \in Seq(Payload)
      /\ Len(released) \in Nat
  BY DEF TypeOK
<1>2. /\ Len(ordered') = Len(ordered) + 1
      /\ \A i \in 1 .. Len(ordered) : ordered'[i] = ordered[i]
      /\ ordered'[Len(ordered) + 1] = x
  BY <1>1
<1>3. \A i \in Nat : \A p : IsNth(i, p) => IsNth(i, p)'
  BY <1>1, <1>2 DEF IsNth
<1>4. OrderedPrefix /\ released' = released => OrderedPrefix'
  BY <1>1, <1>2 DEF OrderedPrefix
<1>5. QED
  BY <1>2, <1>3, <1>4

LEMMA FrameIndexType ==
  ASSUME TypeOK
  PROVE  /\ \A d \in transmitted :
              IsOrdered(d.frame.kind) => d.frame.order_index \in Nat
         /\ DOMAIN order_queue \subseteq Nat
BY ModType DEF TypeOK, Datagram, Frame, SeqNums

LEMMA LinkNext ==
  ASSUME MaxSend < Mod, TypeOK, TypeOK', LinkInv, [Next]_vars
  PROVE  LinkInv'
<1> USE DEF sender, receiver, sent, given
<1>1. /\ calls \in 0 .. MaxSend /\ MaxSend \in Nat
      /\ Len(ordered) \in Nat /\ Len(ordered) <= calls
      /\ Len(released) \in Nat
  BY LinkAssumption DEF TypeOK, LinkInv
<1>2. ASSUME NEW k \in Kinds, PrepareSend(k) PROVE LinkInv'
  <2> DEFINE d == [seq |-> next_datagram_seq, frame |-> NewFrame(k, calls + 1)]
  <2>1. /\ calls < MaxSend /\ calls' = calls + 1
        /\ calls + 1 \in Payload \cup {Failed}
        /\ transmitted' = transmitted \cup {d}
        /\ datagrams' = datagrams \cup {d}
        /\ unacked' \subseteq unacked \cup {d}
        /\ released' = released /\ order_queue' = order_queue
        /\ next_delivery_order_index' = next_delivery_order_index
    BY <1>1, <1>2 DEF PrepareSend, Payload
  <2>2. /\ datagrams' \subseteq transmitted'
        /\ unacked' \subseteq transmitted'
    BY <2>1 DEF LinkInv
  <2> HIDE DEF d
  <2>3. CASE IsOrdered(k)
    <3>1. ordered' = Append(ordered, calls + 1)
      BY <1>2, <2>3 DEF PrepareSend
    <3>2. next_order_index' = Len(ordered) + 1
      BY <1>1, <1>2, <2>1, <2>3, ModType
         DEF PrepareSend, TakeIndices, LinkInv, SeqInc
    <3>3. d.frame.order_index = Len(ordered) /\ d.frame.id = calls + 1
      BY <2>3 DEF d, NewFrame, LinkInv
    <3>4. /\ Len(ordered') = Len(ordered) + 1
          /\ \A i \in Nat : \A p : IsNth(i, p) => IsNth(i, p)'
          /\ ordered'[Len(ordered) + 1] = calls + 1
          /\ OrderedPrefix'
      BY <2>1, <3>1, NthKept DEF LinkInv
    <3>5. FramesMatch'
      <4> SUFFICES ASSUME NEW e \in transmitted', IsOrdered(e.frame.kind)
                   PROVE  IsNth(e.frame.order_index, e.frame.id)'
        BY DEF FramesMatch
      <4>1. CASE e = d
        BY <1>1, <3>3, <3>4, <4>1 DEF IsNth
      <4>2. CASE e \in transmitted
        BY <3>4, <4>2, FrameIndexType DEF LinkInv, FramesMatch
      <4>3. QED
        BY <2>1, <4>1, <4>2
    <3>6. QueueMatches'
      BY <2>1, <3>4, FrameIndexType DEF LinkInv, QueueMatches
    <3>7. QED
      BY <1>1, <2>1, <2>2, <3>2, <3>4, <3>5, <3>6 DEF LinkInv
  <2>4. CASE ~IsOrdered(k)
    <3>1. /\ ordered' = ordered
          /\ next_order_index' = next_order_index
          /\ d.frame.kind = k
      BY <1>2, <2>4 DEF PrepareSend, TakeIndices, d, NewFrame
    <3>2. FramesMatch'
      BY <2>1, <2>4, <3>1 DEF LinkInv, FramesMatch, IsNth
    <3>3. QED
      BY <1>1, <2>1, <2>2, <3>1, <3>2
         DEF LinkInv, QueueMatches, IsNth, OrderedPrefix
  <2>5. QED
    BY <2>3, <2>4
<1>3. ASSUME NEW k \in Kinds, PrepareSendFails(k) PROVE LinkInv'
  <2>1. /\ calls < MaxSend /\ calls' = calls + 1
        /\ Failed \in Payload \cup {Failed}
        /\ UNCHANGED <<transmitted, datagrams, unacked, released, order_queue,
                       next_delivery_order_index>>
    BY <1>3 DEF PrepareSendFails
  <2>2. CASE IsOrdered(k)
    <3>1. ordered' = Append(ordered, Failed)
      BY <1>3, <2>2 DEF PrepareSendFails
    <3>2. next_order_index' = Len(ordered) + 1
      BY <1>1, <1>3, <2>1, <2>2, ModType
         DEF PrepareSendFails, TakeIndices, LinkInv, SeqInc
    <3>3. /\ Len(ordered') = Len(ordered) + 1
          /\ \A i \in Nat : \A p : IsNth(i, p) => IsNth(i, p)'
          /\ OrderedPrefix'
      BY <2>1, <3>1, NthKept DEF LinkInv
    <3>4. FramesMatch' /\ QueueMatches'
      BY <2>1, <3>3, FrameIndexType DEF LinkInv, FramesMatch, QueueMatches
    <3>5. QED
      BY <1>1, <2>1, <3>2, <3>3, <3>4 DEF LinkInv
  <2>3. CASE ~IsOrdered(k)
    <3>1. ordered' = ordered /\ next_order_index' = next_order_index
      BY <1>3, <2>3 DEF PrepareSendFails, TakeIndices
    <3>2. QED
      BY <1>1, <2>1, <3>1
         DEF LinkInv, FramesMatch, QueueMatches, IsNth, OrderedPrefix
  <2>4. QED
    BY <2>2, <2>3
<1>4. ASSUME NEW dg \in datagrams, ReceiveDatagram(dg) PROVE LinkInv'
  <2> DEFINE queue == Routed(dg.frame)
             n     == DrainCount(queue)
             out   == Drained(queue)
  <2>1. dg.frame \in Frame /\ dg \in transmitted
    BY DEF TypeOK, Datagram, LinkInv
  <2>2. /\ DOMAIN queue \subseteq SeqNums
        /\ \A i \in DOMAIN queue : queue[i] \in Payload
    BY <2>1, RoutedType
  <2>3. \A i \in DOMAIN queue : IsNth(i, queue[i])
    BY <2>1 DEF Routed, LinkInv, FramesMatch, QueueMatches
  <2>4. /\ released' = released \o out
        /\ order_queue' = Remaining(queue)
        /\ next_delivery_order_index' = SeqAdd(next_delivery_order_index, n)
        /\ UNCHANGED <<ordered, calls, next_order_index, unacked, transmitted>>
        /\ datagrams' \subseteq datagrams
    BY <1>4 DEF ReceiveDatagram, Consume
  <2> HIDE DEF queue
  <2>5. /\ out \in Seq(Payload) /\ Len(out) = n /\ n \in Nat
        /\ DOMAIN Remaining(queue) \subseteq DOMAIN queue
        /\ \A i \in DOMAIN Remaining(queue) : Remaining(queue)[i] = queue[i]
    BY <2>2, DrainType, ModType
  <2>6. /\ Len(released) + n <= Len(ordered)
        /\ \A i \in 1 .. n : out[i] = ordered[Len(released) + i]
        /\ SeqAdd(next_delivery_order_index, n) = Len(released) + n
    BY <2>2, <2>3, DrainReleasesNext
  <2> HIDE DEF n, out
  <2>7. released \in Seq(Payload)
    BY DEF TypeOK
  <2>8. /\ Len(released') = Len(released) + n
        /\ \A i \in 1 .. Len(released) : released'[i] = released[i]
        /\ \A i \in Len(released) + 1 .. Len(released) + n :
             released'[i] = out[i - Len(released)]
    <3> DEFINE both == released \o out
    <3>1. /\ both \in Seq(Payload)
          /\ Len(both) = Len(released) + n
      BY <2>5, <2>7
    <3>2. \A i \in 1 .. Len(released) : both[i] = released[i]
      BY <1>1, <2>5, <2>7
    <3>3. \A i \in Len(released) + 1 .. Len(released) + n :
             both[i] = out[i - Len(released)]
      BY <1>1, <2>5, <2>7
    <3>4. QED
      BY <2>4, <3>1, <3>2, <3>3
  <2>9. OrderedPrefix'
    <3> SUFFICES ASSUME NEW i \in 1 .. Len(released')
                 PROVE  released'[i] = ordered[i]
      BY <2>4, <2>6, <2>8 DEF OrderedPrefix
    <3>1. CASE i <= Len(released)
      BY <1>1, <2>8, <3>1 DEF LinkInv, OrderedPrefix
    <3>2. CASE i > Len(released)
      <4>1. /\ i \in Len(released) + 1 .. Len(released) + n
            /\ i - Len(released) \in 1 .. n
            /\ Len(released) + (i - Len(released)) = i
        BY <1>1, <2>5, <2>8, <3>2
      <4>2. QED
        BY <2>6, <2>8, <4>1
    <3>3. QED
      BY <1>1, <2>8, <3>1, <3>2
  <2>10. QueueMatches'
    BY <2>3, <2>4, <2>5 DEF QueueMatches, IsNth
  <2>11. QED
    BY <2>4, <2>6, <2>8, <2>9, <2>10 DEF LinkInv, FramesMatch, IsNth
<1>5. ASSUME UNCHANGED <<calls, ordered, next_order_index, transmitted,
                         order_queue, next_delivery_order_index, released>>,
             datagrams' \subseteq transmitted, unacked' \subseteq transmitted
      PROVE  LinkInv'
  BY <1>5 DEF LinkInv, FramesMatch, QueueMatches, IsNth, OrderedPrefix
<1>6. ASSUME NEW due \in SUBSET unacked, ResendDue(due) PROVE LinkInv'
  BY <1>5, <1>6 DEF ResendDue, LinkInv
<1>7. ASSUME NEW c \in control, ReceiveAck(c) PROVE LinkInv'
  BY <1>5, <1>7 DEF ReceiveAck, LinkInv
<1>8. ASSUME NEW c \in control, ReceiveNack(c) PROVE LinkInv'
  BY <1>5, <1>8 DEF ReceiveNack, LinkInv
<1>9. ASSUME NEW spans \in BOOLEAN, FlushAcks(spans) PROVE LinkInv'
  BY <1>5, <1>9 DEF FlushAcks, LinkInv
<1>10. ASSUME NEW dg \in datagrams, LoseDatagram(dg) PROVE LinkInv'
  BY <1>5, <1>10 DEF LoseDatagram, LinkInv
<1>11. ASSUME NEW c \in control, LoseControl(c) PROVE LinkInv'
  BY <1>5, <1>11 DEF LoseControl, LinkInv
<1>12. CASE UNCHANGED vars
  BY <1>5, <1>12 DEF vars, LinkInv
<1>13. QED
  BY <1>2, <1>3, <1>4, <1>6, <1>7, <1>8, <1>9, <1>10, <1>11, <1>12 DEF Next

(***************************************************************************)
(* What drain_ordered has released is what the sender handed over with an   *)
(* ordered reliability, in that order, nothing skipped, repeated or made    *)
(* up: for every network that loses, duplicates and reorders packets, every *)
(* mix of reliabilities and every pattern of failing sends, as long as no   *)
(* more payloads are sent than there are order indices.                     *)
(***************************************************************************)
THEOREM OrderedDelivery ==
  ASSUME MaxSend < Mod
  PROVE  Spec => []OrderedPrefix
<1>1. Init => TypeOK /\ LinkInv
  BY InitType, LinkInit
<1>2. TypeOK /\ LinkInv /\ [Next]_vars => (TypeOK /\ LinkInv)'
  BY NextType, LinkNext
<1>3. LinkInv => OrderedPrefix
  BY DEF LinkInv
<1>4. QED
  BY <1>1, <1>2, <1>3, PTL DEF Spec

-----------------------------------------------------------------------------
(***************************************************************************)
(* The link implements the channel: each step of the link adds at most one  *)
(* payload to the requests, or releases the next stretch of them, or        *)
(* changes neither.                                                         *)
(***************************************************************************)
LEMMA StepImplements ==
  ASSUME MaxSend < Mod, TypeOK, LinkInv, LinkInv', [Next]_vars
  PROVE  [Channel!Next]_<<ordered, released>>
<1> USE DEF sender, receiver, sent, given
<1>1. ASSUME NEW x \in Payload \cup {Failed},
             ordered' = Append(ordered, x), released' = released
      PROVE  Channel!Next
  BY <1>1 DEF Channel!Next, Channel!Request
<1>2. ASSUME NEW k \in Kinds, PrepareSend(k)
      PROVE  [Channel!Next]_<<ordered, released>>
  <2>1. calls + 1 \in Payload \cup {Failed}
    BY <1>2, LinkAssumption DEF PrepareSend, TypeOK, Payload
  <2>2. QED
    BY <1>1, <1>2, <2>1 DEF PrepareSend
<1>3. ASSUME NEW k \in Kinds, PrepareSendFails(k)
      PROVE  [Channel!Next]_<<ordered, released>>
  BY <1>1, <1>3 DEF PrepareSendFails
<1>4. ASSUME NEW dg \in datagrams, ReceiveDatagram(dg)
      PROVE  [Channel!Next]_<<ordered, released>>
  <2> DEFINE n == Len(released')
             queue == Routed(dg.frame)
  <2>1. ordered' = ordered
    BY <1>4 DEF ReceiveDatagram
  <2>2. released' \in Seq(Payload)
    BY <1>4, NextType DEF TypeOK, Next
  <2>3. ordered \in Seq(Payload \cup {Failed}) /\ released \in Seq(Payload)
    BY DEF TypeOK
  <2>4. /\ n \in Nat /\ n <= Len(ordered)
        /\ \A i \in 1 .. n : released'[i] = ordered[i]
    BY <2>1, <2>2 DEF LinkInv, OrderedPrefix
  <2>5. Len(released) <= n
    <3>1. /\ DOMAIN queue \subseteq SeqNums
          /\ \A i \in DOMAIN queue : queue[i] \in Payload
      BY RoutedType DEF TypeOK, Datagram
    <3> HIDE DEF queue
    <3>2. Drained(queue) \in Seq(Payload)
      BY <3>1, DrainType
    <3>3. released' = released \o Drained(queue)
      BY <1>4 DEF ReceiveDatagram, queue
    <3>4. QED
      BY <2>3, <3>2, <3>3
  <2>6. released' = SubSeq(ordered, 1, n)
    <3>1. /\ SubSeq(ordered, 1, n) \in Seq(Payload \cup {Failed})
          /\ Len(SubSeq(ordered, 1, n)) = n
          /\ \A i \in 1 .. n : SubSeq(ordered, 1, n)[i] = ordered[i]
      BY <2>3, <2>4
    <3>2. QED
      BY <2>2, <2>4, <3>1
  <2>7. n \in Len(released) .. Len(ordered)
    BY <2>3, <2>4, <2>5
  <2>8. QED
    BY <2>1, <2>6, <2>7 DEF Channel!Next, Channel!Release
<1>5. CASE UNCHANGED <<ordered, released>>
  BY <1>5
<1>6. QED
  BY <1>2, <1>3, <1>4, <1>5
     DEF Next, vars, ResendDue, ReceiveAck, ReceiveNack, FlushAcks,
         LoseDatagram, LoseControl

(***************************************************************************)
(* The link implements OrderedChannel: what the application at one end      *)
(* requests and the application at the other end is given behave like a     *)
(* first-in first-out channel that never loses, repeats or invents.         *)
(***************************************************************************)
THEOREM Implements ==
  ASSUME MaxSend < Mod
  PROVE  Spec => ImplementsChannel
<1>1. Init => Channel!Init
  BY DEF Init, Channel!Init
<1>2. Init => TypeOK /\ LinkInv
  BY InitType, LinkInit
<1>3. TypeOK /\ LinkInv /\ [Next]_vars => (TypeOK /\ LinkInv)'
  BY NextType, LinkNext
<1>4. TypeOK /\ LinkInv /\ LinkInv' /\ [Next]_vars
        => [Channel!Next]_<<ordered, released>>
  BY StepImplements
<1>5. QED
  BY <1>1, <1>2, <1>3, <1>4, PTL
     DEF Spec, ImplementsChannel, Channel!Spec

-----------------------------------------------------------------------------
(***************************************************************************)
(* Acknowledgements                                                         *)
(***************************************************************************)
ArrivedNumbers == { d.seq : d \in arrived }

AckInv ==
    /\ pending_acks \subseteq ArrivedNumbers
    /\ \A c \in control : c.ack => NamedBy(c.ranges) \subseteq ArrivedNumbers

(* Both ways of writing a lone number name that number.                     *)
LEMMA WrittenNames ==
  ASSUME NEW ranges \in SUBSET AckRange, NEW spans \in BOOLEAN
  PROVE  NamedBy(Written(ranges, spans)) \subseteq NamedBy(ranges)
<1>1. ASSUME NEW r \in ranges, r.end = NoEnd
      PROVE  Named(Span(r.start, r.start)) = Named(r)
  <2>1. /\ r.start \in SeqNums /\ r.start # NoEnd
        /\ SeqForwardDistance(r.start, r.start) = 0
        /\ SeqAdd(r.start, 0) = r.start
    BY ModType DEF AckRange, NoEnd, SeqNums, SeqForwardDistance, SeqAdd
  <2>2. Named(Span(r.start, r.start))
          = { SeqAdd(r.start, i) : i \in 0 .. 0 }
    BY <2>1 DEF Named, Span
  <2>3. Named(r) = {r.start}
    BY <1>1 DEF Named
  <2>4. QED
    BY <2>1, <2>2, <2>3
<1>2. \A w \in Written(ranges, spans) : \E r \in ranges : Named(w) = Named(r)
  BY <1>1 DEF Written, AsSpan, IsSingle
<1>3. QED
  BY <1>2 DEF NamedBy

LEMMA AckNext ==
  ASSUME TypeOK, AckInv, [Next]_vars
  PROVE  AckInv'
<1> USE DEF sender, receiver, sent, given
<1>1. ASSUME NEW dg \in datagrams, ReceiveDatagram(dg) PROVE AckInv'
  BY <1>1 DEF ReceiveDatagram, AckInv, ArrivedNumbers
<1>2. ASSUME NEW spans \in BOOLEAN, FlushAcks(spans) PROVE AckInv'
  <2>1. NamedBy(Written(CoalesceRanges(pending_acks), spans)) \subseteq pending_acks
    <3>1. CoalesceRanges(pending_acks) \in SUBSET AckRange
      BY CoalesceType DEF TypeOK
    <3>2. NamedBy(CoalesceRanges(pending_acks)) \subseteq pending_acks
      BY CoalesceNamesOnly DEF TypeOK
    <3>3. NamedBy(Written(CoalesceRanges(pending_acks), spans))
            \subseteq NamedBy(CoalesceRanges(pending_acks))
      BY <3>1, WrittenNames
    <3>4. QED
      BY <3>2, <3>3
  <2>2. \A c \in AckPackets(spans) : NamedBy(c.ranges) \subseteq pending_acks
    BY <2>1 DEF AckPackets
  <2>3. \A c \in NackPackets(spans) : ~c.ack
    BY DEF NackPackets
  <2>4. /\ control' = control \cup AckPackets(spans) \cup NackPackets(spans)
        /\ pending_acks' = {} /\ arrived' = arrived
    BY <1>2 DEF FlushAcks
  <2>5. QED
    BY <2>2, <2>3, <2>4 DEF AckInv, ArrivedNumbers
<1>3. ASSUME control' \subseteq control, UNCHANGED <<pending_acks, arrived>>
      PROVE  AckInv'
  BY <1>3 DEF AckInv, ArrivedNumbers
<1>4. ASSUME NEW c \in control, ReceiveAck(c) \/ ReceiveNack(c) PROVE AckInv'
  BY <1>3, <1>4 DEF ReceiveAck, ReceiveNack, Consume
<1>5. ASSUME NEW k \in Kinds, PrepareSend(k) \/ PrepareSendFails(k)
      PROVE  AckInv'
  BY <1>3, <1>5 DEF PrepareSend, PrepareSendFails
<1>6. QED
  BY <1>1, <1>2, <1>3, <1>4, <1>5
     DEF Next, vars, ResendDue, LoseDatagram, LoseControl

(***************************************************************************)
(* No ACK packet ever names a datagram that has not arrived: the records    *)
(* that coalesce_ranges makes cover nothing in between, and nothing but an  *)
(* arrival makes a number pending.                                          *)
(***************************************************************************)
THEOREM AcksAreTrue == Spec => []AcksNameArrivals
<1>1. Init => TypeOK /\ AckInv
  BY InitType DEF Init, AckInv
<1>2. TypeOK /\ AckInv /\ [Next]_vars => (TypeOK /\ AckInv)'
  BY NextType, AckNext
<1>3. AckInv => AcksNameArrivals
  BY DEF AckInv, AcksNameArrivals, ArrivedNumbers
<1>4. QED
  BY <1>1, <1>2, <1>3, PTL DEF Spec

(***************************************************************************)
(* Retransmission.  A datagram leaves unacked only when an ACK's walk       *)
(* reaches its number.  The walk over a span visits what the span names,    *)
(* and while no two datagrams share a number a named one has arrived.       *)
(***************************************************************************)
KeptInv ==
    /\ next_datagram_seq <= calls
    /\ datagrams \cup arrived \subseteq transmitted
    /\ \A d \in transmitted : d.seq < next_datagram_seq
    /\ \A d, e \in transmitted : d.seq = e.seq => d = e
    /\ unacked \subseteq transmitted

LEMMA KeptNext ==
  ASSUME MaxSend < Mod, TypeOK, KeptInv, [Next]_vars
  PROVE  KeptInv'
<1> USE DEF sender, receiver, sent, given
<1>1. /\ calls \in Nat /\ MaxSend \in Nat /\ next_datagram_seq \in Nat
      /\ \A d \in transmitted : d.seq \in Nat
  BY LinkAssumption, ModType DEF TypeOK, SeqNums, Datagram
<1>2. calls < MaxSend => SeqInc(next_datagram_seq) = next_datagram_seq + 1
  BY <1>1, ModType DEF KeptInv, SeqInc
<1>3. ASSUME NEW k \in Kinds, PrepareSend(k) PROVE KeptInv'
  <2> DEFINE d == [seq |-> next_datagram_seq, frame |-> NewFrame(k, calls + 1)]
  <2>1. /\ calls' = calls + 1
        /\ next_datagram_seq' = next_datagram_seq + 1
        /\ transmitted' = transmitted \cup {d}
        /\ datagrams' = datagrams \cup {d}
        /\ unacked' \subseteq unacked \cup {d}
        /\ UNCHANGED arrived
    BY <1>2, <1>3 DEF PrepareSend
  <2>2. d.seq = next_datagram_seq
    OBVIOUS
  <2> HIDE DEF d
  <2>3. \A e \in transmitted : e.seq # d.seq
    BY <1>1, <2>2 DEF KeptInv
  <2>4. \A e \in transmitted' : e.seq < next_datagram_seq'
    BY <1>1, <2>1, <2>2 DEF KeptInv
  <2>5. \A e, f \in transmitted' : e.seq = f.seq => e = f
    BY <2>1, <2>3 DEF KeptInv
  <2>6. QED
    BY <1>1, <2>1, <2>4, <2>5 DEF KeptInv
<1>4. ASSUME NEW k \in Kinds, PrepareSendFails(k) PROVE KeptInv'
  <2>1. /\ calls' = calls + 1
        /\ next_datagram_seq' \in {next_datagram_seq, next_datagram_seq + 1}
        /\ UNCHANGED <<transmitted, datagrams, unacked, arrived>>
    BY <1>2, <1>4 DEF PrepareSendFails
  <2>2. QED
    BY <1>1, <2>1 DEF KeptInv
<1>5. ASSUME datagrams' \cup arrived' \subseteq datagrams \cup arrived \cup unacked,
             unacked' \subseteq unacked,
             UNCHANGED <<calls, next_datagram_seq, transmitted>>
      PROVE  KeptInv'
  BY <1>5 DEF KeptInv
<1>6. ASSUME NEW dg \in datagrams, ReceiveDatagram(dg) PROVE KeptInv'
  BY <1>5, <1>6 DEF ReceiveDatagram, Consume
<1>7. ASSUME NEW c \in control, ReceiveAck(c) \/ ReceiveNack(c) PROVE KeptInv'
  BY <1>5, <1>7 DEF ReceiveAck, ReceiveNack
<1>8. ASSUME NEW due \in SUBSET unacked, ResendDue(due) PROVE KeptInv'
  BY <1>5, <1>8 DEF ResendDue
<1>9. ASSUME NEW spans \in BOOLEAN, FlushAcks(spans) PROVE KeptInv'
  BY <1>5, <1>9 DEF FlushAcks
<1>10. QED
  BY <1>3, <1>4, <1>5, <1>6, <1>7, <1>8, <1>9
     DEF Next, vars, LoseDatagram, LoseControl

(* What an ACK of spans takes out of the store has arrived.                 *)
LEMMA SpansTakeArrived ==
  ASSUME AckInv, KeptInv, NEW c \in control, ReceiveAck(c), ~HasSingle(c)
  PROVE  unacked \ unacked' \subseteq arrived
<1>1. WalkedBy(c.ranges) \subseteq ArrivedNumbers
  <2>1. \A r \in c.ranges : Walked(r) = Named(r)
    BY DEF HasSingle, IsSingle, Walked
  <2>2. WalkedBy(c.ranges) \subseteq NamedBy(c.ranges)
    BY <2>1 DEF WalkedBy, NamedBy
  <2>3. NamedBy(c.ranges) \subseteq ArrivedNumbers
    BY DEF ReceiveAck, AckInv
  <2>4. QED
    BY <2>2, <2>3
<1>2. unacked' = { u \in unacked : u.seq \notin WalkedBy(c.ranges) }
  BY DEF ReceiveAck
<1>3. \A u \in unacked : u.seq \in WalkedBy(c.ranges) => u \in arrived
  BY <1>1 DEF KeptInv, ArrivedNumbers
<1>4. QED
  BY <1>2, <1>3

(***************************************************************************)
(* While fewer datagrams are sent than the circle has numbers, an ACK made  *)
(* of spans, mcget's own or another implementation's, removes only          *)
(* datagrams that have arrived.  Nothing of the kind holds for an ACK with  *)
(* a single record, which is what mcget writes for a lone number.           *)
(***************************************************************************)
THEOREM SpansAreSafe ==
  ASSUME MaxSend < Mod
  PROVE  Spec => SpansForgetNothing
<1>1. Init => TypeOK /\ AckInv /\ KeptInv
  BY InitType DEF Init, AckInv, KeptInv
<1>2. TypeOK /\ AckInv /\ KeptInv /\ [Next]_vars
        => (TypeOK /\ AckInv /\ KeptInv)'
  BY NextType, AckNext, KeptNext
<1>3. AckInv /\ KeptInv /\ [Next]_vars
        => [\A c \in control : ReceiveAck(c) /\ ~HasSingle(c)
              => unacked \ unacked' \subseteq arrived]_vars
  BY SpansTakeArrived
<1>4. QED
  BY <1>1, <1>2, <1>3, PTL DEF Spec, SpansForgetNothing
=============================================================================
