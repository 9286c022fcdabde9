---------------------------- MODULE ReliableLink ----------------------------
(***************************************************************************)
(* One direction of a reliable session: the sending half of one             *)
(* ReliabilityEngine (src/bedrock/reliability.rs), the receiving half of    *)
(* the other, and the network between them.  Datagrams travel one way,      *)
(* ACK and NACK packets the other; the network may lose, duplicate and      *)
(* reorder both.                                                            *)
(*                                                                         *)
(* A datagram carries one frame: the engine packs every fragment of a       *)
(* payload into one datagram, so the fragments travel, arrive and are       *)
(* reassembled together.  Frames carry the payload's number instead of its  *)
(* bytes, and of their indices only order_index, the one a receiver reads.  *)
(* Time is left out: the set of datagrams that are due for a resend at a    *)
(* tick is any set of unacknowledged ones.                                  *)
(***************************************************************************)
EXTENDS DatagramWindow, Sequences, FiniteSets

CONSTANTS
    Kinds,           \* reliabilities the application sends with
    MaxSend,         \* bound: calls of prepare_send
    MaxFail,         \* bound: ordered payloads prepare_send returns an error for
    MaxControl,      \* bound: ACK and NACK packets in flight
    Lossy,           \* the network may lose packets
    Duplicating      \* the network may deliver a packet more than once

Reliability == { "Unreliable", "UnreliableSequenced", "Reliable",
                 "ReliableOrdered", "ReliableSequenced" }

ASSUME LinkAssumption ==
    /\ Kinds \subseteq Reliability
    /\ MaxSend \in Nat
    /\ MaxFail \in Nat
    /\ MaxControl \in Nat
    /\ {Lossy, Duplicating} \subseteq BOOLEAN

IsReliable(k)  == k \in {"Reliable", "ReliableOrdered", "ReliableSequenced"}
IsSequenced(k) == k \in {"UnreliableSequenced", "ReliableSequenced"}
IsOrdered(k)   == k \in {"UnreliableSequenced", "ReliableOrdered",
                         "ReliableSequenced"}

VARIABLES
    \* the sender's engine
    next_datagram_seq, next_message_index, next_order_index,
    next_sequence_index,
    unacked,         \* the datagrams kept for retransmission
    \* the receiver's engine
    recv_window, pending_acks,
    order_queue,     \* order_index -> payload waiting for its turn
    next_delivery_order_index,
    \* the network
    datagrams,       \* datagrams in flight
    control,         \* ACK and NACK packets in flight
    \* history, read by no action
    calls,           \* payloads handed to prepare_send so far
    ordered,         \* those sent with an ordered kind, in order (0: failed)
    transmitted,     \* the datagrams sent
    arrived,         \* the datagrams the receiver has been given
    released         \* what drain_ordered returned, in order

sender   == <<next_datagram_seq, next_message_index, next_order_index,
              next_sequence_index, unacked>>
receiver == <<recv_window, pending_acks, order_queue,
              next_delivery_order_index>>
sent     == <<calls, ordered, transmitted>>
given    == <<arrived, released>>
vars     == <<sender, receiver, datagrams, control, sent, given>>

Payload  == 1 .. MaxSend
Failed   == 0               \* stands in ordered for a payload that was not sent
NoIndex  == -1              \* Frame::order_index() = None

Frame    == { f \in [ kind : Kinds, order_index : SeqNums \cup {NoIndex},
                       id : Payload ] :
                IsOrdered(f.kind) <=> f.order_index # NoIndex }
Datagram == [seq : SeqNums, frame : Frame]
Control  == [ack : BOOLEAN, ranges : SUBSET AckRange]

FailedCalls == Cardinality({i \in DOMAIN ordered : ordered[i] = Failed})

Init ==
    /\ next_datagram_seq = 0
    /\ next_message_index = 0
    /\ next_order_index = 0
    /\ next_sequence_index = 0
    /\ unacked = {}
    /\ recv_window = NewWindow
    /\ pending_acks = {}
    /\ order_queue = << >>
    /\ next_delivery_order_index = 0
    /\ datagrams = {}
    /\ control = {}
    /\ calls = 0
    /\ ordered = << >>
    /\ transmitted = {}
    /\ arrived = {}
    /\ released = << >>
-----------------------------------------------------------------------------
(* The sender                                                               *)

(* Mutant of TakeIndices: one counter per call, the first that applies.     *)
TakeIndicesFirst(k) ==
    /\ next_message_index' =
         IF IsReliable(k) THEN SeqInc(next_message_index)
         ELSE next_message_index
    /\ next_sequence_index' =
         IF IsSequenced(k) /\ ~IsReliable(k) THEN SeqInc(next_sequence_index)
         ELSE next_sequence_index
    /\ UNCHANGED next_order_index

(* The indices prepare_send takes, before anything in it can fail.          *)
TakeIndices(k) ==
    /\ next_message_index' =
         IF IsReliable(k) THEN SeqInc(next_message_index)
         ELSE next_message_index
    /\ next_sequence_index' =
         IF IsSequenced(k) THEN SeqInc(next_sequence_index)
         ELSE next_sequence_index
    /\ next_order_index' =
         IF IsOrdered(k) THEN SeqInc(next_order_index) ELSE next_order_index

NewFrame(k, id) ==
    [ kind |-> k, id |-> id,
      order_index |-> IF IsOrdered(k) THEN next_order_index ELSE NoIndex ]

(* prepare_send, and the socket send of ReliableConnection::send.           *)
PrepareSend(k) ==
    LET d == [seq |-> next_datagram_seq, frame |-> NewFrame(k, calls + 1)]
    IN  /\ calls < MaxSend
        /\ calls' = calls + 1
        /\ TakeIndices(k)
        /\ next_datagram_seq' = SeqInc(next_datagram_seq)
        /\ unacked' = { u \in unacked : u.seq # d.seq } \cup {d}
        /\ datagrams' = datagrams \cup {d}
        /\ ordered' = IF IsOrdered(k) THEN Append(ordered, calls + 1) ELSE ordered
        /\ transmitted' = transmitted \cup {d}
        /\ UNCHANGED <<receiver, control, given>>

(* prepare_send returning an error: split_into fails before the datagram    *)
(* number is taken, Datagram::encode after it.                              *)
PrepareSendFails(k) ==
    /\ calls < MaxSend
    /\ FailedCalls < MaxFail
    /\ calls' = calls + 1
    /\ TakeIndices(k)
    /\ next_datagram_seq' \in {next_datagram_seq, SeqInc(next_datagram_seq)}
    /\ ordered' = IF IsOrdered(k) THEN Append(ordered, Failed) ELSE ordered
    /\ UNCHANGED <<unacked, receiver, datagrams, control, transmitted, given>>

(* Mutant of ResendDue: a resent datagram is forgotten.                     *)
ResendDueOnce(due) ==
    /\ due \subseteq unacked
    /\ datagrams' = datagrams \cup due
    /\ unacked' = unacked \ due
    /\ UNCHANGED <<next_datagram_seq, next_message_index, next_order_index,
                   next_sequence_index, receiver, control, sent, given>>

(* The sender's tick: resend_due sends again whatever has been outstanding  *)
(* too long, and keeps it.                                                  *)
ResendDue(due) ==
    /\ due \subseteq unacked
    /\ datagrams' = datagrams \cup due
    /\ UNCHANGED <<sender, receiver, control, sent, given>>

(* A packet that has been delivered is gone, unless the network delivers it *)
(* again.                                                                   *)
Consume(network, packet) ==
    { network \ {packet} } \cup (IF Duplicating THEN {network} ELSE {})

ReceiveAck(c) ==
    /\ c \in control /\ c.ack
    /\ control' \in Consume(control, c)
    /\ unacked' = { u \in unacked : u.seq \notin WalkedBy(c.ranges) }
    /\ UNCHANGED <<next_datagram_seq, next_message_index, next_order_index,
                   next_sequence_index, receiver, datagrams, sent, given>>

ReceiveNack(c) ==
    /\ c \in control /\ ~c.ack
    /\ control' \in Consume(control, c)
    /\ datagrams' =
         datagrams \cup { u \in unacked : u.seq \in WalkedBy(c.ranges) }
    /\ UNCHANGED <<sender, receiver, sent, given>>
-----------------------------------------------------------------------------
(* The receiver                                                             *)

(* Mutant of Routed: frames are queued for being reliable, not ordered.     *)
RoutedReliable(frame) ==
    IF IsReliable(frame.kind)
    THEN [ i \in DOMAIN order_queue \cup {frame.order_index} |->
             IF i = frame.order_index THEN frame.id ELSE order_queue[i] ]
    ELSE order_queue

(* Mutant of Routed: a frame takes the place after those that wait.         *)
RoutedByArrival(frame) ==
    LET place == SeqAdd(next_delivery_order_index,
                        Cardinality(DOMAIN order_queue))
    IN  IF IsOrdered(frame.kind)
        THEN [ i \in DOMAIN order_queue \cup {place} |->
                 IF i = place THEN frame.id ELSE order_queue[i] ]
        ELSE order_queue

(* route_frame and drain_ordered on the queue: what it holds after the      *)
(* frame is routed, what is then released, and what stays.                  *)
Routed(frame) ==
    IF IsOrdered(frame.kind)
    THEN [ i \in DOMAIN order_queue \cup {frame.order_index} |->
             IF i = frame.order_index THEN frame.id ELSE order_queue[i] ]
    ELSE order_queue

DrainCount(queue) == RunLength(DOMAIN queue, next_delivery_order_index)

Drained(queue) ==
    [ i \in 1 .. DrainCount(queue) |->
        queue[SeqAdd(next_delivery_order_index, i - 1)] ]

Remaining(queue) ==
    [ i \in DOMAIN queue \ RunOf(DOMAIN queue, next_delivery_order_index) |->
        queue[i] ]

(* handle_incoming on a datagram: on_datagram_received and drain_ordered    *)
(* under one lock.  A datagram that record() calls old is not ACKed, but    *)
(* its frame is routed all the same.                                        *)
ReceiveDatagram(d) ==
    LET queue == Routed(d.frame)
    IN  /\ d \in datagrams
        /\ datagrams' \in Consume(datagrams, d)
        /\ recv_window' = Record(recv_window, d.seq)
        /\ pending_acks' = IF IsNew(recv_window, d.seq)
                           THEN pending_acks \cup {d.seq} ELSE pending_acks
        /\ order_queue' = Remaining(queue)
        /\ next_delivery_order_index' =
             SeqAdd(next_delivery_order_index, DrainCount(queue))
        /\ released' = released \o Drained(queue)
        /\ arrived' = arrived \cup {d}
        /\ UNCHANGED <<sender, control, sent>>

(* A record for a lone number.  mcget writes a single record; another       *)
(* implementation may also write a span from the number to itself.          *)
IsSingle(r)  == r.end = NoEnd
HasSingle(c) == \E r \in c.ranges : IsSingle(r)
AsSpan(r)    == IF IsSingle(r) THEN Span(r.start, r.start) ELSE r

Written(ranges, spans) ==
    IF spans THEN { AsSpan(r) : r \in ranges } ELSE ranges

(* drain_acks and build_nack: the packets of the receiver's tick.           *)
AckPackets(spans) ==
    IF pending_acks = {} THEN {}
    ELSE { [ack |-> TRUE,
            ranges |-> Written(CoalesceRanges(pending_acks), spans)] }

NackPackets(spans) ==
    IF Missing(recv_window) = {} THEN {}
    ELSE { [ack |-> FALSE, ranges |-> Written(Missing(recv_window), spans)] }

(* The receiver's tick.  The packets go into the outgoing queue; those that *)
(* find it full are dropped, which the model leaves to the network's loss.  *)
FlushAcks(spans) ==
    LET packets == AckPackets(spans) \cup NackPackets(spans)
    IN  /\ Cardinality(control \cup packets) <= MaxControl
        /\ control' = control \cup packets
        /\ pending_acks' = {}
        /\ UNCHANGED <<sender, recv_window, order_queue,
                       next_delivery_order_index, datagrams, sent, given>>
-----------------------------------------------------------------------------
(* The network                                                              *)

LoseDatagram(d) ==
    /\ Lossy /\ d \in datagrams
    /\ datagrams' = datagrams \ {d}
    /\ UNCHANGED <<sender, receiver, control, sent, given>>

LoseControl(c) ==
    /\ Lossy /\ c \in control
    /\ control' = control \ {c}
    /\ UNCHANGED <<sender, receiver, datagrams, sent, given>>
-----------------------------------------------------------------------------
Next ==
    \/ \E k \in Kinds : PrepareSend(k)
    \/ \E k \in Kinds : PrepareSendFails(k)
    \/ \E due \in SUBSET unacked : ResendDue(due)
    \/ \E d \in datagrams : ReceiveDatagram(d)
    \/ \E c \in control : ReceiveAck(c)
    \/ \E c \in control : ReceiveNack(c)
    \/ \E spans \in BOOLEAN : FlushAcks(spans)
    \/ \E d \in datagrams : LoseDatagram(d)
    \/ \E c \in control : LoseControl(c)

Spec == Init /\ [][Next]_vars

(***************************************************************************)
(* Fairness.  Both tick tasks run every 10 ms, so whatever stays unacknow-  *)
(* ledged is resent again and again and ACKs and gaps are flushed again and *)
(* again (weak fairness).  The network is assumed to deliver a packet that  *)
(* is sent over and over (strong fairness): the least a retransmitting      *)
(* protocol needs.  Nothing rests on a NACK, which only hastens a resend,   *)
(* and nothing obliges the application to send.                             *)
(***************************************************************************)
Fairness ==
    /\ WF_vars(ResendDue(unacked))
    /\ WF_vars(\E spans \in BOOLEAN : FlushAcks(spans))
    /\ \A p \in Payload :
          SF_vars(\E d \in datagrams : d.frame.id = p /\ ReceiveDatagram(d))
    /\ SF_vars(\E c \in control : ReceiveAck(c))

FairSpec == Spec /\ Fairness
-----------------------------------------------------------------------------
TypeOK ==
    /\ next_datagram_seq \in SeqNums
    /\ next_message_index \in SeqNums
    /\ next_order_index \in SeqNums
    /\ next_sequence_index \in SeqNums
    /\ unacked \subseteq Datagram
    /\ recv_window \in Window
    /\ pending_acks \subseteq SeqNums
    /\ DOMAIN order_queue \subseteq SeqNums
    /\ \A i \in DOMAIN order_queue : order_queue[i] \in Payload
    /\ next_delivery_order_index \in SeqNums
    /\ datagrams \subseteq Datagram
    /\ control \subseteq Control
    /\ calls \in 0 .. MaxSend
    /\ ordered \in Seq(Payload \cup {Failed})
    /\ transmitted \subseteq Datagram
    /\ arrived \subseteq Datagram
    /\ released \in Seq(Payload)

(* "release ordered frames to the caller in order_index order"              *)
(* (reliability.rs:17-18): what has been released is what was sent with an  *)
(* order index, in the order it was sent, with nothing skipped, repeated or *)
(* made up, whatever the network does to the datagrams.  It says what the   *)
(* engine does with every kind that IsOrdered; that the sequenced kinds     *)
(* among them should rather drop what is late (datagram.rs:104-111) is      *)
(* another matter, and a run's Kinds may leave them out.                    *)
OrderedPrefix ==
    /\ Len(released) <= Len(ordered)
    /\ \A i \in 1 .. Len(released) : released[i] = ordered[i]

(* The promise of OrderedChannel, implemented by the link.                  *)
Channel == INSTANCE OrderedChannel WITH
             Message <- Payload \cup {Failed}, requested <- ordered

ImplementsChannel == Channel!Spec

(* No ACK, waiting or in flight, names a datagram that has not arrived: the *)
(* coalesced records never claim a number between two they mean.            *)
AcksNameArrivals ==
    LET acks == { c \in control : c.ack }
    IN  pending_acks \cup UNION { NamedBy(c.ranges) : c \in acks }
          \subseteq { d.seq : d \in arrived }

(* "remember each sent datagram so it can be retransmitted until            *)
(* acknowledged" (reliability.rs:14-15): a datagram that has not arrived    *)
(* is still there to be resent, whatever ACKs have been processed.          *)
KeptUntilArrived == transmitted \ arrived \subseteq unacked

(* The same for the ACKs that are built of spans only, whoever writes them  *)
(* and however late or often they come: one of them takes nothing out of    *)
(* the sender's store that has not arrived.                                 *)
SpansForgetNothing ==
    [][\A c \in control : ReceiveAck(c) /\ ~HasSingle(c)
          => unacked \ unacked' \subseteq arrived]_vars

(* A payload handed over for ordered delivery is eventually released, over  *)
(* a network that loses, repeats and reorders packets of both directions.   *)
(* Two things the code does may stand in its way and are left out here: an  *)
(* ACK with a single record, which makes the sender forget what has not     *)
(* arrived (KeptUntilArrived), and a failing prepare_send, whose order      *)
(* index nothing ever fills.                                                *)
OrderedEventuallyReleased ==
    [](FailedCalls = 0 /\ \A c \in control : c.ack => ~HasSingle(c))
      => \A i \in 1 .. MaxSend : Len(ordered) >= i ~> Len(released) >= i

(* "generate ACKs for what arrived" (reliability.rs:17): the sender of a    *)
(* datagram eventually learns that it arrived and stops resending it.       *)
EventuallyAcknowledged ==
    \A p \in Payload : (\E d \in arrived : d.frame.id = p)
                         ~> (\A d \in unacked : d.frame.id # p)
=============================================================================
