----------------------------- MODULE Reassembly -----------------------------
(***************************************************************************)
(* Split payloads: Frame::split_into on the sending side, the map of        *)
(* Reassemblers in ReliabilityEngine::on_datagram_received on the receiving *)
(* side (src/bedrock/datagram.rs, src/bedrock/reliability.rs).              *)
(*                                                                         *)
(* A payload is a sequence of chunks, a chunk being what one frame can      *)
(* carry.  The other end is either mcget itself, which packs all frames of  *)
(* a payload into one datagram, or a server, which packs frames as it       *)
(* likes: fragments apart, and frames of several payloads together.         *)
(*                                                                         *)
(* The receiver works through a datagram frame by frame, under one lock.    *)
(* The network delivers in any order, repeats, and loses (never delivers).  *)
(***************************************************************************)
EXTENDS DatagramWindow, Sequences, FiniteSets

CONSTANTS
    MaxSend,         \* bound: payloads sent
    Lengths,         \* lengths of payloads, in chunks
    Kinds,           \* reliabilities they are sent with
    IdSpace,         \* number of split ids, 2^16 in the code
    MaxFrames,       \* bound: frames a server puts into one datagram
    MaxRepeats       \* bound: deliveries of a datagram that has arrived before

ASSUME ReassemblyAssumption ==
    /\ MaxSend \in Nat
    /\ Lengths \subseteq Nat \ {0}
    /\ Kinds \subseteq {"Reliable", "ReliableOrdered"}
    /\ IdSpace \in Nat \ {0}
    /\ MaxFrames \in Nat
    /\ MaxRepeats \in Nat

VARIABLES
    \* the sender
    mcget_sends,         \* the other end is an mcget, not a server
    next_datagram_seq, next_order_index,
    outbox,              \* a server's frames not yet put into a datagram
    \* the receiver's engine
    recv_window, pending_acks,
    reassemblers,        \* split id -> group of fragments
    order_queue,         \* order_index -> body waiting for its turn
    next_delivery_order_index,
    \* the receiver's call of on_datagram_received
    current,             \* the datagram in hand, NoDatagram outside the call
    next_frame,          \* the next of its frames
    delivered,           \* the call's vector of frames to be returned
    \* the network and the history, read by no handler
    datagrams,           \* the datagrams sent
    sent,                \* the payloads sent, in order: template, length, id
    arrived,             \* those that have arrived
    repeats,             \* how many deliveries were of one that had arrived
    failed,              \* datagrams for which the call returned an error
    released,            \* ordered bodies returned, in order
    returned             \* unordered bodies returned

sender   == <<mcget_sends, next_datagram_seq, next_order_index, outbox>>
engine   == <<recv_window, pending_acks, reassemblers, order_queue,
              next_delivery_order_index>>
call     == <<current, next_frame, delivered>>
given    == <<arrived, repeats, failed, released, returned>>
vars     == <<sender, engine, call, datagrams, sent, given>>

Payload == 1 .. MaxSend
Ids     == 0 .. IdSpace - 1
NoIndex == -1                           \* Option::None
NoDatagram == [seq |-> NoIndex, frames |-> << >>]

Whole(p) == [ i \in 1 .. sent[p].length |-> <<p, i>> ]

Init ==
    /\ mcget_sends \in BOOLEAN
    /\ next_datagram_seq = 0
    /\ next_order_index = 0
    /\ outbox = << >>
    /\ recv_window = NewWindow
    /\ pending_acks = {}
    /\ reassemblers = << >>
    /\ order_queue = << >>
    /\ next_delivery_order_index = 0
    /\ current = NoDatagram
    /\ next_frame = 1
    /\ delivered = << >>
    /\ datagrams = {}
    /\ sent = << >>
    /\ arrived = {}
    /\ repeats = 0
    /\ failed = {}
    /\ released = << >>
    /\ returned = {}
-----------------------------------------------------------------------------
(* The sending side                                                         *)

(* Mutant of SplitInto: the order index goes to the first fragment only.    *)
SplitIntoFirstOnly(t, body, id) ==
    IF Len(body) <= 1
    THEN << [template |-> t, is_split |-> FALSE, count |-> 0, id |-> 0,
             index |-> 0, body |-> body] >>
    ELSE [ i \in 1 .. Len(body) |->
             [template |-> IF i = 1 THEN t ELSE [t EXCEPT !.order_index = 0],
              is_split |-> TRUE, count |-> Len(body), id |-> id,
              index |-> i - 1, body |-> <<body[i]>>] ]

(* split_into: one frame if the body fits, else a fragment for each chunk,  *)
(* all with the template's indices.                                         *)
SplitInto(t, body, id) ==
    IF Len(body) <= 1
    THEN << [template |-> t, is_split |-> FALSE, count |-> 0, id |-> 0,
             index |-> 0, body |-> body] >>
    ELSE [ i \in 1 .. Len(body) |->
             [template |-> t, is_split |-> TRUE, count |-> Len(body),
              id |-> id, index |-> i - 1, body |-> <<body[i]>>] ]

Template(kind) ==
    [ kind |-> kind,
      order_index |-> IF kind = "ReliableOrdered" THEN next_order_index
                      ELSE NoIndex ]

(* Mutant of SplitId: not cut to its width.                                 *)
SplitIdUncut ==
    IF mcget_sends THEN next_datagram_seq + 1 ELSE Len(sent)

(* (self.next_datagram_seq as u16).wrapping_add(1); a server counts its     *)
(* split payloads.                                                          *)
SplitId ==
    IF mcget_sends THEN (next_datagram_seq + 1) % IdSpace
    ELSE Len(sent) % IdSpace

NewFrames(kind, length) ==
    SplitInto(Template(kind),
              [i \in 1 .. length |-> <<Len(sent) + 1, i>>], SplitId)

Submit(kind, length) ==
    /\ Len(sent) < MaxSend
    /\ sent' = Append(sent, [ template |-> Template(kind), length |-> length,
                              id |-> IF length > 1 THEN SplitId ELSE NoIndex ])
    /\ next_order_index' = IF kind = "ReliableOrdered"
                           THEN SeqInc(next_order_index) ELSE next_order_index

Transmit(frames) ==
    /\ datagrams' = datagrams \cup {[seq |-> next_datagram_seq,
                                     frames |-> frames]}
    /\ next_datagram_seq' = SeqInc(next_datagram_seq)

(* prepare_send at an mcget: all the frames go into one datagram.           *)
PrepareSend(kind, length) ==
    /\ mcget_sends
    /\ Submit(kind, length)
    /\ Transmit(NewFrames(kind, length))
    /\ UNCHANGED <<mcget_sends, outbox, engine, call, given>>

(* A server takes a payload, and sends its frames some at a time.           *)
ServerTakes(kind, length) ==
    /\ ~mcget_sends
    /\ Submit(kind, length)
    /\ outbox' = outbox \o NewFrames(kind, length)
    /\ UNCHANGED <<mcget_sends, next_datagram_seq, engine, call, datagrams,
                   given>>

ServerSends(n) ==
    /\ n <= Len(outbox)
    /\ Transmit(SubSeq(outbox, 1, n))
    /\ outbox' = SubSeq(outbox, n + 1, Len(outbox))
    /\ UNCHANGED <<mcget_sends, next_order_index, engine, call, sent, given>>
-----------------------------------------------------------------------------
(* The receiving side                                                       *)

(* The start of on_datagram_received: the number is recorded, and will be   *)
(* acknowledged, before any frame has been looked at.                       *)
StartReceive(d) ==
    /\ current = NoDatagram
    /\ arrived' = arrived \cup {d}
    /\ repeats' = IF d \in arrived THEN repeats + 1 ELSE repeats
    /\ repeats' <= MaxRepeats
    /\ recv_window' = Record(recv_window, d.seq)
    /\ pending_acks' = IF IsNew(recv_window, d.seq)
                       THEN pending_acks \cup {d.seq} ELSE pending_acks
    /\ current' = d
    /\ next_frame' = 1
    /\ delivered' = << >>
    /\ UNCHANGED <<sender, reassemblers, order_queue,
                   next_delivery_order_index, datagrams, sent, failed,
                   released, returned>>

(* route_frame                                                              *)
Route(t, body) ==
    IF t.kind = "ReliableOrdered"
    THEN /\ order_queue' = [ i \in DOMAIN order_queue \cup {t.order_index} |->
                               IF i = t.order_index THEN body
                               ELSE order_queue[i] ]
         /\ UNCHANGED delivered
    ELSE /\ delivered' = Append(delivered, body)
         /\ UNCHANGED order_queue

(* The group a fragment belongs to: the one of its split id, or a new one   *)
(* that takes the fragment's indices as its template.                       *)
Group(f) ==
    IF f.id \in DOMAIN reassemblers THEN reassemblers[f.id]
    ELSE [template |-> f.template, count |-> 0, fragments |-> << >>]

WithoutGroup(id) ==
    [ i \in DOMAIN reassemblers \ {id} |-> reassemblers[i] ]

(* Reassembler::add: when it fails, *)
AddFails(g, f) ==
    \/ f.count = 0
    \/ f.index >= f.count
    \/ f.index \in DOMAIN g.fragments
    \/ g.fragments # << >> /\ g.count # f.count

(* ... and the group with the fragment added.                               *)
Added(g, f) ==
    [ template  |-> g.template,
      count     |-> f.count,
      fragments |-> [ i \in DOMAIN g.fragments \cup {f.index} |->
                        IF i = f.index THEN f.body[1] ELSE g.fragments[i] ] ]

Complete(g) == Cardinality(DOMAIN g.fragments) = g.count

(* Mutant of Assembled: some other order than that of the indices.          *)
AssembledBackwards(g) == [ i \in 1 .. g.count |-> g.fragments[g.count - i] ]

(* The chunks in index order.                                               *)
Assembled(g) == [ i \in 1 .. g.count |-> g.fragments[i - 1] ]

NextFrame == current.frames[next_frame]

InCall == current # NoDatagram /\ next_frame <= Len(current.frames)

Proceed == /\ next_frame' = next_frame + 1
           /\ UNCHANGED <<sender, recv_window, pending_acks,
                          next_delivery_order_index, current, datagrams, sent,
                          given>>

HandleWholeFrame ==
    /\ InCall
    /\ ~NextFrame.is_split
    /\ Route(NextFrame.template, NextFrame.body)
    /\ UNCHANGED reassemblers
    /\ Proceed

KeepFragment ==
    LET f == NextFrame
        g == Added(Group(f), f)
    IN  /\ InCall
        /\ f.is_split
        /\ ~AddFails(Group(f), f)
        /\ ~Complete(g)
        /\ reassemblers' = [ i \in DOMAIN reassemblers \cup {f.id} |->
                               IF i = f.id THEN g ELSE reassemblers[i] ]
        /\ UNCHANGED <<order_queue, delivered>>
        /\ Proceed

CompleteGroup ==
    LET f == NextFrame
        g == Added(Group(f), f)
    IN  /\ InCall
        /\ f.is_split
        /\ ~AddFails(Group(f), f)
        /\ Complete(g)
        /\ reassemblers' = WithoutGroup(f.id)
        /\ Route(g.template, Assembled(g))
        /\ Proceed

(* Mutant of FailReceive: the groups of the other ids go too.               *)
FailReceiveForgetsAll ==
    /\ InCall
    /\ NextFrame.is_split
    /\ AddFails(Group(NextFrame), NextFrame)
    /\ reassemblers' = << >>
    /\ failed' = failed \cup {current}
    /\ current' = NoDatagram
    /\ next_frame' = 1
    /\ delivered' = << >>
    /\ UNCHANGED <<sender, recv_window, pending_acks, order_queue,
                   next_delivery_order_index, datagrams, sent, arrived,
                   repeats, released, returned>>

(* add failed: the group had been taken out of the map and is gone, and the *)
(* error leaves the call with the frames still to be looked at, those       *)
(* already in delivered, and the drain of the queue.                        *)
FailReceive ==
    /\ InCall
    /\ NextFrame.is_split
    /\ AddFails(Group(NextFrame), NextFrame)
    /\ reassemblers' = WithoutGroup(NextFrame.id)
    /\ failed' = failed \cup {current}
    /\ current' = NoDatagram
    /\ next_frame' = 1
    /\ delivered' = << >>
    /\ UNCHANGED <<sender, recv_window, pending_acks, order_queue,
                   next_delivery_order_index, datagrams, sent, arrived,
                   repeats, released, returned>>

(* All frames are routed: drain_ordered, and handle_incoming has them all.  *)
FinishReceive ==
    LET run == RunLength(DOMAIN order_queue, next_delivery_order_index)
    IN  /\ current # NoDatagram
        /\ next_frame > Len(current.frames)
        /\ released' = released \o
             [ i \in 1 .. run |->
                 order_queue[SeqAdd(next_delivery_order_index, i - 1)] ]
        /\ order_queue' =
             [ i \in DOMAIN order_queue
                       \ RunOf(DOMAIN order_queue, next_delivery_order_index)
                 |-> order_queue[i] ]
        /\ next_delivery_order_index' = SeqAdd(next_delivery_order_index, run)
        /\ returned' = returned \cup { delivered[i] : i \in DOMAIN delivered }
        /\ current' = NoDatagram
        /\ next_frame' = 1
        /\ delivered' = << >>
        /\ UNCHANGED <<sender, recv_window, pending_acks, reassemblers,
                       datagrams, sent, arrived, repeats, failed>>
-----------------------------------------------------------------------------
Next ==
    \/ \E k \in Kinds, n \in Lengths : PrepareSend(k, n)
    \/ \E k \in Kinds, n \in Lengths : ServerTakes(k, n)
    \/ \E n \in 1 .. MaxFrames : ServerSends(n)
    \/ \E d \in datagrams : StartReceive(d)
    \/ HandleWholeFrame
    \/ KeepFragment
    \/ CompleteGroup
    \/ FailReceive
    \/ FinishReceive

Spec == Init /\ [][Next]_vars
-----------------------------------------------------------------------------
Chunk == Payload \X (Nat \ {0})

TemplateType == [kind : Kinds, order_index : SeqNums \cup {NoIndex}]

FrameType == [ template : TemplateType, is_split : BOOLEAN, count : Nat,
               id : Ids, index : Nat, body : Seq(Chunk) ]

DatagramType == [seq : SeqNums, frames : Seq(FrameType)]

TypeOK ==
    /\ mcget_sends \in BOOLEAN
    /\ next_datagram_seq \in SeqNums
    /\ next_order_index \in SeqNums
    /\ outbox \in Seq(FrameType)
    /\ recv_window \in Window
    /\ pending_acks \subseteq SeqNums
    /\ DOMAIN reassemblers \subseteq Ids
    /\ \A i \in DOMAIN reassemblers :
          /\ reassemblers[i].template \in TemplateType
          /\ reassemblers[i].count \in Nat
          /\ DOMAIN reassemblers[i].fragments \subseteq Nat
    /\ DOMAIN order_queue \subseteq SeqNums
    /\ next_delivery_order_index \in SeqNums
    /\ current \in DatagramType \cup {NoDatagram}
    /\ next_frame \in Nat \ {0}
    /\ datagrams \subseteq DatagramType
    /\ arrived \subseteq datagrams
    /\ failed \subseteq arrived
    /\ repeats \in 0 .. MaxRepeats
    /\ sent \in Seq([ template : TemplateType, length : Lengths,
                      id : Ids \cup {NoIndex} ])
    /\ Len(sent) <= MaxSend

(* No other split payload has this one's split id.                          *)
OwnId(p) ==
    \A q \in DOMAIN sent : q # p => sent[q].id # sent[p].id \/ sent[q].id = NoIndex

(* Frame::split_into's and Reassembler's promise, "reassembles the original *)
(* payload once all count fragments have arrived" (datagram.rs:809-810),    *)
(* through the order queue: the n-th ordered body returned is the n-th      *)
(* ordered payload (order indices count from 0), whole, as long as its      *)
(* split id was its own, whatever is lost, repeated, reordered or broken    *)
(* off in between.                                                          *)
WholeInOrder ==
    \A p \in DOMAIN sent :
        LET n == sent[p].template.order_index + 1
        IN  OwnId(p) /\ n \in DOMAIN released => released[n] = Whole(p)

(* The same for unordered payloads: nothing is returned that was not sent.  *)
(* A body that mixes payloads comes from two that share a split id.         *)
WholeUnordered ==
    \A body \in returned :
        \/ \E p \in DOMAIN sent : body = Whole(p)
        \/ \E i \in DOMAIN body : ~OwnId(body[i][1])

FramesOf(d) == { d.frames[i] : i \in DOMAIN d.frames }

Carries(d, p) == \E f \in FramesOf(d) : f.body[1][1] = p

AllArrived(p) ==
    \A i \in 1 .. sent[p].length :
        \E d \in arrived \ {current} :
            \E f \in FramesOf(d) : f.body[1] = <<p, i>>

(* Given to the caller or waiting for its turn.                             *)
Kept(p) ==
    \/ Whole(p) \in returned
    \/ \E i \in DOMAIN released    : released[i] = Whole(p)
    \/ \E i \in DOMAIN order_queue : order_queue[i] = Whole(p)

(* What a failing call costs (reliability.rs:338): a payload all of whose   *)
(* fragments have arrived is there, unless a datagram with a frame of       *)
(* its own failed or its split id was used twice.  A repeated fragment      *)
(* breaks no other group than its own, even when datagrams mix payloads and *)
(* old groups are left in the map.                                          *)
DamageConfined ==
    \A p \in DOMAIN sent :
        AllArrived(p) /\ OwnId(p) /\ (\A d \in failed : ~Carries(d, p))
          => Kept(p)
=============================================================================
