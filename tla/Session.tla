------------------------------ MODULE Session ------------------------------
(***************************************************************************)
(* ReliableConnection of src/bedrock/reliable_conn.rs around its engine:    *)
(* the calls of the application, the tick task, and the two queues between  *)
(* them.                                                                    *)
(*                                                                         *)
(* Calls run in tasks of an executor with several threads, so a step of one *)
(* task is what it does between two points where others may come between;   *)
(* the caller may drop a call at an await.  What the engine does with a     *)
(* datagram is taken from OrderedChannel: it releases some next frames of   *)
(* the peer's ordered stream.  Frames are named by their position there.    *)
(***************************************************************************)
EXTENDS Integers, Sequences, FiniteSets, Functions

CONSTANTS
    Receivers,         \* tasks that call recv and connect_online
    Senders,           \* tasks that only send
    Streams,           \* what the peer may send: kinds of frames, in order
    DeliveryCapacity,  \* DELIVERY_CHANNEL
    OutgoingCapacity,  \* OUTGOING_CHANNEL
    MaxBatch,          \* bound: ordered frames one datagram releases
    MaxDatagrams,      \* bound: datagrams that arrive
    MaxFaults         \* bound: errors from outside, and calls dropped

Kinds == {"app", "ping", "pong", "accepted", "disconnect", "malformed"}

ASSUME SessionAssumption ==
    /\ Streams \subseteq Seq(Kinds)
    /\ {DeliveryCapacity, OutgoingCapacity, MaxBatch, MaxDatagrams,
        MaxFaults} \subseteq Nat

VARIABLES
    pc, call, hand,    \* each receiver: where it is, in which call, and the
                       \* frames handle_incoming has yet to deal with
    stream,            \* the peer's ordered frames
    next,              \* how many of them the engine has released
    datagrams,         \* how many datagrams have arrived
    pending_acks,      \* ReliabilityEngine::pending_acks
    silent,            \* nothing received for the whole inactivity window
    delivery,          \* the queue of frames for recv
    outgoing,          \* the queue of packets from the tick task
    ticking,           \* the tick task still runs
    online, disconnected,    \* SessionState
    faults,
    \* history, read by no action
    sent,              \* messages of the online handshake that were sent
    acked,             \* datagrams whose ACK was given to the socket
    dropped,           \* a packet was lost between the engine and the socket
    returned,          \* application frames recv has returned, in order
    handled,           \* system frames dealt with
    lost,              \* frames in the hand of a call that ended
    failed,            \* a call has returned an error, or was dropped
    overflowed         \* the tick task has found its queue full

tasks   == <<pc, call, hand>>
engine  == <<next, datagrams, pending_acks, silent>>
state   == <<online, disconnected>>
told    == <<returned, handled, lost, failed>>
wire    == <<sent, acked, dropped>>
ticker  == <<ticking, overflowed>>
vars    == <<tasks, stream, engine, delivery, outgoing, ticker, state, faults,
             wire, told>>

Handshakes == {"request", "newincoming"}
UnorderedPing == 0         \* a ping in an unordered frame
Kind(f) == IF f = UnorderedPing THEN "ping" ELSE stream[f]

Init ==
    /\ pc = [t \in Receivers |-> "idle"]
    /\ call = [t \in Receivers |-> "none"]
    /\ hand = [t \in Receivers |-> << >>]
    /\ stream \in Streams
    /\ next = 0 /\ datagrams = 0
    /\ pending_acks = {}
    /\ silent = FALSE
    /\ delivery = << >> /\ outgoing = << >>
    /\ ticking = TRUE
    /\ online = FALSE /\ disconnected = FALSE
    /\ faults = 0
    /\ sent = {} /\ acked = {} /\ dropped = FALSE
    /\ returned = << >> /\ handled = {} /\ lost = {}
    /\ failed = FALSE /\ overflowed = FALSE
-----------------------------------------------------------------------------
(* Parts of steps                                                           *)

Goto(t, place) == pc' = [pc EXCEPT ![t] = place] /\ UNCHANGED call

(* The call ends, and what it still had in hand is gone.                    *)
Leave(t) ==
    /\ pc' = [pc EXCEPT ![t] = "idle"]
    /\ call' = [call EXCEPT ![t] = "none"]
    /\ hand' = [hand EXCEPT ![t] = << >>]
    /\ lost' = lost \cup (Range(hand[t]) \ {UnorderedPing})

Fail(t) == Leave(t) /\ failed' = TRUE /\ UNCHANGED <<returned, handled>>

(* Something fails for a reason outside.                                    *)
Fault == faults < MaxFaults /\ faults' = faults + 1

(* A call fails for one: a socket error, a bad packet, the caller.          *)
Broken(t) == Fault /\ Fail(t)

(* The packets of the queue at the places ks are given to the socket, which *)
(* refuses some: the error is ignored, and the packet is out of the queue.  *)
GiveToSocket(ks, refused) ==
    acked' = acked \cup UNION { outgoing[k] : k \in ks \ refused }

(* flush_outgoing: everything the tick task has queued goes out.            *)
FlushOutgoing ==
    \E refused \in SUBSET DOMAIN outgoing :
        /\ GiveToSocket(DOMAIN outgoing, refused)
        /\ outgoing' = << >>
        /\ \/ refused = {} /\ UNCHANGED <<faults, dropped>>
           \/ refused # {} /\ Fault /\ dropped' = TRUE

(* send: the message, then a flush.                                         *)
Send(kind) == sent' = sent \cup ({kind} \cap Handshakes) /\ FlushOutgoing

SendFails == UNCHANGED <<wire, outgoing>>

(* A flush that its call is dropped in: the packet that was on its way from *)
(* the queue into the socket is gone.                                       *)
FlushCut ==
    \/ UNCHANGED <<outgoing, acked, dropped>>
    \/ \E k \in DOMAIN outgoing : \E refused \in SUBSET (1 .. k - 1) :
          /\ GiveToSocket(1 .. k - 1, refused)
          /\ outgoing' = SubSeq(outgoing, k + 1, Len(outgoing))
          /\ dropped' = TRUE

(* A send that fails, or that its call is dropped in.                       *)
SendCut(kind) ==
    \/ SendFails
    \/ sent' = sent \cup ({kind} \cap Handshakes) /\ FlushCut
-----------------------------------------------------------------------------
(* Calls of the application                                                 *)

CallRecv(t) ==
    /\ pc[t] = "idle"
    /\ pc' = [pc EXCEPT ![t] = "check"]
    /\ call' = [call EXCEPT ![t] = "recv"]
    /\ UNCHANGED <<hand, stream, engine, delivery, outgoing, ticker, state,
                   faults, wire, told>>

(* connect_online, to be called once: sends the ConnectionRequest.          *)
CallConnect(t) ==
    /\ pc[t] = "idle" /\ "request" \notin sent
    /\ \/ /\ Send("request")
          /\ pc' = [pc EXCEPT ![t] = "check"]
          /\ call' = [call EXCEPT ![t] = "connect"]
          /\ UNCHANGED <<hand, told>>
       \/ SendCut("request") /\ Broken(t)
    /\ UNCHANGED <<stream, engine, delivery, ticker, state>>

(* send, ping and disconnect, from any task.                                *)
CallSend ==
    /\ \/ Send("other")
       \/ SendCut("other") /\ Fault
    /\ UNCHANGED <<tasks, stream, engine, delivery, ticker, state, told>>

(* Mutant of TakeDelivered: the newest frame is taken first.                *)
TakeNewest(t) ==
    /\ pc[t] = "check" /\ call[t] = "recv"
    /\ IF delivery # << >>
       THEN /\ returned' = Append(returned, delivery[Len(delivery)])
            /\ delivery' = SubSeq(delivery, 1, Len(delivery) - 1)
            /\ Leave(t)
            /\ UNCHANGED <<handled, failed>>
       ELSE Goto(t, "pump") /\ UNCHANGED <<hand, delivery, told>>
    /\ UNCHANGED <<stream, engine, outgoing, ticker, state, faults, wire>>

(* The top of recv's loop.                                                  *)
TakeDelivered(t) ==
    /\ pc[t] = "check" /\ call[t] = "recv"
    /\ IF delivery # << >>
       THEN /\ returned' = Append(returned, Head(delivery))
            /\ delivery' = Tail(delivery)
            /\ Leave(t)
            /\ UNCHANGED <<handled, failed>>
       ELSE /\ Goto(t, "pump")
            /\ UNCHANGED <<hand, delivery, told>>
    /\ UNCHANGED <<stream, engine, outgoing, ticker, state, faults, wire>>

(* The top of connect_online's loop: online, disconnected, too late, or on. *)
CheckOnline(t) ==
    /\ pc[t] = "check" /\ call[t] = "connect"
    /\ \/ online /\ Leave(t) /\ UNCHANGED <<returned, handled, failed>>
       \/ ~online /\ disconnected /\ Fail(t)
       \/ ~online /\ ~disconnected /\ Goto(t, "pump") /\ UNCHANGED <<hand, told>>
    /\ UNCHANGED <<stream, engine, delivery, outgoing, ticker, state, faults,
                   wire>>

ConnectTimesOut(t) ==
    /\ pc[t] = "check" /\ call[t] = "connect" /\ ~online
    /\ Fail(t)
    /\ UNCHANGED <<stream, engine, delivery, outgoing, ticker, state, faults,
                   wire>>
-----------------------------------------------------------------------------
(* handle_incoming                                                          *)

(* Mutant of Recorded: the engine keeps the last ACK only.                  *)
RecordedLast(new) ==
    /\ datagrams < MaxDatagrams
    /\ datagrams' = datagrams + 1
    /\ silent' = FALSE
    /\ pending_acks' = IF new THEN {datagrams'} ELSE pending_acks

(* on_datagram_received: the window may call the datagram new or old.       *)
Recorded(new) ==
    /\ datagrams < MaxDatagrams
    /\ datagrams' = datagrams + 1
    /\ silent' = FALSE
    /\ pending_acks' = IF new THEN pending_acks \cup {datagrams'}
                       ELSE pending_acks

(* A datagram: its unordered frames come first, then the ordered frames it  *)
(* releases, which an old one may do as well.  The engine's lock is given   *)
(* up before they are dealt with.                                           *)
ReceiveDatagram(t, new, unordered, n) ==
    /\ pc[t] = "pump"
    /\ Recorded(new)
    /\ next + n <= Len(stream)
    /\ next' = next + n
    /\ hand' = [hand EXCEPT ![t] = unordered \o [i \in 1 .. n |-> next + i]]
    /\ Goto(t, "deliver")
    /\ UNCHANGED <<stream, delivery, outgoing, ticker, state, faults, wire, told>>

(* An ACK or NACK: the engine's books, and resends straight to the socket.  *)
ReceiveControl(t) ==
    /\ pc[t] = "pump"
    /\ \/ Goto(t, "flush") /\ UNCHANGED <<hand, faults, told>>
       \/ Broken(t)
    /\ UNCHANGED <<stream, engine, delivery, outgoing, ticker, state, wire>>

(* A socket error, a packet that does not decode (a late reply of the       *)
(* offline handshake is one), or a fragment the reassembler refuses: the    *)
(* datagram has been recorded by then.                                      *)
PumpFails(t) ==
    /\ pc[t] = "pump"
    /\ Broken(t)
    /\ \/ UNCHANGED engine
       \/ \E new \in BOOLEAN : Recorded(new) /\ UNCHANGED next
    /\ UNCHANGED <<stream, delivery, outgoing, ticker, state, wire>>

(* Nothing has come for RECV_POLL_INTERVAL.                                 *)
PollTimesOut(t) ==
    /\ pc[t] = "pump"
    /\ Goto(t, "flush")
    /\ UNCHANGED <<hand, stream, engine, delivery, outgoing, ticker, state,
                   faults, wire, told>>

(* The frame at the head of the hand has been dealt with.                   *)
DropHead(t) ==
    /\ hand' = [hand EXCEPT ![t] = Tail(@)]
    /\ UNCHANGED <<pc, call>>

HandledHead(t) ==
    /\ handled' = handled \cup ({Head(hand[t])} \ {UnorderedPing})
    /\ UNCHANGED <<returned, lost, failed>>

AtHead(t, kinds) ==
    pc[t] = "deliver" /\ hand[t] # << >> /\ Kind(Head(hand[t])) \in kinds

(* Mutant of Forward: a frame that finds the queue full is skipped.         *)
ForwardOrSkip(t) ==
    /\ AtHead(t, {"app"})
    /\ delivery' = IF Len(delivery) < DeliveryCapacity
                   THEN Append(delivery, Head(hand[t])) ELSE delivery
    /\ DropHead(t)
    /\ UNCHANGED <<stream, engine, outgoing, ticker, state, faults, wire, told>>

(* Mutant of Forward: the call waits until the queue has room.              *)
ForwardWhenRoom(t) ==
    /\ AtHead(t, {"app"})
    /\ Len(delivery) < DeliveryCapacity
    /\ delivery' = Append(delivery, Head(hand[t]))
    /\ DropHead(t)
    /\ UNCHANGED <<stream, engine, outgoing, ticker, state, faults, wire, told>>

(* An application frame goes into the delivery queue; if it is full the     *)
(* call fails.                                                              *)
Forward(t) ==
    /\ AtHead(t, {"app"})
    /\ IF Len(delivery) < DeliveryCapacity
       THEN /\ delivery' = Append(delivery, Head(hand[t]))
            /\ DropHead(t)
            /\ UNCHANGED told
       ELSE Fail(t) /\ UNCHANGED delivery
    /\ UNCHANGED <<stream, engine, outgoing, ticker, state, faults, wire>>

(* A ping is answered with a pong.                                          *)
AnswerPing(t) ==
    /\ AtHead(t, {"ping"})
    /\ \/ Send("pong") /\ DropHead(t) /\ HandledHead(t)
       \/ SendCut("pong") /\ Broken(t)
    /\ UNCHANGED <<stream, engine, delivery, ticker, state>>

(* Mutant of ReplyNewIncoming: the session is online before the reply.      *)
ReplyOnlineFirst(t) ==
    /\ AtHead(t, {"accepted"})
    /\ online' = TRUE
    /\ \/ /\ Send("newincoming") /\ Goto(t, "confirm")
          /\ UNCHANGED <<hand, told>>
       \/ SendCut("newincoming") /\ Broken(t)
    /\ UNCHANGED <<stream, engine, delivery, ticker, disconnected>>

(* on_request_accepted: the NewIncomingConnection, ...                      *)
ReplyNewIncoming(t) ==
    /\ AtHead(t, {"accepted"})
    /\ \/ /\ Send("newincoming") /\ Goto(t, "confirm")
          /\ UNCHANGED <<hand, told>>
       \/ SendCut("newincoming") /\ Broken(t)
    /\ UNCHANGED <<stream, engine, delivery, ticker, state>>

(* ... then the state.                                                      *)
ConfirmOnline(t) ==
    /\ pc[t] = "confirm"
    /\ online' = TRUE
    /\ hand' = [hand EXCEPT ![t] = Tail(@)]
    /\ HandledHead(t)
    /\ Goto(t, "deliver")
    /\ UNCHANGED <<stream, engine, delivery, outgoing, ticker, disconnected,
                   faults, wire>>

(* A pong's times and a disconnect are noted in the state.                  *)
NoteState(t) ==
    /\ AtHead(t, {"pong", "disconnect"})
    /\ disconnected' = (disconnected \/ Kind(Head(hand[t])) = "disconnect")
    /\ DropHead(t)
    /\ HandledHead(t)
    /\ UNCHANGED <<stream, engine, delivery, outgoing, ticker, online, faults,
                   wire>>

(* A body that message::classify refuses.                                   *)
BadBody(t) ==
    /\ AtHead(t, {"malformed"})
    /\ Fail(t)
    /\ UNCHANGED <<stream, engine, delivery, outgoing, ticker, state, faults,
                   wire>>

AllDelivered(t) ==
    /\ pc[t] = "deliver" /\ hand[t] = << >>
    /\ Goto(t, "flush")
    /\ UNCHANGED <<hand, stream, engine, delivery, outgoing, ticker, state,
                   faults, wire, told>>

(* Mutant of Flush: the queue is left alone.                                *)
FlushNothing(t) ==
    /\ pc[t] = "flush"
    /\ Goto(t, "check")
    /\ UNCHANGED <<hand, stream, engine, delivery, outgoing, ticker, state,
                   faults, wire, told>>

(* The end of handle_incoming, and of an idle poll.                         *)
Flush(t) ==
    /\ pc[t] = "flush"
    /\ FlushOutgoing
    /\ Goto(t, "check")
    /\ UNCHANGED <<hand, stream, engine, delivery, ticker, state, sent, told>>

(* The caller drops the call (a timeout around it) at an await.  An         *)
(* application frame is forwarded without one; see SendCut for the sends.   *)
Cancel(t) ==
    /\ \/ pc[t] \in {"pump", "confirm"} /\ SendFails
       \/ AtHead(t, {"pong", "disconnect"}) /\ SendFails
       \/ pc[t] = "flush" /\ FlushCut /\ UNCHANGED sent
    /\ Broken(t)
    /\ UNCHANGED <<stream, engine, delivery, ticker, state>>
-----------------------------------------------------------------------------
(* The tick task                                                            *)

(* Mutant of Tick: the queue has no limit.                                  *)
TickUnbounded(others) ==
    /\ ticking
    /\ pending_acks' = {}
    /\ IF silent THEN ticking' = FALSE /\ UNCHANGED outgoing
       ELSE /\ outgoing' = Append(outgoing, pending_acks) \o others
            /\ UNCHANGED ticking
    /\ UNCHANGED <<tasks, stream, next, datagrams, silent, delivery, state,
                   faults, wire, told, overflowed>>

(* One tick: ACKs, and perhaps a NACK or resends, into the queue as far as  *)
(* there is room.  An ACK that does not encode is left out.  When the       *)
(* session has been silent too long the task ends, and what it had drained  *)
(* goes with it.                                                            *)
Tick(others) ==
    \E encoded \in {pending_acks, {}} :
        LET acks    == IF encoded = {} THEN << >> ELSE <<encoded>>
            packets == acks \o others
            room    == OutgoingCapacity - Len(outgoing)
            fits    == IF Len(packets) <= room THEN Len(packets) ELSE room
        IN  /\ ticking
            /\ pending_acks' = {}
            /\ \/ encoded = pending_acks /\ UNCHANGED <<faults, dropped>>
               \/ encoded # pending_acks /\ Fault /\ dropped' = TRUE
            /\ IF silent
               THEN ticking' = FALSE /\ UNCHANGED <<outgoing, overflowed>>
               ELSE /\ outgoing' = outgoing \o SubSeq(packets, 1, fits)
                    /\ overflowed' = (overflowed \/ fits < Len(packets))
                    /\ UNCHANGED ticking
            /\ UNCHANGED <<tasks, stream, next, datagrams, silent, delivery,
                           state, sent, acked, told>>

NackOrResend == <<{}>>      \* a packet that acknowledges nothing

(* The inactivity window passes without a datagram.                         *)
FallSilent ==
    /\ ~silent
    /\ silent' = TRUE
    /\ UNCHANGED <<tasks, stream, next, datagrams, pending_acks, delivery,
                   outgoing, ticker, state, faults, wire, told>>
-----------------------------------------------------------------------------
(* What a receiver does by itself: all but dropping the call.               *)
Deliver(t) ==
    \/ Forward(t) \/ AnswerPing(t) \/ ReplyNewIncoming(t) \/ ConfirmOnline(t)
    \/ NoteState(t) \/ BadBody(t) \/ AllDelivered(t)

Step(t) ==
    \/ CallRecv(t) \/ TakeDelivered(t) \/ CheckOnline(t)
    \/ PollTimesOut(t) \/ Deliver(t) \/ Flush(t)

Receive(t) ==
    \/ \E new \in BOOLEAN, unordered \in {<< >>, <<UnorderedPing>>},
          n \in 0 .. MaxBatch : ReceiveDatagram(t, new, unordered, n)
    \/ ReceiveControl(t)
    \/ PumpFails(t)

Next ==
    \/ \E t \in Receivers : \/ CallConnect(t)
                            \/ Step(t)
                            \/ ConnectTimesOut(t)
                            \/ Receive(t)
                            \/ Cancel(t)
    \/ Senders # {} /\ CallSend
    \/ \E others \in {<< >>, NackOrResend} : Tick(others)
    \/ FallSilent

Spec == Init /\ [][Next]_vars

(***************************************************************************)
(* Fairness.  The executor runs every task that can go on, the tick task    *)
(* included (weak fairness); the application calls recv again whenever a    *)
(* call has returned; and connect_online's deadline, once past, stays past, *)
(* so that the check that is made again and again finds it (strong          *)
(* fairness).  The network owes nothing: a datagram may never come.         *)
(***************************************************************************)
Fairness ==
    /\ \A t \in Receivers : WF_vars(Step(t)) /\ SF_vars(ConnectTimesOut(t))
    /\ WF_vars(Tick(<< >>))

FairSpec == Spec /\ Fairness
-----------------------------------------------------------------------------
Frames    == 1 .. Len(stream)
Places    == {"idle", "check", "pump", "deliver", "confirm", "flush"}

TypeOK ==
    /\ pc \in [Receivers -> Places]
    /\ call \in [Receivers -> {"none", "recv", "connect"}]
    /\ hand \in [Receivers -> Seq(Frames \cup {UnorderedPing})]
    /\ stream \in Streams
    /\ next \in 0 .. Len(stream)
    /\ datagrams \in 0 .. MaxDatagrams
    /\ pending_acks \subseteq 1 .. datagrams
    /\ delivery \in Seq(Frames) /\ Len(delivery) <= DeliveryCapacity
    /\ outgoing \in Seq(SUBSET (1 .. datagrams))
    /\ Len(outgoing) <= OutgoingCapacity
    /\ faults \in 0 .. MaxFaults
    /\ {silent, ticking, online, disconnected, failed, overflowed, dropped}
         \subseteq BOOLEAN
    /\ sent \subseteq Handshakes
    /\ acked \subseteq 1 .. datagrams
    /\ returned \in Seq(Frames)
    /\ handled \cup lost \subseteq Frames

(* recv returns the application frames of the peer's stream in their order  *)
(* (reliable_conn.rs:12-13), none twice; and it leaves one out only after   *)
(* a call has failed or was dropped, which takes the frames in its hand     *)
(* with it.                                                                 *)
ReturnedInOrder ==
    /\ \A i, j \in DOMAIN returned : i < j => returned[i] < returned[j]
    /\ \A f \in Frames, i \in DOMAIN returned :
          (Kind(f) = "app" /\ f < returned[i] /\ f \notin Range(returned))
             => failed /\ f \in lost

(* The session is online when "the server accepted the connection" and "we  *)
(* replied NewIncomingConnection" (reliable_conn.rs:229-231): the acceptance *)
(* has been released to a task and the reply has been given to the socket,  *)
(* whatever send fails or call is dropped in between, and whether or not    *)
(* the request's own first transmission went out.                           *)
OnlineConfirmed ==
    online => /\ "newincoming" \in sent
              /\ \E f \in 1 .. next : Kind(f) = "accepted"

(* Every frame the engine releases comes to something: recv returns it, the *)
(* session answers or notes it, or a call that failed was holding it.  No   *)
(* frame waits for ever in a queue.                                         *)
EveryFrameHandled ==
    \A f \in UNION { DOMAIN s : s \in Streams } :
        next >= f ~> f \in Range(returned) \cup handled \cup lost

(* "The ACK for this datagram is flushed by the tick task"                  *)
(* (reliable_conn.rs:569), also when the network falls idle                 *)
(* (reliable_conn.rs:62-64): while the tick task lives, its queue has not   *)
(* been full and no packet was lost between the engine and the socket, an   *)
(* ACK that is due reaches the socket.                                      *)
AcksFlushed ==
    \A d \in 1 .. MaxDatagrams :
        d \in pending_acks
            ~> d \in acked \/ overflowed \/ ~ticking \/ dropped

(* An ACK the engine owes stays owed, in its list or in a packet of the     *)
(* queue, until the socket has it.  A step forgets it only when the tick    *)
(* task finds the queue full (reliable_conn.rs:635-640), when it ends       *)
(* (:630-632), or when a packet is lost: it does not encode (:616-618), the *)
(* caller drops the call between the queue and the socket (:580-584), or    *)
(* the socket refuses it, which is ignored (:582-584) and, for an ACK, not  *)
(* made good by the "next resend window" that the comment there trusts in.  *)
Owed == pending_acks \cup acked \cup UNION Range(outgoing)

AcksKept ==
    [][\/ Owed \subseteq Owed'
       \/ overflowed' /\ Len(outgoing') = OutgoingCapacity
       \/ ticking # ticking'
       \/ dropped' /\ faults' > faults]_vars

(* Whatever number of tasks pump the session, every ordered frame the       *)
(* engine has released is at one place and at one only: returned, in the    *)
(* queue, in one task's hand, dealt with, or lost with a call.  None        *)
(* vanishes between the engine's lock and the queue                         *)
(* (reliable_conn.rs:520-530), none comes to the application twice.         *)
Once(s)  == \A i, j \in DOMAIN s : s[i] = s[j] /\ s[i] # UnorderedPing => i = j
One(S)   == \E x \in S : S = {x}

Holders(f) == { t \in Receivers : f \in Range(hand[t]) }
Stores(f) ==
    LET frames == [returned |-> Range(returned), delivery |-> Range(delivery),
                   handled |-> handled, lost |-> lost]
    IN  { store \in DOMAIN frames : f \in frames[store] }

ReleasedOnce ==
    /\ Once(returned) /\ Once(delivery) /\ \A t \in Receivers : Once(hand[t])
    /\ \A f \in 1 .. next : \/ One(Stores(f)) /\ Holders(f) = {}
                            \/ Stores(f) = {} /\ One(Holders(f))

(* "The session is considered dead after the inactivity window elapses, at  *)
(* which point ReliableConnection::recv returns an error"                   *)
(* (reliable_conn.rs:31-33), by the closing of the channel                  *)
(* (reliable_conn.rs:628-629).                                              *)
DeadSessionFails == ~ticking ~> failed
=============================================================================
