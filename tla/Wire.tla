-------------------------------- MODULE Wire --------------------------------
(***************************************************************************)
(* Everything mcget writes or reads, on its way from one end to the other:  *)
(* an item is encoded, may be cut short underway (a UDP packet by a full    *)
(* receive buffer, a TCP stream by its end), and is read by the code that   *)
(* would receive it.                                                        *)
(*                                                                         *)
(* An item is a value with its family, which names the socket, the layer    *)
(* and so the reader; within a family the reader tells the packets apart    *)
(* by their bytes.                                                          *)
(***************************************************************************)
EXTENDS Integers, Sequences

CONSTANTS
    Items,       \* what is sent, each [family, value]
    MaxCuts,     \* a longer packet is cut only near its two ends
    DefaultPort

D == INSTANCE DatagramCodec
M == INSTANCE MessageCodec
G == INSTANCE GamePackets
O == INSTANCE OfflineCodec
J == INSTANCE JavaCodec
H == INSTANCE HostPort

(* What can be sent on an open session: every value of the fields' types.   *)
(* Indices that do not belong to a frame's kind, or are too large, are      *)
(* encode()'s to refuse; a channel belongs to an order index.               *)
Byte  == 0 .. 255
Index == 0 .. D!U24Max
U16   == 0 .. D!U16Max
U32   == { v \in Nat : v \div 65536 \in U16 }
Eight == [1 .. 8 -> Byte]

AnyFrame ==
    { f \in [ reliability    : D!Reliabilities,
              reliable_index : Nat \cup {D!None},
              sequence_index : Nat \cup {D!None},
              order_index    : Nat \cup {D!None},
              order_channel  : Byte,
              split : [count : U32, id : U16, index : U32] \cup {D!NoSplit},
              body  : Seq(Byte) ] :
        D!CarriesOrder(f.reliability) \/ f.order_channel = 0 }

AnyDatagram ==
    [kind : {"Datagram"}, sequence_number : Index, frames : Seq(AnyFrame)]

AnyAck ==
    { a \in [ kind   : {"Ack", "Nack"},
              ranges : Seq([start : Index, end : D!None .. D!U24Max]) ] :
        Len(a.ranges) \in U16 }

Address == [ip : [1 .. 4 -> Byte], port : U16]

(* An application's body does not start with the id of a system message.    *)
AnyMessage ==
    [kind : {"ConnectedPing"}, time : Eight]
      \cup [kind : {"ConnectedPong"}, ping_time : Eight, pong_time : Eight]
      \cup [ kind : {"ConnectionRequest"}, client_guid : Eight,
             request_time : Eight, use_security : BOOLEAN ]
      \cup [ kind : {"ConnectionRequestAccepted"}, client_address : Address,
             system_index : U16, system_addresses : Seq(Address),
             ping_time : Eight, pong_time : Eight ]
      \cup [ kind : {"NewIncomingConnection"}, server_address : Address,
             system_addresses : Seq(Address),
             ping_time : Eight, pong_time : Eight ]
      \cup [kind : {"Disconnect"}]
      \cup { m \in [kind : {"Application"}, body : Seq(Byte)] :
               m.body # << >> /\ m.body[1] \notin {0, 3, 9, 16, 19, 21} }

(* What the game layer sends.  A batch that is not compressed is read back  *)
(* only if its packets do not look like one that is (protocol.rs:249-284).  *)
U31   == { v \in Nat : 2 * v \in U32 }
I32   == { v \in Int : v \in U31 \/ -v - 1 \in U31 }
Short == { s \in Seq(Byte) : Len(s) \in U32 }

LooksCompressed(body) ==
    \/ G!Inflates(body)
    \/ body # << >> /\ body[1] = G!COMPRESSION_FLATE /\ G!Inflates(Tail(body))

AnyBatch ==
    { b \in [ kind : {"Batch"}, packets : Seq([id : U32, payload : Short]),
              algorithm : U16 \cup {G!Legacy} ] :
        b.algorithm = G!COMPRESSION_NONE => ~LooksCompressed(G!BatchBody(b.packets)) }

AnySettings ==
    [ kind : {"NetworkSettings"}, compression_threshold : U16,
      compression_algorithm : U16, client_throttle : BOOLEAN,
      client_throttle_threshold : Byte, client_throttle_scalar : [1 .. 4 -> Byte] ]

AnyRequest == [kind : {"RequestNetworkSettings"}, protocol : I32]

AnyHandshake == [kind : {"ServerHandshake"}, jwt : { s \in Short : G!Utf8(s) }]

AnyLogin ==
    { m \in [kind : {"Login"}, protocol : I32, chain : Short, client_data : Short] :
        G!Counted(m.chain) \o G!Counted(m.client_data) \in Short }

ASSUME ItemsAssumption ==
    \A i \in Items :
        /\ i.family = "datagram"  => i.value \in AnyDatagram \cup AnyAck
        /\ i.family = "message"   => i.value \in AnyMessage
        /\ i.family = "batch"     => i.value \in AnyBatch
        /\ i.family = "settings"  => i.value \in AnySettings
        /\ i.family = "request"   => i.value \in AnyRequest
        /\ i.family = "handshake" => i.value \in AnyHandshake
        /\ i.family = "login"     => i.value \in AnyLogin

VARIABLES item, wire, cut, received

wireVars == <<item, wire, cut, received>>

NotYet == [kind |-> "nothing yet"]

Join(target) ==
    LET address == IF target.bracketed THEN <<H!Opening>> \o target.host \o <<H!Closing>>
                   ELSE target.host
    IN  IF target.port = D!None THEN address
        ELSE address \o <<H!Colon>> \o target.digits

Encodes(i) ==
    CASE i.family = "datagram" /\ i.value.kind = "Datagram" ->
           \A k \in DOMAIN i.value.frames : D!FrameEncodes(i.value.frames[k])
      [] i.family = "batch" -> G!BatchEncodes(i.value.algorithm)
      [] OTHER -> TRUE

Encode(i) ==
    CASE i.family = "datagram" /\ i.value.kind = "Datagram" -> D!EncodeDatagram(i.value)
      [] i.family = "datagram" /\ i.value.kind # "Datagram" ->
           D!EncodeAck([is_ack |-> i.value.kind = "Ack", ranges |-> i.value.ranges])
      [] i.family = "message" -> M!EncodeMessage(i.value)
      [] i.family = "batch"   -> G!EncodeBatch(i.value.packets, i.value.algorithm)
      [] i.family = "settings"  -> G!NetworkSettings(i.value)
      [] i.family = "request"   -> G!RequestNetworkSettings(i.value.protocol)
      [] i.family = "handshake" -> G!Counted(i.value.jwt)
      [] i.family = "login"     -> G!LoginPayload(i.value)
      [] i.family \in {"offline", "to server"}      -> O!EncodeOffline(i.value)
      [] i.family \in {"java", "java pong", "to java"} -> J!EncodeJava(i.value)
      [] i.family = "target" -> Join(i.value)

(* A batch is the body of a frame: it is a packet of the application first. *)
ReadBatch(bytes) ==
    IF M!ClassifyMessage(bytes).kind = "Application" THEN G!DecodeBatch(bytes)
    ELSE G!Refused

Read(i, bytes) ==
    CASE i.family = "datagram"  -> D!Classify(bytes)
      [] i.family = "message"   -> M!ClassifyMessage(bytes)
      [] i.family = "batch"     -> ReadBatch(bytes)
      [] i.family = "settings"  -> G!DecodeNetworkSettings(bytes)
      [] i.family = "request"   -> G!DecodeRequestNetworkSettings(bytes)
      [] i.family = "handshake" -> G!ServerHandshakeJwt(bytes)
      [] i.family = "login"     -> G!ServerReadsLogin(bytes)
      [] i.family = "offline"   -> O!ReceiveOffline(bytes)
      [] i.family = "to server" -> O!ServerReads(bytes)
      [] i.family = "java"      -> J!ReadStatus(bytes)
      [] i.family = "java pong" -> J!ReadPong(bytes, i.value.sent)
      [] i.family = "to java"   -> J!JavaServerReads(bytes)
      [] i.family = "target"    -> [ address |-> H!ParseHostPort(bytes, DefaultPort),
                                     host    |-> H!HostString(bytes) ]

WireInit == item = NotYet /\ wire = << >> /\ cut = FALSE /\ received = NotYet

(* An encoder that refuses its value puts nothing on the wire.              *)
Send ==
    /\ item = NotYet
    /\ \E i \in Items : /\ Encodes(i)
                        /\ item' = i
                        /\ wire' = Encode(i)
    /\ UNCHANGED <<cut, received>>

(* What can be cut: not a target, which is typed, not what a server reads,  *)
(* and not a compressed batch, whose reading is the compressor's.           *)
Cuttable(i) ==
    /\ i.family \notin {"target", "to server"}
    /\ i.family = "batch" => i.value.algorithm = G!COMPRESSION_NONE

Cut ==
    /\ item # NotYet /\ received = NotYet /\ ~cut /\ Cuttable(item)
    /\ \E n \in 0 .. Len(wire) - 1 :
           /\ Len(wire) > MaxCuts => n < 4 \/ n > Len(wire) - 4
           /\ wire' = SubSeq(wire, 1, n)
    /\ cut' = TRUE
    /\ UNCHANGED <<item, received>>

Receive ==
    /\ item # NotYet /\ received = NotYet
    /\ received' = Read(item, wire)
    /\ UNCHANGED <<item, wire, cut>>

WireNext == Send \/ Cut \/ Receive

WireSpec == WireInit /\ [][WireNext]_wireVars
------------------------------------------------------------------------------
(* What the reader should make of an item that arrives whole.               *)

(* The fields of a server's list text, one missing at its end if it is      *)
(* empty.                                                                   *)
SentFields(v) ==
    LET n == Len(v.fields)
    IN  IF v.terminated \/ n = 0 \/ v.fields[n] # << >> THEN v.fields
        ELSE SubSeq(v.fields, 1, n - 1)

Number(v, i) == IF i + 1 \in DOMAIN v.numbers THEN v.numbers[i + 1] ELSE 0

SentPong(v) ==
    [ kind |-> "Pong", time |-> v.time, server_guid |-> v.server_guid,
      id |-> [ fields |-> SentFields(v),
               texts  |-> [ i \in {0, 1, 3, 6, 7, 8} |->
                              IF i + 1 \in DOMAIN v.fields THEN v.fields[i + 1]
                              ELSE << >> ],
               protocol_version |-> Number(v, 2),
               player_count     |-> Number(v, 4),
               max_players      |-> Number(v, 5),
               gamemode_numeric |-> Number(v, 9),
               port_ipv4        |-> Number(v, 10),
               port_ipv6        |-> Number(v, 11) ] ]

Filled(addresses) ==
    [ k \in 1 .. M!SystemAddressCount |->
        IF k \in DOMAIN addresses THEN addresses[k] ELSE M!NoAddress ]

Sent(i) ==
    LET v == i.value
    IN  CASE i.family = "message" /\ "system_addresses" \in DOMAIN v ->
               [v EXCEPT !.system_addresses = Filled(@)]
          [] i.family = "batch" -> [kind |-> "Batch", packets |-> v.packets]
          [] i.family = "offline" /\ v.kind = "Pong" -> SentPong(v)
          [] i.family = "to server" /\ v.kind = "Request1" ->
               [v EXCEPT !.mtu = IF @ < O!FixedLength THEN O!FixedLength ELSE @]
          [] i.family = "java pong" ->
               IF v.time = v.sent THEN [kind |-> "PongResponse", time |-> v.time]
               ELSE J!Closed
          [] i.family = "target" ->
               [ address |-> [ host |-> v.host,
                               port |-> IF v.port = D!None THEN DefaultPort ELSE v.port ],
                 host |-> v.host ]
          [] OTHER -> v

ReadBack(families) ==
    received # NotYet /\ ~cut /\ item.family \in families => received = Sent(item)

(* What is sent on an open session is read back as it was sent, whatever    *)
(* numbers at their widths' limits it holds: frames with and without        *)
(* indices and split fields, any number of them in a datagram, ranges and   *)
(* system messages, by the two dispatches on a first byte that also have to *)
(* tell each from all the others (datagram.rs:694, message.rs:383).         *)
FramesReadBack == ReadBack({"datagram", "message"})

(* A batch is read back in whichever of its three shapes it was written,    *)
(* which the reader finds out by trying them in turn (protocol.rs:249), and *)
(* so are the counted payloads of the login packets.                        *)
BatchesReadBack == ReadBack({"batch", "settings", "request", "handshake", "login"})

(* The connectionless packets: each reply and rejection is taken for itself *)
(* (conn.rs:658-741), and a Pong's fields are in their places however many  *)
(* a server sends and whatever does not parse (ping.rs:283-374).            *)
OfflineReadBack == ReadBack({"offline", "to server"})

(* Java's packets with their strings and VarInts, negative ones too, a pong *)
(* only if it echoes the time that was sent (java.rs:236-441,               *)
(* varint.rs:113-232), and a typed target's host and port (addr.rs:141).    *)
JavaReadBack == ReadBack({"java", "java pong", "to java", "target"})

(* The fields that are optional at the end of a packet, or that its count   *)
(* does not cover.                                                          *)
Shortened(v) ==
    \/ /\ v.kind = "Datagram"
       /\ \E n \in 0 .. Len(v.frames) :
              received = [v EXCEPT !.frames = SubSeq(@, 1, n)]
    \/ v.kind = "ConnectionRequest" /\ received = [v EXCEPT !.use_security = FALSE]
    \/ v.kind = "IncompatibleProtocol" /\ received = [v EXCEPT !.server_protocol = 0]
    \/ /\ v.kind = "Batch"
       /\ \E n \in 0 .. Len(v.packets) :
              received = [kind |-> "Batch", packets |-> SubSeq(v.packets, 1, n)]

(* A packet that was cut short is refused, or ignored as nobody's packet,   *)
(* and never taken for another: of a datagram or a raw batch whole frames   *)
(* or packets may be left, and two fields have a default.  This is about    *)
(* what a reader returns; one does not get that far, see CutIsAnError.      *)
NeverMisread ==
    received \notin {NotYet, M!Panic} /\ cut =>
        \/ received \in {D!Invalid, M!Error, O!NotMine}
        \/ Shortened(item.value)

(* "need 2 bytes, got {}" (message.rs:343-347): a field that is cut short   *)
(* is an error of the reader, as it is for every other field of every other *)
(* packet.  For the system index of a ConnectionRequestAccepted the check   *)
(* comes too late: the slice that is handed to it is taken first, and a     *)
(* body that ends inside the field panics (message.rs:218-219).             *)
CutIsAnError == cut => received # M!Panic
=============================================================================
