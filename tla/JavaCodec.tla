----------------------------- MODULE JavaCodec -----------------------------
(***************************************************************************)
(* VarInt of src/varint.rs and the packets of src/java.rs.                  *)
(*                                                                         *)
(* A VarInt keeps its encoded bytes in a fixed array of five, zero behind   *)
(* the last one.  An i32 is a number -2^31 .. 2^31 - 1.                     *)
(***************************************************************************)
EXTENDS PacketBuf

Size == 5

Closed == [kind |-> "Error"]

(* VarInt::from(i32): the shift is made logical by masking with MAX >> 6.   *)
Groups(n) ==
    LET after[i \in 0 .. Size] ==
            IF i = 0 THEN n ELSE (after[i - 1] \div 128) % 2^25
        more(i) == after[i] # 0
    IN  [ i \in 1 .. Size |->
            IF i > 1 /\ ~more(i - 1) THEN 0
            ELSE (after[i - 1] % 128) + IF more(i) /\ i < Size THEN 128 ELSE 0 ]

(* Mutant of Written: a zero byte is always written.                        *)
WrittenPadded(inner) == inner

(* write_var_int: up to the first zero byte of the array; one zero byte for *)
(* the number zero.                                                         *)
Written(inner) ==
    LET zeros == {i \in 1 .. Size : inner[i] = 0}
    IN  IF inner[1] = 0 THEN <<0>>
        ELSE IF zeros = {} THEN inner
        ELSE SubSeq(inner, 1, Min(zeros) - 1)

WriteVarInt(n) == Written(Groups(n))

(* The number in the first bytes of data, and how many they are: the loops  *)
(* of read_var_int and recv_packet end at the first byte below 128 and give *)
(* up at a sixth byte.  The fifth byte's shift drops its upper bits.        *)
ReadVarInt(data) ==
    LET ends == {i \in 1 .. Len(data) : i <= Size /\ data[i] < 128}
        n    == Min(ends)
        low  == MapThenSumSet(LAMBDA i : (data[i] % 128) * 2^(7 * (i - 1)),
                              1 .. Min({n, 4}))
        top  == IF n < 5 THEN 0 ELSE data[5] % 16
    IN  IF ends = {} THEN [ok |-> FALSE, value |-> 0, n |-> 0]
        ELSE [ ok |-> TRUE, n |-> n,
               value |-> low + (IF top > 7 THEN top - 16 ELSE top) * 2^28 ]

(* A length and as many bytes behind it: a packet on the stream as well as  *)
(* a string.  A negative length is refused.                                 *)
Sized(bytes) == WriteVarInt(Len(bytes)) \o bytes

ReadSized(data) ==
    LET len == ReadVarInt(data)
    IN  IF /\ len.ok /\ len.value >= 0 /\ Len(data) - len.n >= len.value
        THEN [ ok |-> TRUE, n |-> len.n + len.value,
               body |-> SubSeq(data, len.n + 1, len.n + len.value) ]
        ELSE [ok |-> FALSE, n |-> 0, body |-> << >>]

(* recv_packet on everything the peer wrote before it closed the stream.    *)
RecvPacket(stream) == ReadSized(stream)

ReadString(data) ==
    LET s == ReadSized(data)
    IN  [s EXCEPT !.ok = @ /\ Utf8(s.body)]

(* What the client writes: the handshake with its next state 1, and the two *)
(* requests.                                                                *)
HandshakePayload(m) ==
    <<0>> \o WriteVarInt(m.protocol_version) \o Sized(m.host) \o PutU16(m.port)
          \o WriteVarInt(1)

EncodeJava(m) ==
    CASE m.kind = "Handshake" -> Sized(HandshakePayload(m))
      [] m.kind = "StatusRequest" -> Sized(<<0>>)
      [] m.kind = "StatusResponse" -> Sized(<<0>> \o Sized(m.json))
      [] m.kind = "PingRequest" -> Sized(<<1>> \o m.time)
      [] m.kind = "PongResponse" -> Sized(<<1>> \o m.time)

(* Behind recv_packet: the checks of send on the two answers.               *)
ReadStatus(stream) ==
    LET p == RecvPacket(stream)
        s == ReadString(Tail(p.body))
    IN  IF ~p.ok \/ p.body = << >> \/ p.body[1] # 0 \/ ~s.ok THEN Closed
        ELSE [kind |-> "StatusResponse", json |-> s.body]

EchoIs(body, sent) == SubSeq(body, 2, 9) = sent

ReadPong(stream, sent) ==
    LET p == RecvPacket(stream)
    IN  IF ~p.ok \/ Len(p.body) < 9 \/ p.body[1] # 1 \/ ~EchoIs(p.body, sent)
        THEN Closed
        ELSE [kind |-> "PongResponse", time |-> SubSeq(p.body, 2, 9)]

(* What the server makes of the client's packets.                           *)
JavaServerReads(stream) ==
    LET p       == RecvPacket(stream)
        version == ReadVarInt(Tail(p.body))
        host    == ReadString(SubSeq(p.body, version.n + 2, Len(p.body)))
        tail    == SubSeq(p.body, version.n + host.n + 2, Len(p.body))
    IN  IF ~p.ok \/ p.body = << >> THEN Closed
        ELSE IF p.body = <<0>> THEN [kind |-> "StatusRequest"]
        ELSE IF p.body[1] = 1 /\ Len(p.body) = 9
             THEN [kind |-> "PingRequest", time |-> Tail(p.body)]
        ELSE IF p.body[1] = 0 /\ version.ok /\ host.ok /\ Len(tail) = 3 /\ tail[3] = 1
             THEN [ kind |-> "Handshake", protocol_version |-> version.value,
                    host |-> host.body, port |-> 256 * tail[1] + tail[2] ]
        ELSE Closed
=============================================================================
