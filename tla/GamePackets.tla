----------------------------- MODULE GamePackets -----------------------------
(***************************************************************************)
(* The game layer of src/bedrock/protocol.rs: varuint32, game packets and   *)
(* batches, and the payloads of src/bedrock/login.rs.                       *)
(*                                                                         *)
(* The compressor is the flate2 library.  All that is assumed of it is that *)
(* a stream starts with the two bytes of a zlib header, ends with a check   *)
(* value, and gives back what was put in; what it returns for a stream that *)
(* breaks off is not modelled.                                              *)
(***************************************************************************)
EXTENDS PacketBuf

ID_BATCH == 254
COMPRESSION_FLATE  == 0
COMPRESSION_SNAPPY == 1
COMPRESSION_NONE   == 65535
Legacy == -1                        \* before NetworkSettings: no prefix byte

Refused == [kind |-> "Error"]

(* What one in the i-th byte of a varint counts: seven bits a byte.         *)
Place == <<1, 128, 16384, 2097152, 268435456>>

(* write_varuint32: the groups of seven bits up to the highest that is not  *)
(* zero, each but the last marked.                                          *)
WriteVaruint32(v) ==
    LET n == Max({ i \in 1 .. 5 : i = 1 \/ v >= Place[i] })
    IN  [ i \in 1 .. n |-> ((v \div Place[i]) % 128) + IF i < n THEN 128 ELSE 0 ]

(* Where a varint may end: the loop takes at most five bytes.               *)
LastByte(data) == { i \in 1 .. Len(data) : i <= 5 /\ data[i] < 128 }

(* read_varuint32: its value and length, no value when it is cut off or too *)
(* long.  The upper bits of the fifth byte are shifted out.                 *)
ReadVaruint32(data) ==
    LET ends == LastByte(data)
        n    == Min(ends)
        part(i) == IF i > n THEN 0
                   ELSE (data[i] % (IF i = 5 THEN 16 ELSE 128)) * Place[i]
    IN  IF ends = {} THEN [ok |-> FALSE, value |-> 0, n |-> 0]
        ELSE [ ok |-> TRUE, n |-> n,
               value |-> part(1) + part(2) + part(3) + part(4) + part(5) ]

(* Zig-zag: small numbers of either sign are small varints.                 *)
WriteVarint32(v) == WriteVaruint32(IF v >= 0 THEN 2 * v ELSE -2 * v - 1)
Unzigzag(zz)     == IF zz % 2 = 0 THEN zz \div 2 ELSE -(zz \div 2) - 1

Counted(bytes) == WriteVaruint32(Len(bytes)) \o bytes

EncodePacket(p) == WriteVaruint32(p.id) \o Counted(p.payload)

Behind(data, n) == SubSeq(data, n + 1, Len(data))
Slice(data, start, n) ==
    IF Len(data) - start >= n THEN SubSeq(data, start + 1, start + n) ELSE << >>

(* GamePacket::decode at the start of data, and what is behind it.          *)
DecodePacket(data) ==
    LET id    == ReadVaruint32(data)
        len   == ReadVaruint32(Behind(data, id.n))
        start == id.n + len.n
    IN  [ ok     |-> id.ok /\ len.ok /\ Len(data) - start >= len.value,
          packet |-> [ id      |-> id.value,
                       payload |-> Slice(data, start, len.value) ],
          rest   |-> Behind(data, start + len.value) ]

BatchBody(packets) ==
    FlattenSeq([i \in DOMAIN packets |-> EncodePacket(packets[i])])

(* decode_batch_body: all packets, or the first one's error.                *)
DecodeBatchBody(body) ==
    LET decode[n \in 0 .. Len(body)] ==          \* the last n bytes
            LET p == DecodePacket(Behind(body, Len(body) - n))
            IN  IF n = 0 THEN [kind |-> "Batch", packets |-> << >>]
                ELSE IF ~p.ok \/ decode[Len(p.rest)] = Refused THEN Refused
                ELSE [ kind |-> "Batch",
                       packets |-> <<p.packet>> \o decode[Len(p.rest)].packets ]
    IN  decode[Len(body)]

Check(data) == (Len(data) + IF data = << >> THEN 1 ELSE 3 * data[Len(data)]) % 251
Deflate(data) == <<120, 156>> \o data \o <<Check(data)>>

Inflates(s) == /\ Len(s) >= 3 /\ s[1] = 120 /\ s[2] = 156
               /\ s = Deflate(SubSeq(s, 3, Len(s) - 1))
Inflate(s)  == SubSeq(s, 3, Len(s) - 1)

(* encode_batch, and encode_batch_legacy for algorithm Legacy.              *)
BatchEncodes(algorithm) == algorithm \in {Legacy, COMPRESSION_FLATE, COMPRESSION_NONE}
EncodeBatch(packets, algorithm) ==
    <<ID_BATCH>> \o
      CASE algorithm = Legacy -> Deflate(BatchBody(packets))
        [] algorithm = COMPRESSION_FLATE ->
             <<COMPRESSION_FLATE>> \o Deflate(BatchBody(packets))
        [] algorithm = COMPRESSION_NONE -> BatchBody(packets)

(* Mutant of DecodeBatch: only the shape negotiated by NetworkSettings.     *)
DecodeBatchModern(data) ==
    IF data = << >> \/ data[1] # ID_BATCH THEN Refused
    ELSE LET rest == Tail(data)
         IN  IF /\ rest # << >> /\ rest[1] = COMPRESSION_FLATE
                /\ Inflates(Tail(rest))
             THEN DecodeBatchBody(Inflate(Tail(rest)))
             ELSE DecodeBatchBody(rest)

(* decode_batch: the three shapes, tried in this order.                     *)
DecodeBatch(data) ==
    IF data = << >> \/ data[1] # ID_BATCH THEN Refused
    ELSE LET rest == Tail(data)
         IN  IF /\ rest # << >> /\ rest[1] = COMPRESSION_FLATE
                /\ Inflates(Tail(rest))
             THEN DecodeBatchBody(Inflate(Tail(rest)))
             ELSE IF Inflates(rest) THEN DecodeBatchBody(Inflate(rest))
             ELSE DecodeBatchBody(rest)

(* ---- the payloads of the login packets ---- *)

RequestNetworkSettings(protocol) == WriteVarint32(protocol)

DecodeRequestNetworkSettings(data) ==
    LET v == ReadVaruint32(data)
    IN  IF ~v.ok THEN Refused
        ELSE [kind |-> "RequestNetworkSettings", protocol |-> Unzigzag(v.value)]

(* The server's packet; the throttle scalar is four bytes of a float.       *)
NetworkSettings(m) ==
    PutU16(m.compression_threshold) \o PutU16(m.compression_algorithm)
      \o <<IF m.client_throttle THEN 1 ELSE 0, m.client_throttle_threshold>>
      \o m.client_throttle_scalar

DecodeNetworkSettings(data) ==
    LET c == Cursor(data)
    IN  IF ~Ensure(c, 10) THEN Refused
        ELSE [ kind |-> "NetworkSettings",
               compression_threshold     |-> U16(c),
               compression_algorithm     |-> U16(Skip(c, 2)),
               client_throttle           |-> U8(Skip(c, 4)) # 0,
               client_throttle_threshold |-> U8(Skip(c, 5)),
               client_throttle_scalar    |-> Bytes(Skip(c, 6), 4) ]

(* login_packet around build_offline_connection_request: the protocol and,  *)
(* inside one counted slice, the counted chain and the counted client data. *)
LoginPayload(m) ==
    WriteVarint32(m.protocol) \o Counted(Counted(m.chain) \o Counted(m.client_data))

(* A counted slice at the start of data (ServerHandshake::decode_payload).  *)
DecodeCounted(data) ==
    LET len == ReadVaruint32(data)
    IN  [ ok   |-> len.ok /\ Len(data) - len.n >= len.value,
          body |-> Slice(data, len.n, len.value),
          rest |-> Behind(data, len.n + len.value) ]

ServerHandshakeJwt(data) ==
    LET jwt == DecodeCounted(data)
    IN  IF ~jwt.ok \/ ~Utf8(jwt.body) THEN Refused
        ELSE [kind |-> "ServerHandshake", jwt |-> jwt.body]

(* What a server reads of the Login packet.                                 *)
ServerReadsLogin(data) ==
    LET v       == ReadVaruint32(data)
        request == DecodeCounted(Behind(data, v.n))
        chain   == DecodeCounted(request.body)
        client  == DecodeCounted(chain.rest)
    IN  IF ~(v.ok /\ request.ok /\ chain.ok /\ client.ok) THEN Refused
        ELSE [ kind |-> "Login", protocol |-> Unzigzag(v.value),
               chain |-> chain.body, client_data |-> client.body ]
=============================================================================
