---------------------------- MODULE OfflineCodec ----------------------------
(***************************************************************************)
(* The connectionless packets: the unconnected ping and pong of             *)
(* src/bedrock/ping.rs and the requests, replies and rejections of          *)
(* src/bedrock/conn.rs, all of them read through PacketBuf.                 *)
(*                                                                         *)
(* The client writes the ping and the two requests and reads the rest; what *)
(* the server writes follows the layouts the parsers expect.                *)
(***************************************************************************)
EXTENDS PacketBuf

FixedLength == 1 + Len(MAGIC) + 1               \* of a Request 1 (18)

NotMine   == [kind |-> "Other"]                 \* Ok(None): keep waiting
Malformed == [kind |-> "Error"]

PutOfflineAddr(a) == <<4>> \o a.ip \o PutU16(a.port)

DecodeOfflineAddr(b) == [ip |-> SubSeq(b, 2, 5), port |-> 256 * b[6] + b[7]]

(* The text of a pong: the fields, each followed by a semicolon except      *)
(* perhaps the last.                                                        *)
Semicolon == 59
ServerId(m) ==
    LET terminated == FlattenSeq([i \in DOMAIN m.fields |->
                                     Append(m.fields[i], Semicolon)])
    IN  IF m.terminated \/ terminated = << >> THEN terminated
        ELSE SubSeq(terminated, 1, Len(terminated) - 1)

EncodeOffline(m) ==
    CASE m.kind = "UnconnectedPing" -> <<1>> \o m.time \o MAGIC \o m.client_guid
      [] m.kind = "Pong" ->
           <<28>> \o m.time \o m.server_guid \o MAGIC
                  \o PutU16(Len(ServerId(m))) \o ServerId(m)
      [] m.kind = "Request1" ->
           <<5>> \o MAGIC \o <<m.protocol>>
                 \o [i \in 1 .. (IF m.mtu > FixedLength THEN m.mtu - FixedLength
                                                        ELSE 0) |-> 0]
      [] m.kind = "Reply1" ->
           <<6>> \o MAGIC \o m.server_guid \o <<IF m.use_encryption THEN 1 ELSE 0>>
                 \o PutU16(m.mtu)
      [] m.kind = "Request2" ->
           <<7>> \o MAGIC \o PutOfflineAddr(m.client_addr) \o PutU16(m.mtu)
                 \o m.client_guid
      [] m.kind = "Reply2" ->
           <<8>> \o MAGIC \o m.server_guid \o PutOfflineAddr(m.client_addr)
                 \o PutU16(m.mtu) \o <<IF m.use_encryption THEN 1 ELSE 0>>
      [] m.kind = "IncompatibleProtocol" -> <<9>> \o MAGIC \o <<m.server_protocol>>
      [] m.kind = "IpBanned"             -> <<10>> \o MAGIC
      [] m.kind = "AlreadyConnected"     -> <<11>> \o MAGIC
      [] m.kind = "NoFreeIncomingConnections" -> <<12>> \o MAGIC

ParseReply1(data) ==
    LET guid == ExpectMagic(ExpectId(Cursor(data), 6))
        flag == Skip(guid, 8)
        mtu  == Skip(flag, 1)
    IN  IF ~Skip(mtu, 2).ok THEN Malformed
        ELSE [ kind |-> "Reply1", server_guid |-> Bytes(guid, 8),
               use_encryption |-> U8(flag) # 0, mtu |-> U16(mtu) ]

ParseReply2(data) ==
    LET guid == ExpectMagic(ExpectId(Cursor(data), 8))
        addr == Skip(guid, 8)
        mtu  == Skip(Fail(U8(addr) # 4, addr), 7)
        flag == Skip(mtu, 2)
    IN  IF ~Skip(flag, 1).ok THEN Malformed
        ELSE [ kind |-> "Reply2", server_guid |-> Bytes(guid, 8),
               client_addr |-> DecodeOfflineAddr(Bytes(addr, 7)),
               mtu |-> U16(mtu), use_encryption |-> U8(flag) # 0 ]

(* A rejection whose magic is cut off or wrong is no rejection; a missing   *)
(* protocol version counts as 0.                                            *)
ClassifyRejection(data) ==
    LET body == ExpectMagic(Skip(Cursor(data), 1))
    IN  IF ~body.ok THEN NotMine
        ELSE CASE data[1] = 9 -> [ kind |-> "IncompatibleProtocol",
                                   server_protocol |-> U8(body) ]
               [] data[1] = 10 -> [kind |-> "IpBanned"]
               [] data[1] = 11 -> [kind |-> "AlreadyConnected"]
               [] data[1] = 12 -> [kind |-> "NoFreeIncomingConnections"]

(* The fields between the semicolons; an empty one behind the last          *)
(* semicolon is dropped (split_terminator).                                 *)
SplitFields(raw) ==
    LET ends == SelectSeq([i \in DOMAIN raw |-> i], LAMBDA i : raw[i] = Semicolon)
        cuts == IF raw = << >> \/ raw[Len(raw)] = Semicolon THEN ends
                ELSE Append(ends, Len(raw) + 1)
    IN  [ i \in DOMAIN cuts |->
            SubSeq(raw, IF i = 1 THEN 1 ELSE cuts[i - 1] + 1, cuts[i] - 1) ]

(* What does not parse counts as 0.                                         *)
ParseOr0(field, max) == IF Parses(field, max) THEN NumberOf(field) ELSE 0

(* Mutant of FieldAt: the fields counted from one behind the edition.       *)
FieldAtNext(fields, i) == IF i + 2 \in DOMAIN fields THEN fields[i + 2] ELSE << >>

FieldAt(fields, i) == IF i + 1 \in DOMAIN fields THEN fields[i + 1] ELSE << >>

(* parse_server_id_string.  The largest u32 is not reached with MaxDigits.  *)
ParseServerId(raw) ==
    LET f == SplitFields(raw)
        num(i, max) == ParseOr0(FieldAt(f, i), max)
    IN  [ fields           |-> f,
          texts            |-> [i \in {0, 1, 3, 6, 7, 8} |-> FieldAt(f, i)],
          protocol_version |-> num(2, 999999999),
          player_count     |-> num(4, 999999999),
          max_players      |-> num(5, 999999999),
          gamemode_numeric |-> num(9, 999999999),
          port_ipv4        |-> num(10, U16Max),
          port_ipv6        |-> num(11, U16Max) ]

(* parse_pong: what follows the declared text is not looked at.             *)
ParsePong(data) ==
    LET time   == ExpectId(Cursor(data), 28)
        guid   == Skip(time, 8)
        length == ExpectMagic(Skip(guid, 8))
        text   == Skip(length, 2)
    IN  IF \/ ~text.ok \/ ~Skip(text, U16(length)).ok
           \/ ~Utf8(Bytes(text, U16(length)))
        THEN Malformed
        ELSE [ kind |-> "Pong", time |-> Bytes(time, 8),
               server_guid |-> Bytes(guid, 8),
               id |-> ParseServerId(Bytes(text, U16(length))) ]

(* What the client's receive loops make of a packet: the ping waits for     *)
(* 0x1C, the handshake's two stages for their reply or a rejection.         *)
ReceiveOffline(data) ==
    CASE data = << >> -> NotMine
      [] data # << >> /\ data[1] = 28 -> ParsePong(data)
      [] data # << >> /\ data[1] = 6  -> ParseReply1(data)
      [] data # << >> /\ data[1] = 8  -> ParseReply2(data)
      [] data # << >> /\ data[1] \in 9 .. 12 -> ClassifyRejection(data)
      [] OTHER -> NotMine

(* The server's reading of what the client wrote, by the same layouts.      *)
ServerReads(data) ==
    LET p == ExpectMagic(Skip(Cursor(data), 1))
    IN  CASE data # << >> /\ data[1] = 1 /\ Ensure(Cursor(data), 33) ->
               [ kind |-> "UnconnectedPing", time |-> SubSeq(data, 2, 9),
                 client_guid |-> SubSeq(data, 26, 33) ]
          [] data # << >> /\ data[1] = 5 /\ Ensure(p, 1) ->
               [kind |-> "Request1", protocol |-> U8(p), mtu |-> Len(data)]
          [] data # << >> /\ data[1] = 7 /\ Ensure(p, 17) ->
               [ kind |-> "Request2",
                 client_addr |-> DecodeOfflineAddr(Bytes(p, 7)),
                 mtu |-> U16(Skip(p, 7)), client_guid |-> Bytes(Skip(p, 9), 8) ]
          [] OTHER -> Malformed
=============================================================================
