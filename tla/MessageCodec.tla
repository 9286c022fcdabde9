---------------------------- MODULE MessageCodec ----------------------------
(***************************************************************************)
(* The connected system messages of src/bedrock/message.rs: what they are   *)
(* on the wire and how a frame's body is classified.  The decoders index    *)
(* into slices, so that besides a value and an error they can end in a      *)
(* panic.                                                                   *)
(***************************************************************************)
EXTENDS PacketBuf

SystemAddressCount == 20

Error == [kind |-> "Error"]
Panic == [kind |-> "Panic"]

NotByte(b) == 255 - b

(* encode_addr_v4: the octets are inverted, unlike in the offline form.     *)
EncodeAddr(a) == <<4>> \o [i \in 1 .. 4 |-> NotByte(a.ip[i])] \o PutU16(a.port)

(* decode_addr_v4 of seven bytes; the family is not looked at.              *)
DecodeAddr(b) ==
    [ip |-> [i \in 1 .. 4 |-> NotByte(b[i + 1])], port |-> 256 * b[6] + b[7]]

NoAddress == [ip |-> <<0, 0, 0, 0>>, port |-> 0]

(* Twenty slots: what is more is left out, what is missing filled up.       *)
EncodeAddresses(as) ==
    FlattenSeq([ i \in 1 .. SystemAddressCount |->
                   EncodeAddr(IF i <= Len(as) THEN as[i] ELSE NoAddress) ])

EncodeMessage(m) ==
    CASE m.kind = "ConnectedPing" -> <<0>> \o m.time
      [] m.kind = "ConnectedPong" -> <<3>> \o m.ping_time \o m.pong_time
      [] m.kind = "ConnectionRequest" ->
           <<9>> \o m.client_guid \o m.request_time
                 \o <<IF m.use_security THEN 1 ELSE 0>>
      [] m.kind = "ConnectionRequestAccepted" ->
           <<16>> \o EncodeAddr(m.client_address) \o PutU16(m.system_index)
                  \o EncodeAddresses(m.system_addresses)
                  \o m.ping_time \o m.pong_time
      [] m.kind = "NewIncomingConnection" ->
           <<19>> \o EncodeAddr(m.server_address)
                  \o EncodeAddresses(m.system_addresses)
                  \o m.ping_time \o m.pong_time
      [] m.kind = "Disconnect" -> <<21>>
      [] m.kind = "Application" -> m.body

(* Bytes first .. first + n - 1 of the message, counted from 0 behind the   *)
(* id as the decoders do.                                                   *)
Field(rest, first, n) == SubSeq(rest, first + 1, first + n)

AddressesAt(rest, first) ==
    [ i \in 1 .. SystemAddressCount |->
        DecodeAddr(Field(rest, first + 7 * (i - 1), 7)) ]

DecodePing(rest) ==
    IF Len(rest) < 8 THEN Error
    ELSE [kind |-> "ConnectedPing", time |-> Field(rest, 0, 8)]

DecodePong(rest) ==
    IF Len(rest) < 16 THEN Error
    ELSE [ kind |-> "ConnectedPong", ping_time |-> Field(rest, 0, 8),
           pong_time |-> Field(rest, 8, 8) ]

(* A request without its last byte counts as one without security.          *)
DecodeRequest(rest) ==
    IF Len(rest) < 16 THEN Error
    ELSE [ kind |-> "ConnectionRequest", client_guid |-> Field(rest, 0, 8),
           request_time |-> Field(rest, 8, 8),
           use_security |-> Len(rest) > 16 /\ rest[17] # 0 ]

(* The slice of the system index is taken without a check: a body that ends *)
(* inside it panics.                                                        *)
DecodeAccepted(rest) ==
    IF Len(rest) < 7 THEN Error
    ELSE IF Len(rest) < 9 THEN Panic
    ELSE IF Len(rest) < 165 THEN Error
    ELSE [ kind |-> "ConnectionRequestAccepted",
           client_address |-> DecodeAddr(Field(rest, 0, 7)),
           system_index |-> 256 * rest[8] + rest[9],
           system_addresses |-> AddressesAt(rest, 9),
           ping_time |-> Field(rest, 149, 8),
           pong_time |-> Field(rest, 157, 8) ]

DecodeIncoming(rest) ==
    IF Len(rest) < 163 THEN Error
    ELSE [ kind |-> "NewIncomingConnection",
           server_address |-> DecodeAddr(Field(rest, 0, 7)),
           system_addresses |-> AddressesAt(rest, 7),
           ping_time |-> Field(rest, 147, 8),
           pong_time |-> Field(rest, 155, 8) ]

(* message::classify                                                        *)
ClassifyMessage(body) ==
    LET rest == Tail(body)
    IN  CASE body = << >> -> Error
          [] body # << >> /\ body[1] = 0  -> DecodePing(rest)
          [] body # << >> /\ body[1] = 3  -> DecodePong(rest)
          [] body # << >> /\ body[1] = 9  -> DecodeRequest(rest)
          [] body # << >> /\ body[1] = 16 -> DecodeAccepted(rest)
          [] body # << >> /\ body[1] = 19 -> DecodeIncoming(rest)
          [] body # << >> /\ body[1] = 21 -> [kind |-> "Disconnect"]
          [] OTHER -> [kind |-> "Application", body |-> body]
=============================================================================
