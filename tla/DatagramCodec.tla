--------------------------- MODULE DatagramCodec ---------------------------
(***************************************************************************)
(* The connected wire format of src/bedrock/datagram.rs: frames, datagrams, *)
(* ACK and NACK packets, and their dispatch on the first byte.              *)
(***************************************************************************)
EXTENDS PacketBuf

None == -1                                      \* Option::None

FLAG_DATAGRAM == 128
FLAG_ACK      == 192
FLAG_NACK     == 160

(* Reliability by its raw value: Unreliable, UnreliableSequenced, Reliable, *)
(* ReliableOrdered, ReliableSequenced.                                      *)
Reliabilities == 0 .. 4
CarriesReliable(r) == r \in {2, 3, 4}
CarriesSequence(r) == r \in {1, 4}
CarriesOrder(r)    == r \in {1, 3, 4}

NoSplit == [count |-> None, id |-> None, index |-> None]

Invalid == [kind |-> "Invalid"]                 \* the parser's Err

PutBit(cond, value) == IF cond THEN value ELSE 0
PutIf(cond, bytes)  == IF cond THEN bytes ELSE << >>

(* What encode() checks before it writes a frame.                           *)
FrameEncodes(f) ==
    /\ CarriesReliable(f.reliability) <=> f.reliable_index # None
    /\ CarriesSequence(f.reliability) <=> f.sequence_index # None
    /\ CarriesOrder(f.reliability)    <=> f.order_index # None
    /\ \A i \in {f.reliable_index, f.sequence_index, f.order_index} : i <= U24Max
    /\ 8 * Len(f.body) <= U16Max

EncodeFrame(f) ==
    <<32 * f.reliability + PutBit(f.split # NoSplit, 16)>>
      \o PutU16(8 * Len(f.body))
      \o PutIf(CarriesReliable(f.reliability), PutU24LE(f.reliable_index))
      \o PutIf(CarriesSequence(f.reliability), PutU24LE(f.sequence_index))
      \o PutIf(CarriesOrder(f.reliability),
               PutU24LE(f.order_index) \o <<f.order_channel>>)
      \o PutIf(f.split # NoSplit, PutU32(f.split.count) \o PutU16(f.split.id)
                                    \o PutU32(f.split.index))
      \o f.body

(* Frame::decode: the frame at the cursor, and the cursor behind it.        *)
DecodeFrame(c) ==
    LET r      == U8(c) \div 32
        split  == (U8(c) \div 16) % 2 = 1
        length == Skip(Fail(r \notin Reliabilities, c), 1)
        bits   == U16(length)
        c1     == Skip(Fail(bits % 8 # 0, length), 2)
        c2     == SkipIf(CarriesReliable(r), c1, 3)
        c3     == SkipIf(CarriesSequence(r), c2, 3)
        c4     == SkipIf(CarriesOrder(r), c3, 3)
        c5     == SkipIf(CarriesOrder(r), c4, 1)
        c6     == SkipIf(split, c5, 10)
    IN  [ frame |->
            [ reliability    |-> r,
              reliable_index |-> IF CarriesReliable(r) THEN U24LE(c1) ELSE None,
              sequence_index |-> IF CarriesSequence(r) THEN U24LE(c2) ELSE None,
              order_index    |-> IF CarriesOrder(r) THEN U24LE(c3) ELSE None,
              order_channel  |-> IF CarriesOrder(r) THEN U8(c4) ELSE 0,
              split          |-> IF split
                                 THEN [ count |-> U32(c5),
                                        id    |-> U16(Skip(c5, 4)),
                                        index |-> U32(Skip(c5, 6)) ]
                                 ELSE NoSplit,
              body           |-> Bytes(c6, bits \div 8) ],
          next  |-> Skip(c6, bits \div 8) ]

EncodeDatagram(d) ==
    <<FLAG_DATAGRAM>> \o PutU24LE(d.sequence_number)
      \o FlattenSeq([i \in DOMAIN d.frames |-> EncodeFrame(d.frames[i])])

(* The loop of Datagram::decode over the frames, from each position on.     *)
DecodeDatagram(data) ==
    LET body == Skip(Cursor(data), 1)
        from[pos \in 0 .. Len(data)] ==
            IF pos = Len(data) THEN [ok |-> TRUE, frames |-> << >>]
            ELSE LET f == DecodeFrame([body EXCEPT !.pos = pos])
                 IN  IF ~f.next.ok THEN [ok |-> FALSE, frames |-> << >>]
                     ELSE LET rest == from[f.next.pos]
                          IN  [rest EXCEPT !.frames = <<f.frame>> \o @]
        start == Skip(body, 3)
    IN  IF ~start.ok \/ ~from[start.pos].ok THEN Invalid
        ELSE [ kind |-> "Datagram", sequence_number |-> U24LE(body),
               frames |-> from[start.pos].frames ]

EncodeRange(r) ==
    IF r.end = None THEN <<1>> \o PutU24LE(r.start)
    ELSE <<0>> \o PutU24LE(r.start) \o PutU24LE(r.end)

(* Acknowledgement::encode; the ranges are a list of at most 2^16 - 1.      *)
EncodeAck(a) ==
    <<IF a.is_ack THEN FLAG_ACK ELSE FLAG_NACK>> \o PutU16(Len(a.ranges))
      \o FlattenSeq([i \in DOMAIN a.ranges |-> EncodeRange(a.ranges[i])])

IsSingle(marker) == marker = 1

(* The records are read one after the other, as many as the count says;     *)
(* what follows them is not looked at.                                      *)
DecodeAck(data, is_ack) ==
    LET head  == Skip(Cursor(data), 1)
        read[n \in 0 .. Len(data)] ==
            IF n = 0 THEN [c |-> Skip(head, 2), ranges |-> << >>]
            ELSE LET before == read[n - 1]
                     start  == Skip(before.c, 1)
                     end    == Skip(start, 3)
                     single == IsSingle(U8(before.c))
                 IN  [ c      |-> SkipIf(~single, end, 3),
                       ranges |-> Append(before.ranges,
                           [start |-> U24LE(start),
                            end |-> IF single THEN None ELSE U24LE(end)]) ]
        \* more records than bytes cannot be there
        too_many == U16(head) > Len(data)
    IN  IF ~Ensure(head, 2) \/ too_many \/ ~read[U16(head)].c.ok THEN Invalid
        ELSE [ kind   |-> IF is_ack THEN "Ack" ELSE "Nack",
               ranges |-> read[U16(head)].ranges ]

(* Mutant of Classify: bit 6 alone tells an ACK from the rest.              *)
ClassifyBySixthBit(data) ==
    IF data = << >> THEN Invalid
    ELSE IF data[1] >= 192 THEN DecodeAck(data, TRUE)
    ELSE IF data[1] >= 128 THEN DecodeDatagram(data)
    ELSE Invalid

(* classify: 0xC0 is an ACK, then bit 5 a NACK, then bit 7 a datagram.      *)
Classify(data) ==
    IF data = << >> THEN Invalid
    ELSE IF data[1] >= 192 THEN DecodeAck(data, TRUE)
    ELSE IF data[1] >= 128 /\ (data[1] \div 32) % 2 = 1
         THEN DecodeAck(data, FALSE)
    ELSE IF data[1] >= 128 THEN DecodeDatagram(data)
    ELSE Invalid
=============================================================================
