------------------------------ MODULE HostPort ------------------------------
(***************************************************************************)
(* parse_host_port of src/addr.rs: a target as it is typed, split into a    *)
(* host and a port.  Texts are sequences of bytes.                          *)
(***************************************************************************)
EXTENDS PacketBuf

Colon == 58
Opening == 91
Closing == 93

Positions(s, b) == {i \in DOMAIN s : s[i] = b}

Behind(s, i) == SubSeq(s, i + 1, Len(s))

IsPort(s) == Parses(s, U16Max)

(* The last colon separates a port only behind a host without colons.       *)
Separates(s, i) == IsPort(Behind(s, i)) /\ Positions(s, Colon) = {i}

(* "[addr]:port" and "[addr]"; whatever else follows the bracket is dropped.*)
Bracketed(s, default_port) ==
    LET close == Min(Positions(s, Closing))
        after == Behind(s, close)
    IN  [ host |-> SubSeq(s, 2, close - 1),
          port |-> IF after # << >> /\ after[1] = Colon /\ IsPort(Tail(after))
                   THEN NumberOf(Tail(after)) ELSE default_port ]

ParseHostPort(s, default_port) ==
    LET colons == {i \in Positions(s, Colon) : Separates(s, i)}
    IN  IF s # << >> /\ s[1] = Opening /\ Positions(s, Closing) # {}
        THEN Bracketed(s, default_port)
        ELSE IF colons # {}
        THEN [ host |-> SubSeq(s, 1, Max(colons) - 1),
               port |-> NumberOf(Behind(s, Max(colons))) ]
        ELSE [host |-> s, port |-> default_port]

(* host_string: the host for the handshake, without brackets at its ends.   *)
HostString(s) ==
    LET host == ParseHostPort(s, 0).host
        kept == DOMAIN host \ (Positions(host, Opening) \cup Positions(host, Closing))
    IN  IF kept = {} THEN << >> ELSE SubSeq(host, Min(kept), Max(kept))
=============================================================================
