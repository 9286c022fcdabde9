------------------------------- MODULE MCWire -------------------------------
(* Samples of everything on the wire, at the limits of each field's width;  *)
(* and, beside it, the window that takes a datagram's number when it has    *)
(* been read.                                                               *)
EXTENDS Wire, WindowTracking

Of(family, values) == [family : {family}, value : values]

Edges24 == {0, 1, 255, 256, 65535, 65536, 16777215}
BodyOf(n) == [i \in 1 .. n |-> (7 * i) % 256]
Time == <<0, 0, 1, 144, 255, 128, 127, 3>>
Guid == <<255, 255, 255, 255, 255, 255, 255, 254>>
Text == <<195, 169, 65, 227, 129, 130>>                     \* two and three bytes
Addr(p) == [ip |-> <<192, 168, 0, 255>>, port |-> p]

(* Mismatched and too large frames are there for encode() to refuse.        *)
Frames ==
    [ reliability : 0 .. 4, reliable_index : {-1, 65536}, sequence_index : {-1, 300},
      order_index : {-1, 16777215}, order_channel : {0}, body : {BodyOf(2)},
      split : {D!NoSplit, [count |-> 65537, id |-> 65535, index |-> 256]} ]

Frame(e, size) ==
    [ reliability |-> 2, reliable_index |-> e, sequence_index |-> -1,
      order_index |-> -1, order_channel |-> 0, split |-> D!NoSplit,
      body |-> BodyOf(size) ]

Datagrams ==
    [kind : {"Datagram"}, sequence_number : Edges24, frames : {<< >>}]
      \cup [ kind : {"Datagram"}, sequence_number : {7},
             frames : { <<f>> : f \in Frames }
                        \cup { <<f, Frame(e, 3)>> : f \in Frames, e \in {255} }
                        \cup { <<Frame(e, 0)>> : e \in Edges24 \cup {16777216} }
                        \cup { <<Frame(1, size)>> : size \in {1, 32, 8191, 8192} } ]

Ranges == [start : {0, 65536}, end : {D!None, 16777215}]
Acks == [ kind : {"Ack", "Nack"},
          ranges : {<< >>} \cup { <<r>> : r \in Ranges }
                     \cup { <<r, s>> : r, s \in Ranges } ]

Messages ==
    [kind : {"ConnectedPing"}, time : {Time, Guid}]
      \cup [kind : {"ConnectedPong"}, ping_time : {Time}, pong_time : {Time, Guid}]
      \cup [ kind : {"ConnectionRequest"}, client_guid : {Guid}, request_time : {Time},
             use_security : BOOLEAN ]
      \cup [ kind : {"ConnectionRequestAccepted"}, client_address : {Addr(19132)},
             system_index : {0, 258}, ping_time : {Time}, pong_time : {Guid},
             system_addresses : {<< >>, <<Addr(1), Addr(65535)>>} ]
      \cup [ kind : {"NewIncomingConnection"}, server_address : {Addr(256)},
             ping_time : {Time}, pong_time : {Guid},
             system_addresses : {<<Addr(19132)>>} ]
      \cup [kind : {"Disconnect"}]

Packets == [id : {1, 127, 128, 179, 16384}, payload : {<< >>, <<0>>, BodyOf(128)}]
Batches == [ kind : {"Batch"}, packets : {<< >>} \cup { <<p>> : p \in Packets }
                         \cup { <<p, q>> : p, q \in [id : {1, 129}, payload : {<<1, 0>>}] },
             algorithm : {G!Legacy, G!COMPRESSION_FLATE, G!COMPRESSION_NONE,
                          G!COMPRESSION_SNAPPY} ]

Settings ==
    [ kind : {"NetworkSettings"}, compression_threshold : {1, 256},
      compression_algorithm : {0, 1, 65535}, client_throttle : BOOLEAN,
      client_throttle_threshold : {255}, client_throttle_scalar : {<<63, 128, 0, 0>>} ]

Protocols == {0, -1, 63, -64, 64, 924, 8191, 8192, -1048577, 536870911}

Word(n) == CASE n = 0 -> <<48>> [] n = 19132 -> <<49, 57, 49, 51, 50>>
             [] n = 65535 -> <<54, 53, 53, 51, 53>>
             [] n = 65536 -> <<54, 53, 53, 51, 54>>
FullFields == << <<77>>, Text, Word(65536), <<49, 46>>, Word(0), <<43>> \o Word(19132),
                 <<45, 49>>, << >>, <<83>>, <<49, 120>>, Word(65535), Word(65536) >>
FullNumbers == <<0, 0, 65536, 0, 0, 19132, 0, 0, 0, 0, 65535, 0>>
Pongs == { [ kind |-> "Pong", time |-> Time, server_guid |-> Guid,
             fields |-> SubSeq(FullFields, 1, n), numbers |-> SubSeq(FullNumbers, 1, n),
             terminated |-> t ] : n \in 0 .. 12, t \in BOOLEAN }

Offline ==
    Pongs \cup [kind : {"Reply1"}, server_guid : {Guid}, use_encryption : BOOLEAN,
                mtu : {46, 1492, 65535}]
          \cup [kind : {"Reply2"}, server_guid : {Guid}, client_addr : {Addr(60000)},
                mtu : {1200}, use_encryption : BOOLEAN]
          \cup [kind : {"IncompatibleProtocol"}, server_protocol : {0, 11}]
          \cup [kind : {"IpBanned", "AlreadyConnected", "NoFreeIncomingConnections"}]
ToServer ==
    [kind : {"UnconnectedPing"}, time : {Time}, client_guid : {Guid}]
      \cup [kind : {"Request1"}, protocol : {11}, mtu : {0, 17, 18, 19, 46, 1492}]
      \cup [kind : {"Request2"}, client_addr : {Addr(443)}, mtu : {1200},
            client_guid : {Guid}]

Versions == {0, 1, 127, 128, 16383, 16384, 2097151, 268435456, 2147483647, -1, -128}
ToJava == [kind : {"Handshake"}, protocol_version : Versions, host : {Text, BodyOf(0)},
           port : {25565}]
            \cup [kind : {"StatusRequest"}] \cup [kind : {"PingRequest"}, time : {Time}]
Statuses == [kind : {"StatusResponse"}, json : {<< >>, Text, [i \in 1 .. 130 |-> 125]}]
JavaPongs == [kind : {"PongResponse"}, time : {Time}, sent : {Time, Guid}]

Host4 == <<97, 46, 49>>
Host6 == <<58, 58, 49>>
Targets ==
    { t \in [ host : {Host4, Host6}, bracketed : BOOLEAN,
              port : {D!None, 0, 19132, 65535}, digits : {<< >>} ] :
        t.host = Host6 /\ ~t.bracketed => t.port = D!None }
TypedTargets == { [t EXCEPT !.digits = IF t.port = D!None THEN << >> ELSE Word(t.port)]
                    : t \in Targets }

Samples ==
    Of("datagram", Datagrams \cup Acks) \cup Of("message", Messages)
      \cup Of("batch", Batches) \cup Of("settings", Settings)
      \cup Of("request", [kind : {"RequestNetworkSettings"}, protocol : Protocols])
      \cup Of("handshake", [kind : {"ServerHandshake"}, jwt : {<< >>, <<101, 46>>}])
      \cup Of("login", [kind : {"Login"}, protocol : {924}, chain : {BodyOf(127), << >>},
                        client_data : {BodyOf(2)}])
      \cup Of("offline", Offline) \cup Of("to server", ToServer)
      \cup Of("java", Statuses) \cup Of("java pong", JavaPongs)
      \cup Of("to java", ToJava) \cup Of("target", TypedTargets)

(* The two do not touch: either an item is on its way, or the window is fed. *)
EitherInit == WireInit /\ Init
EitherNext == \/ WireNext /\ first = -1 /\ UNCHANGED vars
              \/ Next /\ item = NotYet /\ UNCHANGED wireVars

EitherSpec == EitherInit /\ [][EitherNext]_<<wireVars, vars>>

(* The one message whose reader does not refuse every cut.                  *)
Accepted == { i \in Of("message", Messages) :
                i.value.kind = "ConnectionRequestAccepted" }
=============================================================================
