---------------------------- MODULE LoginProofs ----------------------------
(***************************************************************************)
(* Theorems about Login, for every set of tasks, batches and algorithms and *)
(* every bound on the calls; and, in the second part, about the packets its *)
(* payloads are (GamePackets, Wire), for every value of their fields.       *)
(***************************************************************************)
EXTENDS Login, Wire, SequenceTheorems, WellFoundedInduction, TLAPS

\* The session is a record, and its key one of those made so far.
SessionShape ==
    /\ keys \in Nat
    /\ session # None => /\ session \in EncryptionSession
                         /\ session.key \in 1 .. keys
                         /\ session.send # 0

\* The batches on their way from the server.
FrameShape ==
    /\ toClient \in Seq(Frame)
    /\ frame # None => frame \in Frame
    /\ server \in [sent : Nat, key : Nat, counter : Nat]

Call == [key : Nat, counter : Nat]

\* What encrypt was called with: no counter is larger than the number of
\* calls before it, the session is ahead of all its calls, and no two are alike.
NoncesApart ==
    /\ nonces \in Seq(Call)
    /\ \A i \in DOMAIN nonces : nonces[i].key <= keys /\ nonces[i].counter < i
    /\ session # None =>
         /\ session.send <= Len(nonces)
         /\ \A i \in DOMAIN nonces :
              nonces[i].key = session.key => nonces[i].counter < session.send
    /\ \A i, j \in DOMAIN nonces :
         nonces[i].key = nonces[j].key /\ nonces[i].counter = nonces[j].counter => i = j

NonceInv == SessionShape /\ FrameShape /\ NoncesApart

-----------------------------------------------------------------------------
\* A packet on its way, and one that has been sent.
PacketRecord ==
    [stage : {"idle", "format", "seal", "send"},
     packet : {"none", "RequestNetworkSettings", "Login", "ClientToServerHandshake", "app"},
     format : {"none", "flate", LegacyFormat},
     key : Nat, counter : Nat]

FormatSupported == Format \in Supported \cup {LegacyFormat}

PacketShapes ==
    /\ sending \in [Tasks -> PacketRecord]
    /\ toServer \in Seq(PacketRecord)
    /\ orderly \in BOOLEAN
    /\ \A t \in Tasks : /\ sending[t].stage # "send" => sending[t].key = Plain
                        /\ sending[t].key <= keys
    /\ \A i \in DOMAIN toServer : toServer[i].key <= keys
    /\ session = None => /\ \A t \in Tasks : sending[t].key = Plain
                         /\ \A i \in DOMAIN toServer : toServer[i].key = Plain

\* While login_offline waits or sends the answer to a handshake, the settings
\* ask for a format it can write.
PhaseShape ==
    /\ phase \in {"request", "settings", "login", "status", "ok", "failed"}
    /\ Busy(LoginTask) => phase \in {"request", "settings", "login", "status"}
    /\ phase \in {"request", "login"} => Busy(LoginTask)
    /\ sending[LoginTask].stage \in {"seal", "send"} => FormatSupported
    /\ phase \in {"settings", "status"} => FormatSupported

Newest == IF toServer = << >> THEN Idle ELSE toServer[Len(toServer)]

AllFollow ==
    \A i \in DOMAIN toServer :
        Follows(IF i = 1 THEN Idle ELSE toServer[i - 1], toServer[i])

OneBusy == \A t, u \in Tasks : Busy(t) /\ Busy(u) => t = u

\* A new session, whose handshake is still to be answered.
Fresh ==
    /\ Newest.key # session.key
    /\ session.send = 1
    /\ phase \in {"settings", "status"}
    /\ sending[LoginTask].stage \in {"format", "seal"}
    /\ sending[LoginTask].packet = "ClientToServerHandshake"

\* A packet is encrypted and about to be sent.
Sealed ==
    \E t \in Tasks : /\ sending[t].stage = "send"
                     /\ sending[t].key = session.key
                     /\ sending[t].counter = session.send - 1
                     /\ Follows(Newest, sending[t])

\* The newest packet sent is the newest one encrypted.
Steady ==
    /\ Newest.key = session.key
    /\ Newest.counter = session.send - 1
    /\ \A t \in Tasks : sending[t].stage # "send"

InOrderOfKeys ==
    orderly => /\ OneBusy
               /\ AllFollow
               /\ session # None => Fresh \/ Sealed \/ Steady

OrderInv == SessionShape /\ FrameShape /\ PacketShapes /\ PhaseShape /\ InOrderOfKeys

-----------------------------------------------------------------------------
\* The steps, by what they do to the session.
SessionKept == UNCHANGED <<session, keys>>
SessionAdvanced == session # None /\ session' = Advanced /\ UNCHANGED keys
SessionUsed == session # None /\ session' = [session EXCEPT !.send = @ + 1] /\ UNCHANGED keys
SessionNew == keys' = keys + 1 /\ \E h \in Nat :
                session' = [key |-> keys + 1, handshake |-> h, send |-> 1, recv |-> 0]

\* What the four kinds of step make of a session.
LEMMA SessionSteps ==
    ASSUME SessionShape
    PROVE  /\ SessionKept => SessionShape'
           /\ SessionAdvanced => /\ SessionShape' /\ session' # None
                                 /\ session'.key = session.key
                                 /\ session'.send = session.send
           /\ SessionUsed => /\ SessionShape' /\ session' # None
                             /\ session'.key = session.key
                             /\ session'.send = session.send + 1
           /\ SessionNew => /\ SessionShape' /\ session' # None
                            /\ session'.key = keys + 1
                            /\ session'.send = 1
<1> USE DEF SessionShape
<1>1. SessionKept => SessionShape'
  BY DEF SessionKept
<1>2. ASSUME session' \in EncryptionSession PROVE session' # None
  BY <1>2, LoginAssumption
<1>3. ASSUME SessionAdvanced
      PROVE  /\ session' \in EncryptionSession
             /\ session'.key = session.key /\ session'.send = session.send
  BY <1>3 DEF SessionAdvanced, Advanced, EncryptionSession
<1>4. ASSUME SessionUsed
      PROVE  /\ session' \in EncryptionSession
             /\ session'.key = session.key /\ session'.send = session.send + 1
             /\ session'.send # 0
  BY <1>4 DEF SessionUsed, EncryptionSession
<1>5. ASSUME SessionNew
      PROVE  /\ session' \in EncryptionSession
             /\ session'.key = keys + 1 /\ session'.send = 1
  BY <1>5 DEF SessionNew, EncryptionSession
<1>6. QED
  BY <1>1, <1>2, <1>3, <1>4, <1>5 DEF SessionAdvanced, SessionUsed, SessionNew

\* A packet that is passed on leaves the session, or moves its counter on.
LEMMA PassedSteps == Passed => SessionKept \/ SessionAdvanced
  BY DEF Passed, SessionKept, SessionAdvanced

\* The first packet of a batch that holds one.
LEMMA FirstPackets ==
    ASSUME FrameShape, frame # None, FirstPacket.kind = "handshake"
    PROVE  FirstPacket.value \in Nat
<1>1. frame.packets \in Seq(ServerPackets)
  BY LoginAssumption DEF FrameShape, Frame
<1>2. frame.packets # << >> => Head(frame.packets) \in ServerPackets
  BY <1>1
<1>3. FirstPacket \in ServerPackets
  BY <1>2 DEF FirstPacket, Nothing
<1>4. QED
  BY <1>3, LoginAssumption

LEMMA HandshakeSteps ==
    ASSUME FrameShape, GotHandshake
    PROVE  SessionNew /\ nonces' = Append(nonces, Use(keys + 1, 0))
<1>1. FirstPacket.value \in Nat
  BY FirstPackets DEF GotHandshake, Opened
<1>2. QED
  BY <1>1 DEF GotHandshake, NewSession, FreshKey, SessionNew

LEMMA SealSteps ==
    ASSUME NEW t, Seal(t)
    PROVE  \/ SessionKept /\ UNCHANGED nonces
           \/ SessionUsed /\ nonces' = Append(nonces, Use(session.key, session.send))
  BY DEF Seal, SessionKept, SessionUsed

\* Every step, by what it does to the session and to the calls of encrypt.
LEMMA NextSteps ==
    ASSUME FrameShape, [Next]_vars
    PROVE  \/ (SessionKept \/ SessionAdvanced) /\ UNCHANGED nonces
           \/ SessionUsed /\ nonces' = Append(nonces, Use(session.key, session.send))
           \/ SessionNew /\ nonces' = Append(nonces, Use(keys + 1, 0))
<1>1. ASSUME NEW t, \/ ChooseFormat(t) \/ Transmit(t) \/ AppSend(t) \/ AppDrops(t)
      PROVE  SessionKept /\ UNCHANGED nonces
  BY <1>1 DEF ChooseFormat, Transmit, AppSend, AppDrops, SessionKept, client, history
<1>2. CASE TakeFrame \/ Deadline \/ LoginDrops \/ Retry \/ ServerSends \/ UNCHANGED vars
  BY <1>2 DEF TakeFrame, Deadline, LoginDrops, Retry, ServerSends, SessionKept, vars,
              client, history
<1>3. CASE DecryptFails
  BY <1>3 DEF DecryptFails, SessionAdvanced
<1>4. CASE GotSettings \/ GotStatus \/ GotOther
  BY <1>4, PassedSteps DEF GotSettings, GotStatus, GotOther, Passed
<1>5. QED
  BY <1>1, <1>2, <1>3, <1>4, SealSteps, HandshakeSteps DEF Next, LoginStep, AppStep

\* The recorded calls, one by one.
LEMMA Calls ==
    ASSUME NoncesApart
    PROVE  /\ Len(nonces) \in Nat /\ DOMAIN nonces = 1 .. Len(nonces)
           /\ \A i \in 1 .. Len(nonces) :
                /\ nonces[i].key \in Nat /\ nonces[i].counter \in Nat
                /\ nonces[i].key <= keys /\ nonces[i].counter < i
<1>1. nonces \in Seq(Call)
  BY DEF NoncesApart
<1>2. Len(nonces) \in Nat /\ DOMAIN nonces = 1 .. Len(nonces)
  BY <1>1
<1>3. \A i \in 1 .. Len(nonces) : nonces[i] \in Call
  BY <1>1
<1>4. \A i \in 1 .. Len(nonces) : nonces[i].key <= keys /\ nonces[i].counter < i
  BY <1>2 DEF NoncesApart
<1>5. QED
  BY <1>2, <1>3, <1>4 DEF Call

\* The batches of the server, under every step.
LEMMA FrameSteps ==
    ASSUME FrameShape, [Next]_vars
    PROVE  FrameShape'
<1>1. CASE UNCHANGED <<toClient, server>> /\ (frame' = frame \/ frame' = None)
  BY <1>1 DEF FrameShape
<1>2. CASE TakeFrame
  <2>1. Head(toClient) \in Frame /\ Tail(toClient) \in Seq(Frame)
    BY <1>2 DEF TakeFrame, FrameShape
  <2>2. QED
    BY <1>2, <2>1 DEF TakeFrame, FrameShape
<1>3. CASE ServerSends
  <2>1. PICK batch \in Batches, key \in {server.key, Plain},
             looks \in {"batch", "system", "short"} :
          /\ toClient' = Append(toClient,
                 [packets |-> batch, key |-> key, looks |-> looks,
                  counter |-> IF key = Plain THEN 0 ELSE server.counter])
          /\ server' =
               IF Holds(batch, "handshake")
               THEN [ server EXCEPT !.sent = @ + 1, !.counter = 0,
                        !.key = (CHOOSE p \in ToSet(batch) : p.kind = "handshake").value ]
               ELSE [ server EXCEPT !.sent = @ + 1,
                        !.counter = IF key = Plain THEN @ ELSE @ + 1 ]
          /\ frame' = frame
    BY <1>3 DEF ServerSends
  <2>a. key \in Nat
    BY DEF FrameShape, Plain
  <2>2. [packets |-> batch, key |-> key, looks |-> looks,
         counter |-> IF key = Plain THEN 0 ELSE server.counter] \in Frame
    BY <2>a DEF Frame, FrameShape
  <2>3. toClient' \in Seq(Frame)
    BY <2>1, <2>2 DEF FrameShape
  <2>4. CASE Holds(batch, "handshake")
    <3> DEFINE p == CHOOSE q \in ToSet(batch) : q.kind = "handshake"
    <3>1. p \in ToSet(batch) /\ p.kind = "handshake"
      BY <2>4 DEF Holds, ToSet
    <3>2. p.value \in Nat
      BY <3>1, LoginAssumption DEF ServerPackets
    <3>3. server' = [sent |-> server.sent + 1, key |-> p.value, counter |-> 0]
      BY <2>1, <2>4 DEF FrameShape
    <3>4. server' \in [sent : Nat, key : Nat, counter : Nat]
      BY <3>2, <3>3 DEF FrameShape
    <3>5. QED
      BY <2>1, <2>3, <3>4 DEF FrameShape
  <2>5. CASE ~Holds(batch, "handshake")
    <3>1. server' = [sent |-> server.sent + 1, key |-> server.key,
                     counter |-> IF key = Plain THEN server.counter
                                 ELSE server.counter + 1]
      BY <2>1, <2>5 DEF FrameShape
    <3>2. server' \in [sent : Nat, key : Nat, counter : Nat]
      BY <3>1 DEF FrameShape
    <3>3. QED
      BY <2>1, <2>3, <3>2 DEF FrameShape
  <2>6. QED
    BY <2>4, <2>5
<1>4. ASSUME NEW t, ChooseFormat(t) \/ Seal(t) \/ Transmit(t) \/ AppSend(t) \/ AppDrops(t)
      PROVE  FrameShape'
  BY <1>1, <1>4 DEF ChooseFormat, Seal, Transmit, AppSend, AppDrops, network
<1>5. CASE DecryptFails \/ GotSettings \/ GotHandshake \/ GotStatus \/ GotOther
  BY <1>1, <1>5 DEF DecryptFails, GotSettings, GotHandshake, GotStatus, GotOther,
                    Opened, network
<1>6. CASE Deadline \/ LoginDrops \/ Retry \/ UNCHANGED vars
  BY <1>1, <1>6 DEF Deadline, LoginDrops, Retry, vars, network
<1>7. QED
  BY <1>2, <1>3, <1>4, <1>5, <1>6 DEF Next, LoginStep, AppStep

LEMMA NonceInit == Init => NonceInv
<1> SUFFICES ASSUME Init PROVE NonceInv
  OBVIOUS
<1> USE DEF Init
<1>1. FrameShape
  BY DEF FrameShape, Plain
<1>2. QED
  BY <1>1 DEF NonceInv, SessionShape, NoncesApart

LEMMA NonceStep == NonceInv /\ [Next]_vars => NonceInv'
<1> SUFFICES ASSUME NonceInv, [Next]_vars PROVE NonceInv'
  OBVIOUS
<1> USE DEF NonceInv
<1>0. FrameShape'
  BY FrameSteps
<1>1. CASE (SessionKept \/ SessionAdvanced) /\ UNCHANGED nonces
  <2>1. SessionShape' /\ keys' = keys
    BY <1>1, SessionSteps DEF SessionKept, SessionAdvanced
  <2>2. CASE SessionKept
    BY <1>0, <1>1, <2>1, <2>2 DEF NoncesApart, SessionKept
  <2>3. CASE SessionAdvanced
    <3>1. session # None /\ session'.key = session.key /\ session'.send = session.send
      BY <2>3, SessionSteps DEF SessionAdvanced
    <3>2. QED
      BY <1>0, <1>1, <2>1, <3>1 DEF NoncesApart
  <2>4. QED
    BY <1>1, <2>2, <2>3
<1>2. ASSUME NEW k \in Nat, NEW c \in Nat, nonces' = Append(nonces, Use(k, c)),
             k <= keys', c <= Len(nonces), keys <= keys', SessionShape',
             session' # None => /\ session'.key = k /\ session'.send = c + 1,
             \A i \in DOMAIN nonces : nonces[i].key = k => nonces[i].counter < c
      PROVE  NonceInv'
  <2>1. Use(k, c) \in Call /\ Use(k, c).key = k /\ Use(k, c).counter = c
    BY DEF Use, Call
  <2>2. /\ Len(nonces) \in Nat /\ DOMAIN nonces = 1 .. Len(nonces)
        /\ nonces' \in Seq(Call)
        /\ Len(nonces') = Len(nonces) + 1 /\ DOMAIN nonces' = 1 .. Len(nonces) + 1
        /\ \A i \in 1 .. Len(nonces) : nonces'[i] = nonces[i]
        /\ nonces'[Len(nonces) + 1] = Use(k, c)
    BY <1>2, <2>1 DEF NoncesApart
  <2>3. \A i \in 1 .. Len(nonces) : /\ nonces[i].key \in Nat /\ nonces[i].counter \in Nat
                                    /\ nonces[i].key <= keys /\ nonces[i].counter < i
    BY Calls
  <2>4. \A i \in DOMAIN nonces' : nonces'[i].key <= keys' /\ nonces'[i].counter < i
    BY <1>2, <2>1, <2>2, <2>3 DEF SessionShape
  <2>5. \A i \in DOMAIN nonces' : nonces'[i].key = k => nonces'[i].counter < c + 1
    BY <1>2, <2>1, <2>2, <2>3
  <2>6. \A i, j \in DOMAIN nonces' :
          nonces'[i].key = nonces'[j].key /\ nonces'[i].counter = nonces'[j].counter => i = j
    <3>1. \A i \in 1 .. Len(nonces) : nonces[i].key = k => nonces[i].counter # c
      <4> SUFFICES ASSUME NEW i \in 1 .. Len(nonces), nonces[i].key = k
                   PROVE  nonces[i].counter # c
        OBVIOUS
      <4>1. nonces[i].counter < c /\ nonces[i].counter \in Nat
        BY <1>2, <2>2, <2>3
      <4>2. QED
        BY <4>1
    <3>2. \A i, j \in 1 .. Len(nonces) :
            nonces[i].key = nonces[j].key /\ nonces[i].counter = nonces[j].counter => i = j
      BY <2>2 DEF NoncesApart
    <3>3. \A i \in DOMAIN nonces' : i = Len(nonces) + 1 \/ i \in 1 .. Len(nonces)
      BY <2>2
    <3>4. SUFFICES ASSUME NEW i \in DOMAIN nonces', NEW j \in DOMAIN nonces',
                          nonces'[i].key = nonces'[j].key,
                          nonces'[i].counter = nonces'[j].counter
                   PROVE  i = j
      OBVIOUS
    <3>5. CASE i \in 1 .. Len(nonces) /\ j \in 1 .. Len(nonces)
      BY <2>2, <3>2, <3>4, <3>5
    <3>6. CASE i = Len(nonces) + 1 \/ j = Len(nonces) + 1
      BY <2>1, <2>2, <3>1, <3>3, <3>4, <3>6
    <3>7. QED
      BY <3>3, <3>5, <3>6
  <2>7. QED
    <3>1. session' # None => /\ session'.send <= Len(nonces')
                             /\ \A i \in DOMAIN nonces' :
                                  nonces'[i].key = session'.key => nonces'[i].counter < session'.send
      BY <1>2, <2>2, <2>5
    <3>2. QED
      BY <1>0, <1>2, <2>2, <2>4, <2>6, <3>1 DEF NoncesApart
<1>3. CASE SessionUsed /\ nonces' = Append(nonces, Use(session.key, session.send))
  <2>1. /\ session # None /\ keys' = keys /\ SessionShape'
        /\ session'.key = session.key /\ session'.send = session.send + 1
        /\ session.key \in Nat /\ session.send \in Nat /\ session.key <= keys
    BY <1>3, SessionSteps DEF SessionUsed, SessionShape, EncryptionSession
  <2>2. /\ session.send <= Len(nonces) /\ keys <= keys'
        /\ \A i \in DOMAIN nonces : nonces[i].key = session.key => nonces[i].counter < session.send
    BY <2>1 DEF NoncesApart, SessionShape
  <2>3. QED
    BY <1>2, <1>3, <2>1, <2>2
<1>4. CASE SessionNew /\ nonces' = Append(nonces, Use(keys + 1, 0))
  <2>1. /\ keys' = keys + 1 /\ SessionShape' /\ keys \in Nat
        /\ session'.key = keys + 1 /\ session'.send = 1
    BY <1>4, SessionSteps DEF SessionNew, SessionShape
  <2>2. \A i \in DOMAIN nonces : nonces[i].key # keys + 1
    BY <2>1 DEF NoncesApart
  <2>3. 0 <= Len(nonces)
    BY DEF NoncesApart
  <2>4. QED
    BY <1>2, <1>4, <2>1, <2>2, <2>3
<1>5. QED
  BY <1>1, <1>3, <1>4, NextSteps

\* Used below for the nonce's 32 bits: no counter has reached them.
LEMMA Uncut ==
    ASSUME NEW n \in Nat \ {0}, NEW c \in Nat, c < n
    PROVE  c % n = c
  BY SMT

\* No nonce is used twice with one key, for any number of tasks and logins,
\* until 2^32 packets have been encrypted (encryption.rs:116-124, 65-98).
THEOREM NoncesOnce == Spec => []NonceOnce
<1>1. NonceInv => NonceOnce
  <2> SUFFICES ASSUME NonceInv, Len(nonces) <= NonceSpace,
                      NEW i \in DOMAIN nonces, NEW j \in DOMAIN nonces,
                      Nonce(nonces[i]) = Nonce(nonces[j])
               PROVE  i = j
    BY DEF NonceOnce
  <2>1. /\ DOMAIN nonces = 1 .. Len(nonces) /\ Len(nonces) \in Nat
        /\ nonces[i].counter \in Nat /\ nonces[j].counter \in Nat
        /\ nonces[i].counter < i /\ nonces[j].counter < j
    BY Calls DEF NonceInv
  <2>2. nonces[i].counter < NonceSpace /\ nonces[j].counter < NonceSpace
    BY <2>1, LoginAssumption
  <2>3. /\ nonces[i].key = nonces[j].key
        /\ nonces[i].counter % NonceSpace = nonces[j].counter % NonceSpace
    BY DEF Nonce
  <2>4. nonces[i].counter = nonces[j].counter
    BY <2>1, <2>2, <2>3, Uncut, LoginAssumption
  <2>5. QED
    BY <2>3, <2>4 DEF NonceInv, NoncesApart
<1>2. QED
  BY <1>1, NonceInit, NonceStep, PTL DEF Spec

-----------------------------------------------------------------------------
(* The order of the packets                                                 *)

Kinds == {"RequestNetworkSettings", "Login", "ClientToServerHandshake", "app"}

\* The fields of a packet, and what the steps of send_game_packet make of it.
LEMMA IdlePacket == Idle \in PacketRecord /\ Idle.stage = "idle" /\ Idle.key = Plain
  BY DEF Idle, PacketRecord, Plain

LEMMA NewPacket ==
    ASSUME NEW kind \in Kinds
    PROVE  /\ Packet(kind) \in PacketRecord
           /\ Packet(kind).stage = "format"
           /\ Packet(kind).packet = kind
           /\ Packet(kind).key = Plain
  BY DEF Idle, Packet, Kinds, PacketRecord, Plain

LEMMA Fields ==
    ASSUME NEW p \in PacketRecord
    PROVE  p.stage \in {"idle", "format", "seal", "send"} /\ p.key \in Nat /\ p.counter \in Nat
  BY DEF PacketRecord

LEMMA Formatted ==
    ASSUME NEW p \in PacketRecord, NEW f \in Supported \cup {LegacyFormat}
    PROVE  /\ [p EXCEPT !.stage = "seal", !.format = f] \in PacketRecord
           /\ [p EXCEPT !.stage = "seal", !.format = f].stage = "seal"
           /\ [p EXCEPT !.stage = "seal", !.format = f].packet = p.packet
           /\ [p EXCEPT !.stage = "seal", !.format = f].key = p.key
  BY DEF PacketRecord, Supported

LEMMA LeftPlain ==
    ASSUME NEW p \in PacketRecord
    PROVE  /\ [p EXCEPT !.stage = "send"] \in PacketRecord
           /\ [p EXCEPT !.stage = "send"].stage = "send"
           /\ [p EXCEPT !.stage = "send"].packet = p.packet
           /\ [p EXCEPT !.stage = "send"].key = p.key
  BY DEF PacketRecord

\* The stream of packets, and its newest one.
LEMMA Stream ==
    ASSUME PacketShapes, keys \in Nat
    PROVE  /\ Len(toServer) \in Nat /\ DOMAIN toServer = 1 .. Len(toServer)
           /\ Newest \in PacketRecord /\ Newest.key <= keys
           /\ session = None => Newest.key = Plain
<1>1. Len(toServer) \in Nat /\ DOMAIN toServer = 1 .. Len(toServer)
  BY DEF PacketShapes
<1>2. CASE toServer = << >>
  BY <1>1, <1>2, IdlePacket DEF Newest, Plain
<1>3. CASE toServer # << >>
  <2>1. Len(toServer) \in DOMAIN toServer /\ Newest = toServer[Len(toServer)]
    BY <1>1, <1>3 DEF Newest, PacketShapes
  <2>2. Newest \in PacketRecord
    BY <1>1, <2>1 DEF PacketShapes
  <2>3. QED
    BY <1>1, <2>1, <2>2 DEF PacketShapes
<1>4. QED
  BY <1>2, <1>3

\* A session that has moved on is still the same one.
LEMMA SessionMoves ==
    ASSUME SessionShape, SessionKept \/ SessionAdvanced
    PROVE  /\ SessionShape' /\ keys' = keys
           /\ session' = None <=> session = None
           /\ session # None => session'.key = session.key /\ session'.send = session.send
  BY SessionSteps DEF SessionKept, SessionAdvanced

\* Steps that neither begin nor move a packet of the client.
LEMMA QuietKeeps ==
    ASSUME OrderInv, UNCHANGED <<toServer, sending, settings, orderly>>,
           SessionKept \/ SessionAdvanced, FrameShape',
           phase' = phase \/ (Waiting /\ phase' \in {"ok", "failed"})
    PROVE  OrderInv'
<1> USE DEF OrderInv
<1>1. /\ SessionShape' /\ keys' = keys
      /\ session' = None <=> session = None
      /\ session # None => session'.key = session.key /\ session'.send = session.send
  BY SessionMoves
<1>2. PacketShapes'
  BY <1>1 DEF PacketShapes
<1>3. PhaseShape'
  BY DEF PhaseShape, Waiting, FormatSupported, Format, Busy
<1>4. Newest' = Newest
  BY DEF Newest
<1>5. (orderly => OneBusy /\ AllFollow)'
  BY DEF InOrderOfKeys, OneBusy, AllFollow, Busy
<1>6. ASSUME orderly', session' # None
      PROVE  (Fresh \/ Sealed \/ Steady)'
  <2>1. Fresh \/ Sealed \/ Steady
    BY <1>1, <1>6 DEF InOrderOfKeys
  <2>2. CASE Fresh
    <3>1. phase' = phase
      BY <2>2 DEF Fresh, Waiting, Busy
    <3>2. QED
      BY <1>1, <1>4, <1>6, <2>2, <3>1 DEF Fresh
  <2>3. CASE Sealed
    BY <1>1, <1>4, <1>6, <2>3 DEF Sealed
  <2>4. CASE Steady
    BY <1>1, <1>4, <1>6, <2>4 DEF Steady
  <2>5. QED
    BY <2>1, <2>2, <2>3, <2>4
<1>7. QED
  BY <1>1, <1>2, <1>3, <1>5, <1>6 DEF InOrderOfKeys

\* A packet begins its way: in the same session, or as the answer to the
\* handshake that makes a new one.
LEMMA BeginKeeps ==
    ASSUME OrderInv, NEW t \in Tasks, NEW kind \in Kinds, ~Busy(t),
           sending' = [sending EXCEPT ![t] = Packet(kind)],
           UNCHANGED toServer, FrameShape', PhaseShape',
           orderly' = (orderly /\ ~Overlaps(t)),
           \/ SessionKept \/ SessionAdvanced
           \/ /\ SessionNew /\ t = LoginTask /\ kind = "ClientToServerHandshake"
              /\ phase' \in {"settings", "status"}
    PROVE  OrderInv'
<1> USE DEF OrderInv
<1>1. SessionShape' /\ keys \in Nat /\ keys' \in Nat /\ keys <= keys'
  BY SessionSteps, SessionMoves DEF SessionNew, SessionShape
<1>2. session' = None => session = None
  BY SessionSteps, SessionMoves
<1>3. /\ sending'[t] = Packet(kind)
      /\ \A u \in Tasks \ {t} : sending'[u] = sending[u]
      /\ sending' \in [Tasks -> PacketRecord]
  BY NewPacket DEF PacketShapes
<1>4. PacketShapes'
  <2>1. orderly' \in BOOLEAN
    BY Zenon
  <2>2. \A u \in Tasks : /\ sending'[u].stage # "send" => sending'[u].key = Plain
                         /\ sending'[u].key <= keys'
    BY <1>1, <1>3, NewPacket, Fields DEF PacketShapes, Plain
  <2>3. \A i \in DOMAIN toServer' : toServer'[i].key <= keys'
    <3>1. \A i \in DOMAIN toServer : toServer[i].key \in Nat
      BY Fields DEF PacketShapes
    <3>2. QED
      BY <1>1, <3>1 DEF PacketShapes
  <2>4. session' = None => /\ \A u \in Tasks : sending'[u].key = Plain
                           /\ \A i \in DOMAIN toServer' : toServer'[i].key = Plain
    BY <1>2, <1>3, NewPacket DEF PacketShapes
  <2>5. QED
    BY <1>3, <2>1, <2>2, <2>3, <2>4 DEF PacketShapes
<1>5. ASSUME orderly'
      PROVE  orderly /\ \A u \in Tasks : sending[u].stage = "idle"
  BY <1>5 DEF Overlaps, Busy
<1>6. ASSUME orderly' PROVE OneBusy' /\ AllFollow'
  <2>1. \A u \in Tasks : Busy(u)' => u = t
    BY <1>3, <1>5, <1>6 DEF Busy
  <2>2. AllFollow'
    BY <1>5, <1>6 DEF InOrderOfKeys, AllFollow
  <2>3. QED
    BY <2>1, <2>2 DEF OneBusy
<1>7. ASSUME orderly', session' # None
      PROVE  (Fresh \/ Sealed \/ Steady)'
  <2>1. Newest' = Newest
    BY DEF Newest
  <2>2. CASE SessionKept \/ SessionAdvanced
    <3>1. /\ session # None
          /\ session'.key = session.key /\ session'.send = session.send
      BY <1>7, <2>2, SessionMoves
    <3>2. Steady
      BY <1>5, <1>7, <3>1 DEF InOrderOfKeys, Fresh, Sealed, Tasks
    <3>3. \A u \in Tasks : sending'[u].stage # "send"
      BY <1>3, <1>5, <1>7, NewPacket
    <3>4. QED
      BY <2>1, <3>1, <3>2, <3>3 DEF Steady
  <2>3. CASE /\ SessionNew /\ t = LoginTask /\ kind = "ClientToServerHandshake"
             /\ phase' \in {"settings", "status"}
    <3>1. session'.key = keys + 1 /\ session'.send = 1
      BY <2>3, SessionSteps
    <3>2. Newest.key <= keys /\ Newest.key \in Nat
      BY <1>1, Stream, Fields
    <3>3. sending'[LoginTask].stage = "format"
          /\ sending'[LoginTask].packet = "ClientToServerHandshake"
      BY <1>3, <2>3, NewPacket
    <3>4. Fresh'
      BY <1>1, <2>1, <2>3, <3>1, <3>2, <3>3 DEF Fresh
    <3>5. QED
      BY <3>4
  <2>4. QED
    BY <2>2, <2>3
<1>8. QED
  BY <1>1, <1>4, <1>6, <1>7 DEF InOrderOfKeys

-----------------------------------------------------------------------------
\* Actions that begin a packet.
LEMMA AppSendKeeps ==
    ASSUME OrderInv, NEW t, AppSend(t), FrameShape'
    PROVE  OrderInv'
<1>1. /\ t \in Tasks /\ t # LoginTask /\ ~Busy(t) /\ "app" \in Kinds
      /\ sending' = [sending EXCEPT ![t] = Packet("app")]
      /\ UNCHANGED <<toServer, settings, phase>> /\ SessionKept
      /\ orderly' = (orderly /\ ~Overlaps(t))
  BY LoginAssumption DEF AppSend, Tasks, Kinds, client, network, SessionKept
<1>2. sending'[LoginTask] = sending[LoginTask]
  BY <1>1 DEF OrderInv, PacketShapes, Tasks
<1>3. PhaseShape'
  BY <1>1, <1>2 DEF OrderInv, PhaseShape, Busy, FormatSupported, Format
<1>4. QED
  BY <1>1, <1>3, BeginKeeps

\* login_offline begins a packet: PhaseShape' from where it is then.
LEMMA LoginBegins ==
    ASSUME OrderInv, NEW kind \in Kinds, FrameShape',
           sending' = [sending EXCEPT ![LoginTask] = Packet(kind)],
           phase' \in {"request", "settings", "login", "status"},
           phase' \in {"settings", "status"} => FormatSupported'
    PROVE  PhaseShape'
<1>1. sending'[LoginTask] = Packet(kind)
  BY DEF OrderInv, PacketShapes, Tasks
<1>2. sending'[LoginTask].stage = "format"
  BY <1>1, NewPacket
<1>3. QED
  BY <1>2 DEF PhaseShape, Busy

LEMMA RetryKeeps ==
    ASSUME OrderInv, Retry, FrameShape'
    PROVE  OrderInv'
<1>1. /\ LoginTask \in Tasks /\ ~Busy(LoginTask) /\ "RequestNetworkSettings" \in Kinds
      /\ sending' = [sending EXCEPT ![LoginTask] = Packet("RequestNetworkSettings")]
      /\ UNCHANGED toServer /\ SessionKept /\ phase' = "request"
      /\ orderly' = (orderly /\ ~Overlaps(LoginTask))
  BY DEF Retry, Tasks, Kinds, network, SessionKept
<1>2. PhaseShape'
  BY <1>1, LoginBegins
<1>3. QED
  BY <1>1, <1>2, BeginKeeps

LEMMA GotSettingsKeeps ==
    ASSUME OrderInv, GotSettings, FrameShape'
    PROVE  OrderInv'
<1>1. /\ LoginTask \in Tasks /\ ~Busy(LoginTask) /\ "Login" \in Kinds
      /\ sending' = [sending EXCEPT ![LoginTask] = Packet("Login")]
      /\ UNCHANGED toServer
      /\ SessionKept \/ SessionAdvanced
      /\ phase' = "login"
      /\ orderly' = (orderly /\ ~Overlaps(LoginTask))
  BY PassedSteps DEF GotSettings, Opened, Receiving, Waiting, Tasks, Kinds, network
<1>2. PhaseShape'
  BY <1>1, LoginBegins
<1>3. QED
  BY <1>1, <1>2, BeginKeeps

LEMMA GotHandshakeKeeps ==
    ASSUME OrderInv, GotHandshake, FrameShape'
    PROVE  OrderInv'
<1>1. /\ LoginTask \in Tasks /\ ~Busy(LoginTask) /\ "ClientToServerHandshake" \in Kinds
      /\ sending' = [sending EXCEPT ![LoginTask] = Packet("ClientToServerHandshake")]
      /\ UNCHANGED <<toServer, settings, phase>>
      /\ phase \in {"settings", "status"}
      /\ orderly' = (orderly /\ ~Overlaps(LoginTask))
  BY DEF GotHandshake, Opened, Receiving, Waiting, Tasks, Kinds, network
<1>2. SessionNew
  BY HandshakeSteps DEF OrderInv
<1>3. PhaseShape'
  BY <1>1, LoginBegins DEF OrderInv, PhaseShape, FormatSupported, Format
<1>4. QED
  BY <1>1, <1>2, <1>3, BeginKeeps

-----------------------------------------------------------------------------
\* Actions that move a packet on.

\* Where a busy task is alone, and what that says about the session.
LEMMA Alone ==
    ASSUME OrderInv, NEW t \in Tasks, Busy(t), orderly
    PROVE  /\ AllFollow
           /\ \A u \in Tasks \ {t} : sending[u].stage = "idle"
           /\ session # None =>
                \/ Fresh /\ t = LoginTask
                \/ /\ sending[t].stage = "send" /\ sending[t].key = session.key
                   /\ sending[t].counter = session.send - 1 /\ Follows(Newest, sending[t])
                \/ Steady /\ sending[t].stage # "send"
<1>1. /\ AllFollow /\ OneBusy
      /\ session # None => Fresh \/ Sealed \/ Steady
  BY DEF OrderInv, InOrderOfKeys
<1>2. \A u \in Tasks \ {t} : sending[u].stage = "idle"
  BY <1>1 DEF OneBusy, Busy
<1>3. LoginTask \in Tasks
  BY DEF Tasks
<1>4. QED
  BY <1>1, <1>2, <1>3 DEF Fresh, Sealed, Steady

\* Changing one packet.
LEMMA OneChanges ==
    ASSUME PacketShapes, NEW t \in Tasks, NEW p \in PacketRecord,
           sending' = [sending EXCEPT ![t] = p]
    PROVE  /\ sending' \in [Tasks -> PacketRecord]
           /\ sending'[t] = p
           /\ \A u \in Tasks \ {t} : sending'[u] = sending[u]
  BY DEF PacketShapes

\* A packet ends its way without being sent, or before it is encrypted.
LEMMA DropKeeps ==
    ASSUME OrderInv, NEW t \in Tasks, Busy(t),
           sending' = [sending EXCEPT ![t] = Idle],
           UNCHANGED toServer, SessionKept, FrameShape', PhaseShape',
           orderly' => orderly /\ sending[t].stage # "send" /\ (session # None => ~Fresh),
           orderly' \in BOOLEAN
    PROVE  OrderInv'
<1>1. /\ sending' \in [Tasks -> PacketRecord]
      /\ sending'[t] = Idle
      /\ \A u \in Tasks \ {t} : sending'[u] = sending[u]
  BY OneChanges, IdlePacket DEF OrderInv
<1>2. PacketShapes'
  BY <1>1, IdlePacket DEF OrderInv, PacketShapes, SessionKept, SessionShape, Plain
<1>3. SessionShape'
  BY SessionSteps DEF OrderInv
<1>4. ASSUME orderly'
      PROVE  OneBusy' /\ AllFollow' /\ (session' # None => Steady')
  <2>1. orderly /\ sending[t].stage # "send" /\ (session # None => ~Fresh)
    BY <1>4
  <2>2. \A u \in Tasks : sending'[u].stage = "idle"
    BY <1>1, <2>1, Alone, IdlePacket
  <2>3. OneBusy'
    BY <2>2 DEF OneBusy, Busy
  <2>4. AllFollow'
    BY <2>1, Alone DEF AllFollow
  <2>5. session # None => Steady
    BY <2>1, Alone
  <2>6. session' # None => Steady'
    BY <2>2, <2>5 DEF Steady, Newest, SessionKept
  <2>7. QED
    BY <2>3, <2>4, <2>6
<1>5. QED
  BY <1>2, <1>3, <1>4 DEF OrderInv, InOrderOfKeys

LEMMA AppDropsKeeps ==
    ASSUME OrderInv, NEW t, AppDrops(t), FrameShape'
    PROVE  OrderInv'
<1>1. /\ t \in Tasks /\ t # LoginTask /\ Busy(t)
      /\ sending' = [sending EXCEPT ![t] = Idle]
      /\ UNCHANGED <<toServer, settings, phase>> /\ SessionKept
      /\ orderly' = (orderly /\ sending[t].stage # "send")
  BY LoginAssumption DEF AppDrops, Tasks, client, network, SessionKept
<1>2. sending'[LoginTask] = sending[LoginTask]
  BY <1>1 DEF OrderInv, PacketShapes, Tasks
<1>3. PhaseShape'
  BY <1>1, <1>2 DEF OrderInv, PhaseShape, Busy, FormatSupported, Format
<1>4. orderly' \in BOOLEAN
  BY <1>1, Zenon
<1>5. orderly' => orderly /\ sending[t].stage # "send"
  BY <1>1, Zenon
<1>6. orderly => ~Fresh
  BY <1>1, Alone DEF Fresh, Tasks
<1>7. QED
  BY <1>1, <1>3, <1>4, <1>5, <1>6, DropKeeps

LEMMA LoginDropsKeeps ==
    ASSUME OrderInv, LoginDrops, FrameShape'
    PROVE  OrderInv'
<1>1. /\ LoginTask \in Tasks /\ Busy(LoginTask)
      /\ sending' = [sending EXCEPT ![LoginTask] = Idle]
      /\ UNCHANGED <<toServer, settings>> /\ SessionKept /\ phase' = "failed"
      /\ orderly' = (orderly /\ sending[LoginTask].stage # "send"
                             /\ sending[LoginTask].packet # "ClientToServerHandshake")
  BY DEF LoginDrops, Tasks, network, SessionKept
<1>2. sending'[LoginTask] = Idle
  BY <1>1 DEF OrderInv, PacketShapes, Tasks
<1>3. PhaseShape'
  BY <1>1, <1>2, IdlePacket DEF PhaseShape, Busy
<1>4. orderly' \in BOOLEAN
  BY <1>1, Zenon
<1>5. orderly' => /\ orderly /\ sending[LoginTask].stage # "send"
                  /\ sending[LoginTask].packet # "ClientToServerHandshake"
  BY <1>1, Zenon
<1>6. orderly' => ~Fresh
  BY <1>5 DEF Fresh
<1>7. QED
  BY <1>1, <1>3, <1>4, <1>5, <1>6, DropKeeps

LEMMA ChooseFormatKeeps ==
    ASSUME OrderInv, NEW t \in Tasks, ChooseFormat(t), FrameShape'
    PROVE  OrderInv'
<1>1. /\ sending[t].stage = "format" /\ Busy(t)
      /\ UNCHANGED <<toServer, settings, orderly>> /\ SessionKept
      /\ LoginTask \in Tasks
  BY DEF ChooseFormat, Busy, network, history, SessionKept, Tasks
<1>2. CASE FormatSupported
  <2> DEFINE p == [sending[t] EXCEPT !.stage = "seal", !.format = Format]
  <2>1. sending' = [sending EXCEPT ![t] = p] /\ phase' = phase
    BY <1>1, <1>2 DEF ChooseFormat, FormatSupported, OrderInv, PacketShapes
  <2>2. /\ p \in PacketRecord /\ p.stage = "seal" /\ p.packet = sending[t].packet
        /\ p.key = sending[t].key
    <3>1. sending[t] \in PacketRecord /\ Format \in Supported \cup {LegacyFormat}
      BY <1>2 DEF FormatSupported, OrderInv, PacketShapes
    <3>2. QED
      BY <3>1, Formatted
  <2>3. /\ sending' \in [Tasks -> PacketRecord]
        /\ sending'[t] = p
        /\ \A u \in Tasks \ {t} : sending'[u] = sending[u]
    BY <2>1, <2>2, OneChanges DEF OrderInv
  <2>4. PacketShapes'
    BY <1>1, <2>2, <2>3 DEF OrderInv, PacketShapes, SessionKept
  <2>5. FormatSupported'
    BY <1>1, <1>2 DEF FormatSupported, Format
  <2>6. Busy(LoginTask)' <=> Busy(LoginTask)
    BY <1>1, <2>2, <2>3 DEF Busy
  <2>7. PhaseShape'
    BY <2>1, <2>5, <2>6 DEF OrderInv, PhaseShape
  <2>8. SessionShape'
    BY SessionSteps, <1>1 DEF OrderInv
  <2>9. ASSUME orderly
        PROVE  OneBusy' /\ AllFollow' /\ (session' # None => Fresh' \/ Steady')
    <3>1. OneBusy' /\ AllFollow'
      BY <1>1, <2>3, <2>9, Alone, IdlePacket DEF OneBusy, Busy, AllFollow
    <3>2. session # None => (Fresh /\ t = LoginTask) \/ Steady
      BY <1>1, <2>9, Alone
    <3>3. Fresh /\ t = LoginTask => Fresh'
      BY <1>1, <2>1, <2>2, <2>3 DEF Fresh, Newest, SessionKept
    <3>4. Steady => Steady'
      BY <1>1, <2>2, <2>3 DEF Steady, Newest, SessionKept
    <3>5. QED
      BY <1>1, <3>1, <3>2, <3>3, <3>4 DEF SessionKept
  <2>10. QED
    BY <1>1, <2>4, <2>7, <2>8, <2>9 DEF OrderInv, InOrderOfKeys
<1>3. CASE ~FormatSupported
  <2>1. /\ sending' = [sending EXCEPT ![t] = Idle]
        /\ phase' = IF t = LoginTask THEN "failed" ELSE phase
    BY <1>1, <1>3 DEF ChooseFormat, FormatSupported
  <2>2. /\ sending'[t] = Idle
        /\ \A u \in Tasks \ {t} : sending'[u] = sending[u]
    BY <2>1, OneChanges, IdlePacket DEF OrderInv
  <2>3. PhaseShape'
    BY <1>1, <1>3, <2>1, <2>2, IdlePacket
    DEF OrderInv, PhaseShape, Busy, FormatSupported, Format
  <2>4. ~Fresh
    BY <1>3 DEF OrderInv, PhaseShape, Fresh
  <2>5. orderly' \in BOOLEAN
    BY <1>1 DEF OrderInv, PacketShapes
  <2>6. QED
    BY <1>1, <2>1, <2>3, <2>4, <2>5, DropKeeps
<1>4. QED
  BY <1>2, <1>3

LEMMA SealKeeps ==
    ASSUME OrderInv, NEW t \in Tasks, Seal(t), FrameShape'
    PROVE  OrderInv'
<1>1. /\ sending[t].stage = "seal" /\ Busy(t)
      /\ UNCHANGED <<toServer, settings, orderly, phase, keys>>
      /\ LoginTask \in Tasks
      /\ sending[t] \in PacketRecord /\ sending[t].key = Plain
  BY DEF Seal, Busy, network, Tasks, OrderInv, PacketShapes
<1> DEFINE p == IF session = None THEN [sending[t] EXCEPT !.stage = "send"]
                ELSE [sending[t] EXCEPT !.stage = "send", !.key = session.key,
                                        !.counter = session.send]
<1>2. sending' = [sending EXCEPT ![t] = p]
  BY <1>1 DEF Seal, OrderInv, PacketShapes
<1>3. /\ p \in PacketRecord /\ p.stage = "send" /\ p.packet = sending[t].packet
      /\ session = None => p.key = Plain
      /\ session # None => p.key = session.key /\ p.counter = session.send
      /\ p.key <= keys
  <2>1. CASE session = None
    BY <1>1, <2>1, LeftPlain DEF OrderInv, SessionShape, Plain
  <2>2. CASE session # None
    <3>1. session.key \in Nat /\ session.send \in Nat /\ session.key <= keys
      BY <2>2 DEF OrderInv, SessionShape, EncryptionSession
    <3>2. p = [sending[t] EXCEPT !.stage = "send", !.key = session.key,
                                 !.counter = session.send]
      BY <2>2
    <3>3. /\ p \in PacketRecord /\ p.stage = "send" /\ p.packet = sending[t].packet
          /\ p.key = session.key /\ p.counter = session.send
      BY <1>1, <3>1, <3>2 DEF PacketRecord
    <3>4. QED
      BY <2>2, <3>1, <3>3
  <2>3. QED
    BY <2>1, <2>2
<1>4. /\ sending' \in [Tasks -> PacketRecord]
      /\ sending'[t] = p
      /\ \A u \in Tasks \ {t} : sending'[u] = sending[u]
  BY <1>2, <1>3, OneChanges DEF OrderInv
<1>5. /\ SessionShape'
      /\ session' = None <=> session = None
      /\ session = None => session' = session
      /\ session # None => session'.key = session.key /\ session'.send = session.send + 1
  <2>1. session = None => SessionKept
    BY <1>1 DEF Seal, SessionKept
  <2>2. session # None => SessionUsed
    BY <1>1 DEF Seal, SessionUsed
  <2>3. QED
    BY <2>1, <2>2, SessionSteps DEF OrderInv, SessionKept
<1>6. PacketShapes'
  BY <1>1, <1>3, <1>4, <1>5 DEF OrderInv, PacketShapes
<1>7. Busy(LoginTask)' <=> Busy(LoginTask)
  BY <1>1, <1>3, <1>4 DEF Busy
<1>8. PhaseShape'
  BY <1>1, <1>3, <1>4, <1>7 DEF OrderInv, PhaseShape, FormatSupported, Format
<1>9. ASSUME orderly
      PROVE  OneBusy' /\ AllFollow' /\ (session' # None => Sealed')
  <2>1. OneBusy' /\ AllFollow'
    BY <1>1, <1>4, <1>9, Alone DEF OneBusy, Busy, AllFollow
  <2>2. ASSUME session # None PROVE Follows(Newest, p)
    <3>1. (Fresh /\ t = LoginTask) \/ Steady
      BY <1>1, <1>9, <2>2, Alone
    <3>2. session.key # Plain /\ session.key \in Nat /\ session.send \in Nat
      BY <2>2 DEF OrderInv, SessionShape, EncryptionSession, Plain
    <3>3. Newest \in PacketRecord /\ Newest.counter \in Nat
      BY Stream, Fields DEF OrderInv, SessionShape
    <3>4. CASE Fresh /\ t = LoginTask
      BY <1>3, <2>2, <3>2, <3>4 DEF Fresh, Follows
    <3>5. CASE Steady
      BY <1>3, <2>2, <3>2, <3>3, <3>5 DEF Steady, Follows
    <3>6. QED
      BY <3>1, <3>4, <3>5
  <2>3. Newest' = Newest
    BY <1>1 DEF Newest
  <2>4. ASSUME session' # None PROVE Sealed'
    <3>1. session # None /\ session.send \in Nat
      BY <1>5, <2>4 DEF OrderInv, SessionShape, EncryptionSession
    <3>2. p.counter = session'.send - 1 /\ p.key = session'.key
      BY <1>3, <1>5, <3>1
    <3>3. /\ sending'[t].stage = "send" /\ sending'[t].key = session'.key
          /\ sending'[t].counter = session'.send - 1 /\ Follows(Newest', sending'[t])
      BY <1>3, <1>4, <2>2, <2>3, <3>1, <3>2
    <3>4. QED
      BY <3>3 DEF Sealed, Follows
  <2>5. QED
    BY <2>1, <2>4
<1>10. QED
  BY <1>1, <1>5, <1>6, <1>8, <1>9 DEF OrderInv, InOrderOfKeys

LEMMA TransmitKeeps ==
    ASSUME OrderInv, NEW t \in Tasks, Transmit(t), FrameShape'
    PROVE  OrderInv'
<1>1. /\ sending[t].stage = "send" /\ Busy(t)
      /\ UNCHANGED <<settings, orderly>> /\ SessionKept
      /\ LoginTask \in Tasks
      /\ sending[t] \in PacketRecord
      /\ toServer' = Append(toServer, sending[t])
      /\ sending' = [sending EXCEPT ![t] = Idle]
      /\ t # LoginTask => phase' = phase
      /\ t = LoginTask => phase' \in {AfterSend[phase], "failed"}
  BY DEF Transmit, Busy, history, Tasks, OrderInv, PacketShapes, SessionKept
<1>2. /\ sending' \in [Tasks -> PacketRecord]
      /\ sending'[t] = Idle
      /\ \A u \in Tasks \ {t} : sending'[u] = sending[u]
  BY <1>1, OneChanges, IdlePacket DEF OrderInv
<1>3. /\ Len(toServer) \in Nat /\ DOMAIN toServer = 1 .. Len(toServer)
      /\ toServer' \in Seq(PacketRecord)
      /\ DOMAIN toServer' = 1 .. Len(toServer) + 1 /\ Len(toServer') = Len(toServer) + 1
      /\ \A i \in 1 .. Len(toServer) : toServer'[i] = toServer[i]
      /\ toServer'[Len(toServer) + 1] = sending[t]
  BY <1>1 DEF OrderInv, PacketShapes
<1>4. Newest' = sending[t]
  BY <1>3 DEF Newest
<1>5. SessionShape'
  BY <1>1, SessionSteps DEF OrderInv
<1>6. sending[t].key <= keys
  BY DEF OrderInv, PacketShapes
<1>7. PacketShapes'
  <2>1. \A u \in Tasks : /\ sending'[u].stage # "send" => sending'[u].key = Plain
                         /\ sending'[u].key <= keys
    BY <1>2, IdlePacket DEF OrderInv, PacketShapes, SessionShape, Plain
  <2>2. \A i \in DOMAIN toServer' : toServer'[i].key <= keys
    BY <1>3, <1>6 DEF OrderInv, PacketShapes
  <2>3. session = None => /\ \A u \in Tasks : sending'[u].key = Plain
                          /\ \A i \in DOMAIN toServer' : toServer'[i].key = Plain
    BY <1>2, <1>3, IdlePacket DEF OrderInv, PacketShapes
  <2>4. QED
    BY <1>1, <1>2, <1>3, <2>1, <2>2, <2>3 DEF OrderInv, PacketShapes, SessionKept
<1>8. PhaseShape'
  <2>1. FormatSupported' <=> FormatSupported
    BY <1>1 DEF FormatSupported, Format
  <2>2. CASE t # LoginTask
    <3>1. sending'[LoginTask] = sending[LoginTask] /\ phase' = phase
      BY <1>1, <1>2, <2>2
    <3>2. QED
      BY <2>1, <3>1 DEF OrderInv, PhaseShape, Busy
  <2>3. CASE t = LoginTask
    <3>1. FormatSupported /\ phase \in {"request", "settings", "login", "status"}
      BY <1>1, <2>3 DEF OrderInv, PhaseShape
    <3>2. phase' \in {"settings", "status", "failed"}
      BY <1>1, <2>3, <3>1 DEF AfterSend
    <3>3. ~Busy(LoginTask)' /\ sending'[LoginTask].stage = "idle"
      BY <1>2, <2>3, IdlePacket DEF Busy
    <3>4. QED
      BY <2>1, <3>1, <3>2, <3>3 DEF PhaseShape
  <2>4. QED
    BY <2>2, <2>3
<1>9. ASSUME orderly
      PROVE  OneBusy' /\ AllFollow' /\ (session' # None => Steady')
  <2>1. /\ AllFollow
        /\ \A u \in Tasks \ {t} : sending[u].stage = "idle"
        /\ session # None =>
             /\ sending[t].key = session.key /\ sending[t].counter = session.send - 1
             /\ Follows(Newest, sending[t])
    BY <1>1, <1>9, Alone DEF Fresh
  <2>2. \A u \in Tasks : sending'[u].stage = "idle"
    BY <1>2, <2>1, IdlePacket
  <2>3. OneBusy'
    BY <2>2 DEF OneBusy, Busy
  <2>4. Follows(Newest, sending[t])
    <3>1. CASE session = None
      <4>1. Newest.key = Plain /\ sending[t].key = Plain
        BY <3>1, Stream DEF OrderInv, SessionShape, PacketShapes
      <4>2. QED
        BY <4>1 DEF Follows
    <3>2. QED
      BY <2>1, <3>1
  <2>5. AllFollow'
    <3> SUFFICES ASSUME NEW i \in 1 .. Len(toServer) + 1
                 PROVE  Follows(IF i = 1 THEN Idle ELSE toServer'[i - 1], toServer'[i])
      BY <1>3 DEF AllFollow, Follows
    <3>1. CASE i \in 1 .. Len(toServer)
      <4>1. Follows(IF i = 1 THEN Idle ELSE toServer[i - 1], toServer[i])
        BY <1>3, <2>1, <3>1 DEF AllFollow
      <4>2. i # 1 => toServer'[i - 1] = toServer[i - 1]
        BY <1>3, <3>1
      <4>3. QED
        BY <1>3, <3>1, <4>1, <4>2
    <3>2. CASE i = Len(toServer) + 1
      <4>1. (IF i = 1 THEN Idle ELSE toServer'[i - 1]) = Newest
        BY <1>3, <3>2 DEF Newest, OrderInv, PacketShapes
      <4>2. QED
        BY <1>3, <2>4, <3>2, <4>1
    <3>3. QED
      BY <1>3, <3>1, <3>2
  <2>6. session' # None => Steady'
    BY <1>1, <1>4, <2>1, <2>2 DEF Steady, SessionKept
  <2>7. QED
    BY <2>3, <2>5, <2>6
<1>10. QED
  BY <1>1, <1>5, <1>7, <1>8, <1>9 DEF OrderInv, InOrderOfKeys

-----------------------------------------------------------------------------
LEMMA OrderInit == Init => OrderInv
<1> SUFFICES ASSUME Init PROVE OrderInv
  OBVIOUS
<1> USE DEF Init
<1>1. SessionShape
  BY DEF SessionShape
<1>2. FrameShape
  BY DEF FrameShape, Plain
<1>3. LoginTask \in Tasks /\ "RequestNetworkSettings" \in Kinds
  BY DEF Tasks, Kinds
<1>4. /\ sending \in [Tasks -> PacketRecord]
      /\ sending[LoginTask] = Packet("RequestNetworkSettings")
      /\ \A u \in Tasks \ {LoginTask} : sending[u] = Idle
  BY <1>3, IdlePacket, NewPacket
<1>5. \A u \in Tasks : sending[u].stage # "send" /\ sending[u].key = Plain
  BY <1>3, <1>4, IdlePacket, NewPacket
<1>6. PacketShapes
  <2>1. orderly \in BOOLEAN
    BY Zenon
  <2>2. toServer \in Seq(PacketRecord) /\ DOMAIN toServer = {}
    OBVIOUS
  <2>3. QED
    BY <1>4, <1>5, <2>1, <2>2 DEF PacketShapes, Plain
<1>7. PhaseShape
  BY <1>3, <1>4, NewPacket DEF PhaseShape, Busy
<1>8. OneBusy /\ AllFollow
  BY <1>4, IdlePacket DEF OneBusy, Busy, AllFollow
<1>9. QED
  BY <1>1, <1>2, <1>6, <1>7, <1>8 DEF OrderInv, InOrderOfKeys

LEMMA OrderStep == OrderInv /\ [Next]_vars => OrderInv'
<1> SUFFICES ASSUME OrderInv, [Next]_vars PROVE OrderInv'
  OBVIOUS
<1>0. FrameShape'
  BY FrameSteps DEF OrderInv
<1> USE <1>0
<1>1. ASSUME NEW t \in Tasks, ChooseFormat(t) \/ Seal(t) \/ Transmit(t)
      PROVE  OrderInv'
  BY <1>1, ChooseFormatKeeps, SealKeeps, TransmitKeeps
<1>2. ASSUME NEW t, AppSend(t) \/ AppDrops(t)
      PROVE  OrderInv'
  BY <1>2, AppSendKeeps, AppDropsKeeps
<1>3. CASE Retry \/ LoginDrops \/ GotSettings \/ GotHandshake
  BY <1>3, RetryKeeps, LoginDropsKeeps, GotSettingsKeeps, GotHandshakeKeeps
<1>4. CASE TakeFrame \/ Deadline \/ ServerSends \/ UNCHANGED vars
  <2>1. UNCHANGED <<toServer, sending, settings, orderly>> /\ SessionKept
    BY <1>4 DEF TakeFrame, Deadline, ServerSends, vars, client, network, history, SessionKept
  <2>2. phase' = phase \/ (Waiting /\ phase' \in {"ok", "failed"})
    BY <1>4 DEF TakeFrame, Deadline, WaitEnds, ServerSends, Receiving, vars, client
  <2>3. QED
    BY <2>1, <2>2, QuietKeeps
<1>5. CASE DecryptFails \/ GotStatus \/ GotOther
  <2>1. UNCHANGED <<toServer, sending, settings, orderly>>
    BY <1>5 DEF DecryptFails, GotStatus, GotOther, Opened, network
  <2>2. SessionKept \/ SessionAdvanced
    BY <1>5, PassedSteps DEF DecryptFails, GotStatus, GotOther, SessionAdvanced
  <2>3. phase' = phase \/ (Waiting /\ phase' \in {"ok", "failed"})
    BY <1>5 DEF DecryptFails, GotStatus, GotOther, StatusResult, Opened, Receiving, Waiting
  <2>4. QED
    BY <2>1, <2>2, <2>3, QuietKeeps
<1>6. QED
  BY <1>1, <1>2, <1>3, <1>4, <1>5 DEF Next, LoginStep, AppStep, Tasks

\* For every key the server sees the ClientToServerHandshake first, then the
\* packets in the order of their counters, and nothing in clear any more, as
\* long as calls of send_game_packet do not overlap: for any number of tasks,
\* logins and renewed handshakes (reliable_conn.rs:324-325).
THEOREM HandshakeComesFirst == Spec => []HandshakeFirst
<1>1. OrderInv => HandshakeFirst
  BY DEF OrderInv, InOrderOfKeys, AllFollow, HandshakeFirst
<1>2. QED
  BY <1>1, OrderInit, OrderStep, PTL DEF Spec

-----------------------------------------------------------------------------
\* A login is earned: the Login packet is written in the format the settings
\* asked for, and has been sent when a status is waited for.
LoginSent ==
    \E i \in DOMAIN toServer : /\ toServer[i].packet = "Login"
                               /\ toServer[i].format # LegacyFormat

EarnedInv ==
    /\ settings = None \/ settings \in Algorithms
    /\ phase = "login" =>
         /\ settings # None
         /\ sending[LoginTask].packet = "Login"
         /\ sending[LoginTask].stage # "format" =>
              sending[LoginTask].format # LegacyFormat
    /\ phase \in {"status", "ok"} => LoginSent

LEMMA EarnedInit == Init => EarnedInv
<1> SUFFICES ASSUME Init PROVE EarnedInv
  OBVIOUS
<1>1. phase = "request" /\ settings = None
  BY DEF Init
<1>2. QED
  BY <1>1 DEF EarnedInv

\* What GotSettings takes over is an algorithm.
LEMMA SettingsAreAlgorithms ==
    ASSUME FrameShape, frame # None, FirstPacket.kind = "settings"
    PROVE  FirstPacket.value \in Algorithms
<1>1. frame.packets \in Seq(ServerPackets)
  BY LoginAssumption DEF FrameShape, Frame
<1>2. frame.packets # << >> => Head(frame.packets) \in ServerPackets
  BY <1>1
<1>3. FirstPacket \in ServerPackets
  BY <1>2 DEF FirstPacket, Nothing
<1>4. QED
  BY <1>3, LoginAssumption

\* A packet of another task, or one that is not the Login packet.
LEMMA OthersKeepEarned ==
    ASSUME OrderInv, EarnedInv, UNCHANGED settings,
           LoginSent => LoginSent',
           phase' = "login" => phase = "login" /\ sending'[LoginTask] = sending[LoginTask],
           phase' \in {"status", "ok"} => phase \in {"status", "ok"}
    PROVE  EarnedInv'
  BY DEF EarnedInv

LEMMA EarnedStep == OrderInv /\ EarnedInv /\ [Next]_vars => EarnedInv'
<1> SUFFICES ASSUME OrderInv, EarnedInv, [Next]_vars PROVE EarnedInv'
  OBVIOUS
<1>1. sending \in [Tasks -> PacketRecord] /\ LoginTask \in Tasks
  BY DEF OrderInv, PacketShapes, Tasks
<1>2. ASSUME UNCHANGED toServer PROVE LoginSent => LoginSent'
  BY <1>2 DEF LoginSent
<1>3. ASSUME NEW t \in Tasks, ChooseFormat(t)
      PROVE  EarnedInv'
  <2>1. UNCHANGED <<settings, toServer>>
    BY <1>3 DEF ChooseFormat, history, network
  <2>2. CASE t # LoginTask
    <3>1. phase' = phase /\ sending'[LoginTask] = sending[LoginTask]
      BY <1>1, <1>3, <2>2 DEF ChooseFormat
    <3>2. QED
      BY <1>2, <2>1, <3>1, OthersKeepEarned
  <2>3. CASE t = LoginTask /\ phase = "login" /\ phase' = "login"
    <3>1. settings # None /\ Format = settings /\ Format # LegacyFormat
      BY <2>3, LoginAssumption DEF EarnedInv, Format
    <3>2. sending' = [sending EXCEPT ![t].stage = "seal", ![t].format = Format]
      BY <1>3, <2>3 DEF ChooseFormat
    <3>3. /\ sending'[LoginTask].packet = sending[LoginTask].packet
          /\ sending'[LoginTask].format = Format
      BY <1>1, <2>3, <3>2 DEF PacketRecord
    <3>4. QED
      BY <2>1, <2>3, <3>1, <3>3 DEF EarnedInv
  <2>4. CASE t = LoginTask /\ ~(phase = "login" /\ phase' = "login")
    <3>1. phase' = phase \/ phase' = "failed"
      BY <1>3 DEF ChooseFormat
    <3>2. QED
      BY <1>2, <2>1, <2>4, <3>1, OthersKeepEarned
  <2>5. QED
    BY <2>2, <2>3, <2>4, <1>3 DEF ChooseFormat, EarnedInv
<1>4. ASSUME NEW t \in Tasks, Seal(t)
      PROVE  EarnedInv'
  <2>1. UNCHANGED <<settings, toServer, phase>>
    BY <1>4 DEF Seal, network, client
  <2>2. /\ sending'[LoginTask].packet = sending[LoginTask].packet
        /\ sending'[LoginTask].format = sending[LoginTask].format
        /\ sending[LoginTask].stage = "format" => t # LoginTask
    <3>1. sending[t] \in PacketRecord /\ sending[LoginTask] \in PacketRecord
      BY <1>1
    <3> DEFINE q == IF session = None THEN [sending[t] EXCEPT !.stage = "send"]
                    ELSE [sending[t] EXCEPT !.stage = "send", !.key = session.key,
                                            !.counter = session.send]
    <3>2. /\ sending' = [sending EXCEPT ![t] = q]
          /\ q.packet = sending[t].packet
          /\ q.format = sending[t].format
      <4>1. sending' = [sending EXCEPT ![t] = q]
        BY <1>1, <1>4 DEF Seal
      <4>2. CASE session = None
        BY <3>1, <4>1, <4>2 DEF PacketRecord
      <4>3. CASE session # None
        BY <3>1, <4>1, <4>3 DEF PacketRecord
      <4>4. QED
        BY <4>2, <4>3
    <3>3. sending[t].stage = "seal"
      BY <1>4 DEF Seal
    <3>4. QED
      BY <1>1, <3>2, <3>3
  <2>3. t = LoginTask => sending[LoginTask].stage = "seal"
    BY <1>4 DEF Seal
  <2>4. t # LoginTask => sending'[LoginTask] = sending[LoginTask]
    BY <1>1, <1>4 DEF Seal
  <2>5. QED
    BY <1>2, <2>1, <2>2, <2>3, <2>4 DEF EarnedInv
<1>5. ASSUME NEW t \in Tasks, Transmit(t)
      PROVE  EarnedInv'
  <2>1. /\ UNCHANGED settings
        /\ toServer' = Append(toServer, sending[t])
        /\ sending[t].stage = "send"
    BY <1>5 DEF Transmit
  <2>2. toServer \in Seq(PacketRecord) /\ sending[t] \in PacketRecord
    BY <1>1 DEF OrderInv, PacketShapes
  <2>3. LoginSent => LoginSent'
    BY <2>1, <2>2 DEF LoginSent
  <2>4. CASE t # LoginTask
    <3>1. phase' = phase /\ sending'[LoginTask] = sending[LoginTask]
      BY <1>1, <1>5, <2>4 DEF Transmit
    <3>2. QED
      BY <2>1, <2>3, <3>1, OthersKeepEarned
  <2>5. CASE t = LoginTask
    <3>1. phase \in {"request", "settings", "login", "status"}
      BY <2>1, <2>5 DEF OrderInv, PhaseShape, Busy
    <3>2. phase' \in {AfterSend[phase], "failed"}
      BY <1>5, <2>5 DEF Transmit
    <3>3. CASE phase = "login"
      <4>1. sending[t].packet = "Login" /\ sending[t].format # LegacyFormat
        BY <2>1, <2>5, <3>3 DEF EarnedInv
      <4>2. LoginSent'
        BY <2>1, <2>2, <4>1 DEF LoginSent
      <4>3. phase' \in {"status", "failed"}
        BY <3>2, <3>3 DEF AfterSend
      <4>4. QED
        BY <2>1, <4>2, <4>3 DEF EarnedInv
    <3>4. CASE phase # "login"
      <4>1. /\ phase' # "login"
            /\ phase' \in {"status", "ok"} => phase = "status"
        BY <3>1, <3>2, <3>4 DEF AfterSend
      <4>2. QED
        BY <2>1, <2>3, <4>1, OthersKeepEarned
    <3>5. QED
      BY <3>3, <3>4
  <2>6. QED
    BY <2>4, <2>5
<1>6. ASSUME NEW t, AppSend(t) \/ AppDrops(t)
      PROVE  EarnedInv'
  <2>1. UNCHANGED <<settings, toServer, phase>>
    BY <1>6 DEF AppSend, AppDrops, network, client
  <2>2. sending'[LoginTask] = sending[LoginTask]
    BY <1>1, <1>6, LoginAssumption DEF AppSend, AppDrops
  <2>3. QED
    BY <1>2, <2>1, <2>2, OthersKeepEarned
<1>7. CASE Retry \/ LoginDrops
  <2>1. UNCHANGED settings /\ phase' \in {"request", "failed"}
    BY <1>7 DEF Retry, LoginDrops
  <2>2. QED
    BY <2>1 DEF EarnedInv
<1>8. CASE GotSettings
  <2>1. /\ frame # None /\ FirstPacket.kind = "settings"
        /\ settings' = FirstPacket.value /\ phase' = "login"
        /\ sending' = [sending EXCEPT ![LoginTask] = Packet("Login")]
    BY <1>8 DEF GotSettings, Opened
  <2>2. settings' \in Algorithms /\ settings' # None
    BY <2>1, SettingsAreAlgorithms, LoginAssumption DEF OrderInv
  <2>3. sending'[LoginTask].packet = "Login" /\ sending'[LoginTask].stage = "format"
    BY <1>1, <2>1 DEF Packet, Idle
  <2>4. QED
    BY <2>1, <2>2, <2>3 DEF EarnedInv
<1>9. CASE GotHandshake
  <2>1. UNCHANGED <<settings, toServer, phase>> /\ phase # "login"
    BY <1>9 DEF GotHandshake, Opened, network
  <2>2. QED
    BY <1>2, <2>1, OthersKeepEarned
<1>10. CASE TakeFrame \/ Deadline \/ DecryptFails \/ GotStatus \/ GotOther
            \/ ServerSends \/ UNCHANGED vars
  <2>1. UNCHANGED <<settings, toServer, sending>>
    BY <1>10 DEF TakeFrame, Deadline, DecryptFails, GotStatus, GotOther, Opened, network,
                 ServerSends, vars, client
  <2>2. phase' # phase => phase' \in {"ok", "failed"} /\ (phase' = "ok" => phase = "status")
    BY <1>10 DEF TakeFrame, Deadline, DecryptFails, GotStatus, GotOther, StatusResult,
                 ServerSends, vars, client
  <2>3. QED
    BY <1>2, <2>1, <2>2, OthersKeepEarned
<1>11. QED
  BY <1>3, <1>4, <1>5, <1>6, <1>7, <1>8, <1>9, <1>10 DEF Next, LoginStep, AppStep, Tasks

\* login_offline returns Ok only if its Login packet was sent, in a format the
\* server had asked for, whatever else was received and sent meanwhile and
\* however often the login was tried (reliable_conn.rs:415-489).
THEOREM LoginIsEarned == Spec => []LoginEarned
<1>1. EarnedInv => LoginEarned
  BY DEF EarnedInv, LoginSent, LoginEarned
<1>2. QED
  BY <1>1, OrderInit, OrderStep, EarnedInit, EarnedStep, PTL DEF Spec

-----------------------------------------------------------------------------
\* The client's values are of their kinds, for every bound: above all, each
\* session's key is one of those made so far and no waiting call of
\* login_offline is still busy with a send.
THEOREM TypesHold == Spec => []TypeOK
<1>1. ASSUME OrderInv, EarnedInv PROVE TypeOK
  <2>1. LoginTask \in Tasks
    BY DEF Tasks
  <2>2. keys \in Nat /\ \A t \in Tasks : sending[t].key \in 0 .. keys
    <3>1. \A p \in PacketRecord : p.key \in Nat
      BY DEF PacketRecord
    <3>2. \A t \in Tasks : sending[t] \in PacketRecord /\ sending[t].key <= keys
      BY <1>1 DEF OrderInv, PacketShapes
    <3>3. QED
      BY <1>1, <3>1, <3>2 DEF OrderInv, SessionShape
  <2>3. \A i \in DOMAIN toServer : toServer[i].key \in 0 .. keys
    <3>1. \A p \in PacketRecord : p.key \in Nat
      BY DEF PacketRecord
    <3>2. toServer \in Seq(PacketRecord)
          /\ \A i \in DOMAIN toServer : toServer[i].key <= keys
      BY <1>1 DEF OrderInv, PacketShapes
    <3>3. \A i \in DOMAIN toServer : toServer[i] \in PacketRecord
      BY <3>2
    <3>4. QED
      BY <1>1, <3>1, <3>2, <3>3 DEF OrderInv, SessionShape
  <2>4. session # None => /\ session.key \in 1 .. keys
                          /\ session.send \in Nat \ {0} /\ session.recv \in Nat
    BY <1>1 DEF OrderInv, SessionShape, EncryptionSession
  <2>5. /\ phase \in {"request", "settings", "login", "status", "ok", "failed"}
        /\ phase \in {"request", "login"} => Busy(LoginTask)
        /\ phase \in {"ok", "failed"} => ~Busy(LoginTask)
    BY <1>1 DEF OrderInv, PhaseShape
  <2>6. settings = None \/ settings \in Algorithms
    BY <1>1 DEF EarnedInv
  <2>7. QED
    BY <2>2, <2>3, <2>4, <2>5, <2>6 DEF TypeOK
<1>2. QED
  BY <1>1, OrderInit, OrderStep, EarnedInit, EarnedStep, PTL DEF Spec

-----------------------------------------------------------------------------
\* A login that the server wants encrypted never returns Ok: once there is a
\* session no frame is let through, since no packet of the client carries its
\* public key, for any number of batches, tasks and logins
\* (reliable_conn.rs:410-412, 338-348).
THEOREM OkInClear == Spec => []OkOnlyInClear
<1>1. Init => OkOnlyInClear
  BY DEF Init, OkOnlyInClear
<1>2. OrderInv /\ OkOnlyInClear /\ [Next]_vars => OkOnlyInClear'
  <2> SUFFICES ASSUME OrderInv, OkOnlyInClear, [Next]_vars, phase' = "ok"
               PROVE  session' = None
    BY DEF OkOnlyInClear
  <2> USE DEF OkOnlyInClear
  <2>1. ~Opens(frame)
    BY DEF Opens, PublicKeys
  <2>2. ASSUME NEW t, ChooseFormat(t) \/ AppSend(t) \/ AppDrops(t)
        PROVE  session' = None
    BY <2>2 DEF ChooseFormat, AppSend, AppDrops, client
  <2>3. ASSUME NEW t, Seal(t) PROVE session' = None
    BY <2>3 DEF Seal
  <2>4. ASSUME NEW t, Transmit(t) PROVE session' = None
    <3>1. CASE t # LoginTask
      BY <2>4, <3>1 DEF Transmit
    <3>2. CASE t = LoginTask
      <4>1. phase \in {"request", "settings", "login", "status"}
        BY <2>4, <3>2 DEF Transmit, Busy, OrderInv, PhaseShape
      <4>2. AfterSend[phase] # "ok"
        BY <4>1 DEF AfterSend
      <4>3. QED
        BY <2>4, <3>2, <4>2 DEF Transmit
    <3>3. QED
      BY <3>1, <3>2
  <2>5. CASE TakeFrame \/ Deadline \/ ServerSends \/ UNCHANGED vars
    BY <2>5 DEF TakeFrame, Deadline, ServerSends, client, vars
  <2>6. CASE Retry \/ LoginDrops
    BY <2>6 DEF Retry, LoginDrops
  <2>7. CASE DecryptFails
    BY <2>7 DEF DecryptFails
  <2>8. CASE GotSettings \/ GotHandshake
    BY <2>8 DEF GotSettings, GotHandshake
  <2>9. CASE GotStatus \/ GotOther
    BY <2>1, <2>9 DEF GotStatus, GotOther, Opened, Passed
  <2>10. QED
    BY <2>2, <2>3, <2>4, <2>5, <2>6, <2>7, <2>8, <2>9 DEF Next, LoginStep, AppStep
<1>3. QED
  BY <1>1, <1>2, OrderInit, OrderStep, PTL DEF Spec

-----------------------------------------------------------------------------
(* The game layer's bytes: what is written is read back.                   *)

(* The least member of a set of numbers is the one below all others.        *)
LEMMA MinIs ==
  ASSUME NEW S \in SUBSET Int, NEW n \in S, \A m \in S : n <= m
  PROVE  G!Min(S) = n
<1>1. G!Min(S) \in S /\ \A m \in S : G!Min(S) <= m
  BY DEF G!Min
<1>2. n \in Int /\ G!Min(S) \in Int
  BY <1>1
<1>3. G!Min(S) <= n /\ n <= G!Min(S)
  BY <1>1
<1>4. QED
  BY <1>2, <1>3

(* The greatest member is the one above all others.                         *)
LEMMA MaxIs ==
  ASSUME NEW S \in SUBSET Int, NEW n \in S, \A m \in S : m <= n
  PROVE  G!Max(S) = n
<1>1. G!Max(S) \in S /\ \A m \in S : m <= G!Max(S)
  BY DEF G!Max
<1>2. n \in Int /\ G!Max(S) \in Int
  BY <1>1
<1>3. G!Max(S) <= n /\ n <= G!Max(S)
  BY <1>1
<1>4. QED
  BY <1>2, <1>3

(* The table of places, entry by entry.                                     *)
LEMMA PlaceIs ==
  /\ G!Place[1] = 1 /\ G!Place[2] = 128 /\ G!Place[3] = 16384
  /\ G!Place[4] = 2097152 /\ G!Place[5] = 268435456
BY DEF G!Place

(* A number below a place has no group there.                               *)
LEMMA NoTurn ==
  ASSUME NEW p \in Nat, NEW v \in Nat, v < p
  PROVE  v \div p = 0
BY Z3

(* Taking the mark off a byte of a varint, and a byte that has none.        *)
LEMMA Marked ==
  ASSUME NEW x \in Nat, x < 128
  PROVE  (x + 128) % 128 = x /\ x % 128 = x /\ (x < 16 => x % 16 = x)
OBVIOUS

(* One above the largest number of five groups of seven bits.               *)
Fives == 128 * 268435456

(* A number of up to 35 bits is made up of five groups of seven.            *)
LEMMA FiveGroups ==
  ASSUME NEW v \in Nat, v < Fives
  PROVE  /\ v \div 128 \in Nat /\ v \div 16384 \in Nat /\ v \div 2097152 \in Nat
         /\ v \div 268435456 \in Nat /\ v \div 268435456 < 128
         /\ v = (v % 128) + (v \div 128) * 128
         /\ v \div 128 = ((v \div 128) % 128) + (v \div 16384) * 128
         /\ v \div 16384 = ((v \div 16384) % 128) + (v \div 2097152) * 128
         /\ v \div 2097152 = ((v \div 2097152) % 128) + (v \div 268435456) * 128
<1>1. v = (v % 128) + (v \div 128) * 128 /\ v \div 128 \in Nat
  OBVIOUS
<1>2. /\ v \div 128 = ((v \div 128) % 128) + (v \div 16384) * 128
      /\ v \div 16384 \in Nat
  OBVIOUS
<1>3. /\ v \div 16384 = ((v \div 16384) % 128) + (v \div 2097152) * 128
      /\ v \div 2097152 \in Nat
  OBVIOUS
<1>4. /\ v \div 2097152 = ((v \div 2097152) % 128) + (v \div 268435456) * 128
  OBVIOUS
<1>5. v \div 268435456 \in Nat /\ v \div 268435456 < 128
  BY DEF Fives
<1>6. QED
  BY <1>1, <1>2, <1>3, <1>4, <1>5

(* The bytes of a varint.                                                   *)
LEMMA VaruintBytes ==
  ASSUME NEW v \in U32
  PROVE  \E n \in 1 .. 5 :
            /\ G!WriteVaruint32(v) = [ i \in 1 .. n |->
                  ((v \div G!Place[i]) % 128) + IF i < n THEN 128 ELSE 0 ]
            /\ \A i \in 1 .. 5 : i # 1 => (i <= n <=> v >= G!Place[i])
<1> DEFINE Used == { i \in 1 .. 5 : i = 1 \/ v >= G!Place[i] }
           n == CASE v >= 268435456 -> 5
                  [] v < 268435456 /\ v >= 2097152 -> 4
                  [] v < 2097152 /\ v >= 16384 -> 3
                  [] v < 16384 /\ v >= 128 -> 2
                  [] OTHER -> 1
<1>1. v \in Nat
  BY DEF U32
<1>2. n \in 1 .. 5
  OBVIOUS
<1>3. \A i \in 1 .. 5 : i # 1 => (i <= n <=> v >= G!Place[i])
  <2>1. \A i \in 1 .. 5 : i = 1 \/ i = 2 \/ i = 3 \/ i = 4 \/ i = 5
    OBVIOUS
  <2>2. \A i \in 1 .. 5 : i = 2 => (i <= n <=> v >= G!Place[i])
    BY <1>1, PlaceIs
  <2>3. \A i \in 1 .. 5 : i = 3 => (i <= n <=> v >= G!Place[i])
    BY <1>1, PlaceIs
  <2>4. \A i \in 1 .. 5 : i = 4 => (i <= n <=> v >= G!Place[i])
    BY <1>1, PlaceIs
  <2>5. \A i \in 1 .. 5 : i = 5 => (i <= n <=> v >= G!Place[i])
    BY <1>1, PlaceIs
  <2>6. QED
    BY <2>1, <2>2, <2>3, <2>4, <2>5
<1>4. G!Max(Used) = n
  <2> HIDE DEF n
  <2>1. n \in Used
    BY <1>2, <1>3
  <2>2. \A m \in Used : m <= n
    BY <1>2, <1>3
  <2>3. Used \in SUBSET Int
    OBVIOUS
  <2> HIDE DEF Used
  <2>4. QED
    BY <2>1, <2>2, <2>3, MaxIs
<1> HIDE DEF n
<1>5. QED
  BY <1>2, <1>3, <1>4 DEF G!WriteVaruint32

(* A varint is one to five bytes.                                           *)
LEMMA VaruintType ==
  ASSUME NEW v \in U32
  PROVE  G!WriteVaruint32(v) \in Seq(Byte) /\ Len(G!WriteVaruint32(v)) \in 1 .. 5
<1>1. PICK n \in 1 .. 5 : G!WriteVaruint32(v) =
         [ i \in 1 .. n |-> ((v \div G!Place[i]) % 128) + IF i < n THEN 128 ELSE 0 ]
  BY VaruintBytes
<1>2. ASSUME NEW i \in 1 .. 5
      PROVE ((v \div G!Place[i]) % 128) + (IF i < n THEN 128 ELSE 0) \in Byte
  <2>1. v \in Nat
    BY DEF U32
  <2>2. PICK p \in Nat \ {0} : p = G!Place[i]
    BY PlaceIs
  <2>3. v \div p \in Nat
    BY <2>1
  <2>4. QED
    BY <2>2, <2>3 DEF Byte
<1>3. QED
  BY <1>1, <1>2

(* read_varuint32 returns what write_varuint32 was given, wherever the      *)
(* varint ends (protocol.rs:42-85).                                         *)
LEMMA VaruintReads ==
  ASSUME NEW v \in U32, NEW t \in Seq(Byte)
  PROVE  G!ReadVaruint32(G!WriteVaruint32(v) \o t)
           = [ok |-> TRUE, n |-> Len(G!WriteVaruint32(v)), value |-> v]
<1> DEFINE w == G!WriteVaruint32(v)
           data == w \o t
           group(i) == (v \div G!Place[i]) % 128
           part(i) == IF i > G!Min(G!LastByte(data)) THEN 0
                      ELSE (data[i] % (IF i = 5 THEN 16 ELSE 128)) * G!Place[i]
<1>1. v \in Nat /\ v < 16 * 268435456
  <2>1. v \in Nat /\ v \div 65536 \in U16
    BY DEF U32
  <2>2. PICK q \in U16 : q = v \div 65536
    BY <2>1
  <2>3. PICK top \in Nat : top = D!U16Max
    BY DEF D!U16Max
  <2>4. q <= top /\ q \in Nat /\ top = 65535
    <3>1. q \in 0 .. top
      BY <2>3, Zenon DEF U16
    <3>2. q <= top /\ q \in Nat
      BY <2>3, <3>1
    <3>3. top = 65535
      BY <2>3 DEF D!U16Max
    <3>4. QED
      BY <3>2, <3>3
  <2>5. v = 65536 * q + (v % 65536) /\ v % 65536 < 65536 /\ v % 65536 \in Nat
    BY <2>1, <2>2, <2>4
  <2>6. QED
    BY <2>1, <2>4, <2>5
<1>2. \A i \in 1 .. 5 : group(i) \in Nat /\ group(i) < 128
  <2>1. ASSUME NEW i \in 1 .. 5 PROVE group(i) \in Nat /\ group(i) < 128
    <3>1. PICK p \in Nat \ {0} : p = G!Place[i]
      BY PlaceIs
    <3>2. PICK q \in Nat : q = v \div p
      BY <1>1
    <3>3. QED
      BY <3>1, <3>2
  <2>2. QED
    BY <2>1
<1>3. PICK g \in [1 .. 5 -> Nat] :
         \A i \in 1 .. 5 : g[i] = group(i) /\ g[i] < 128
  <2>1. [i \in 1 .. 5 |-> group(i)] \in [1 .. 5 -> Nat]
    BY <1>2
  <2> HIDE DEF group
  <2>2. QED
    BY <1>2, <2>1
<1>4. PICK n \in 1 .. 5 :
         /\ w = [ i \in 1 .. n |-> group(i) + IF i < n THEN 128 ELSE 0 ]
         /\ \A i \in 1 .. 5 : i # 1 => (i <= n <=> v >= G!Place[i])
  BY VaruintBytes
<1>5. w \in Seq(Byte) /\ Len(w) = n
  BY <1>4, VaruintType
<1>6. /\ data \in Seq(Byte) /\ Len(data) >= n /\ Len(data) \in Nat
      /\ \A i \in 1 .. n : data[i] = w[i]
  BY <1>5, ConcatProperties
<1> HIDE DEF w, data, group
<1>7. \A i \in 1 .. n : data[i] = IF i < n THEN g[i] + 128 ELSE g[i]
  <2>1. ASSUME NEW i \in 1 .. n
        PROVE  data[i] = IF i < n THEN g[i] + 128 ELSE g[i]
    <3>1. i \in 1 .. 5 /\ data[i] = w[i] /\ g[i] = group(i) /\ g[i] \in Nat
      BY <1>3, <1>6
    <3>2. w[i] = group(i) + IF i < n THEN 128 ELSE 0
      BY <1>4
    <3>3. CASE i < n
      BY <3>1, <3>2, <3>3
    <3>4. CASE ~(i < n)
      BY <3>1, <3>2, <3>4
    <3>5. QED
      BY <3>3, <3>4
  <2>2. QED
    BY <2>1
<1>8. G!Min(G!LastByte(data)) = n /\ G!LastByte(data) # {}
  <2>1. n \in G!LastByte(data)
    <3>1. data[n] = g[n] /\ g[n] < 128
      BY <1>3, <1>7
    <3>2. QED
      BY <1>6, <3>1 DEF G!LastByte
  <2>2. ASSUME NEW m \in G!LastByte(data) PROVE n <= m
    <3>1. m \in 1 .. 5 /\ data[m] < 128
      BY <1>6 DEF G!LastByte
    <3>2. m < n => data[m] = g[m] + 128 /\ g[m] \in Nat
      BY <1>7, <3>1
    <3>3. QED
      BY <3>1, <3>2
  <2>3. G!LastByte(data) \in SUBSET Int
    BY <1>6 DEF G!LastByte
  <2>4. QED
    BY <2>1, <2>2, <2>3, MinIs
<1>9. ASSUME NEW i \in 1 .. 4 PROVE part(i) = g[i] * G!Place[i]
  <2>1. PICK p \in Nat \ {0} : p = G!Place[i]
    BY PlaceIs
  <2>2. PICK x \in Nat : x = g[i] /\ x < 128
    BY <1>3
  <2>3. CASE i <= n
    <3>1. data[i] = IF i < n THEN x + 128 ELSE x
      BY <1>7, <2>2, <2>3
    <3>2. (x + 128) % 128 = x /\ x % 128 = x
      BY <2>2, Marked
    <3>3. data[i] % 128 = x
      <4>1. CASE i < n
        BY <3>1, <3>2, <4>1
      <4>2. CASE ~(i < n)
        BY <3>1, <3>2, <4>2
      <4>3. QED
        BY <4>1, <4>2
    <3>4. QED
      BY <1>8, <2>1, <2>2, <2>3, <3>3
  <2>4. CASE i > n
    <3>1. v < p
      BY <1>1, <1>4, <2>1, <2>4
    <3>2. v \div p = 0
      BY <1>1, <2>1, <3>1, NoTurn
    <3>3. x = 0
      BY <1>3, <2>1, <2>2, <3>2 DEF group
    <3>4. QED
      BY <1>8, <2>1, <2>2, <2>4, <3>3
  <2>5. QED
    BY <2>3, <2>4
<1>10. part(5) = g[5] * 268435456
  <2>1. PICK x \in Nat : x = g[5] /\ x < 128
    BY <1>3
  <2>2. x = (v \div 268435456) % 128
    BY <1>3, <2>1, PlaceIs DEF group
  <2>3. x < 16 /\ x = v \div 268435456
    BY <1>1, <2>2
  <2>4. CASE 5 <= n
    <3>1. data[5] = x
      BY <1>7, <2>1, <2>4
    <3>2. x % 16 = x
      BY <2>3, Marked
    <3>3. QED
      BY <1>8, <2>1, <2>4, <3>1, <3>2, PlaceIs
  <2>5. CASE 5 > n
    <3>1. v < 268435456
      BY <1>1, <1>4, <2>5, PlaceIs
    <3>2. x = 0
      BY <1>1, <2>3, <3>1
    <3>3. QED
      BY <1>8, <2>1, <2>5, <3>2
  <2>6. QED
    BY <2>4, <2>5
<1> HIDE DEF part
<1>11. part(1) + part(2) + part(3) + part(4) + part(5) = v
  <2>1. PICK x1 \in Nat, x2 \in Nat, x3 \in Nat, x4 \in Nat, x5 \in Nat :
           x1 = g[1] /\ x2 = g[2] /\ x3 = g[3] /\ x4 = g[4] /\ x5 = g[5]
    OBVIOUS
  <2>2. /\ part(1) = x1 * 1 /\ part(2) = x2 * 128 /\ part(3) = x3 * 16384
        /\ part(4) = x4 * 2097152 /\ part(5) = x5 * 268435456
    <3>1. /\ part(1) = g[1] * G!Place[1] /\ part(2) = g[2] * G!Place[2]
          /\ part(3) = g[3] * G!Place[3] /\ part(4) = g[4] * G!Place[4]
      <4>1. 1 \in 1 .. 4 /\ 2 \in 1 .. 4 /\ 3 \in 1 .. 4 /\ 4 \in 1 .. 4
        OBVIOUS
      <4>2. QED
        BY <1>9, <4>1, Zenon
    <3>2. QED
      BY <1>10, <2>1, <3>1, PlaceIs
  <2>3. /\ x1 = (v \div 1) % 128 /\ x2 = (v \div 128) % 128
        /\ x3 = (v \div 16384) % 128 /\ x4 = (v \div 2097152) % 128
        /\ x5 = (v \div 268435456) % 128
    BY <1>3, <2>1, PlaceIs DEF group
  <2>4. v < Fives
    BY <1>1 DEF Fives
  <2>5. PICK a \in Nat, b \in Nat, c \in Nat, e \in Nat :
           /\ a = v \div 128 /\ b = v \div 16384 /\ c = v \div 2097152
           /\ e = v \div 268435456
    BY <1>1, <2>4, FiveGroups
  <2>6. /\ v = (v % 128) + a * 128 /\ a = (a % 128) + b * 128
        /\ b = (b % 128) + c * 128 /\ c = (c % 128) + e * 128
    BY <1>1, <2>4, <2>5, FiveGroups
  <2>7. /\ x1 = v % 128 /\ x2 = a % 128 /\ x3 = b % 128 /\ x4 = c % 128 /\ x5 = e
    BY <1>1, <2>3, <2>5
  <2>8. v = x1 + a * 128 /\ a = x2 + b * 128 /\ b = x3 + c * 128 /\ c = x4 + x5 * 128
    BY <2>6, <2>7
  <2>9. v = x1 * 1 + x2 * 128 + x3 * 16384 + x4 * 2097152 + x5 * 268435456
    <3>1. b = x3 + x4 * 128 + x5 * 16384
      BY <2>8
    <3>2. a = x2 + x3 * 128 + x4 * 16384 + x5 * 2097152
      BY <2>8, <3>1
    <3>3. QED
      BY <2>8, <3>2
  <2>10. QED
    BY <2>2, <2>9
<1>12. QED
  BY <1>5, <1>8, <1>11 DEF G!ReadVaruint32, part, data, w

(* Parts of a packet, joined.                                               *)
LEMMA JoinType ==
  ASSUME NEW a \in Seq(Byte), NEW b \in Seq(Byte)
  PROVE  /\ a \o b \in Seq(Byte) /\ Len(a \o b) = Len(a) + Len(b)
         /\ Len(a) \in Nat /\ Len(b) \in Nat
OBVIOUS

(* It does not matter which two of three are joined first.                  *)
LEMMA Regrouped ==
  ASSUME NEW x \in Seq(Byte), NEW y \in Seq(Byte), NEW z \in Seq(Byte)
  PROVE  (x \o y) \o z = x \o (y \o z)
BY ConcatAssociative

(* What stands behind the first part of two.                                *)
LEMMA BehindJoin ==
  ASSUME NEW a \in Seq(Byte), NEW b \in Seq(Byte)
  PROVE  G!Behind(a \o b, Len(a)) = b
<1>1. /\ a \o b \in Seq(Byte) /\ Len(a \o b) = Len(a) + Len(b)
      /\ Len(a) \in Nat /\ Len(b) \in Nat
      /\ \A i \in 1 .. Len(b) : (a \o b)[Len(a) + i] = b[i]
  OBVIOUS
<1> DEFINE s == SubSeq(a \o b, Len(a) + 1, Len(a) + Len(b))
<1>2. /\ s \in Seq(Byte) /\ Len(s) = Len(b)
      /\ \A i \in 1 .. Len(b) : s[i] = (a \o b)[Len(a) + i]
  BY <1>1
<1>3. s = b
  <2> HIDE DEF s
  <2>1. QED
    BY <1>1, <1>2, SeqEqual
<1>4. QED
  BY <1>1, <1>3 DEF G!Behind

(* What stands between two parts.                                           *)
LEMMA SliceJoin ==
  ASSUME NEW a \in Seq(Byte), NEW b \in Seq(Byte), NEW c \in Seq(Byte)
  PROVE  G!Slice(a \o (b \o c), Len(a), Len(b)) = b
<1> DEFINE data == a \o (b \o c)
           s == SubSeq(data, Len(a) + 1, Len(a) + Len(b))
<1>1. /\ b \o c \in Seq(Byte) /\ Len(b \o c) = Len(b) + Len(c)
      /\ Len(a) \in Nat /\ Len(b) \in Nat /\ Len(c) \in Nat
      /\ \A i \in 1 .. Len(b) : (b \o c)[i] = b[i]
  OBVIOUS
<1>2. /\ data \in Seq(Byte) /\ Len(data) = Len(a) + (Len(b) + Len(c))
      /\ \A i \in 1 .. Len(b) : data[Len(a) + i] = b[i]
  <2>1. PICK r \in Seq(Byte) : r = b \o c
    BY <1>1
  <2>2. /\ a \o r \in Seq(Byte) /\ Len(a \o r) = Len(a) + Len(r)
        /\ \A i \in 1 .. Len(r) : (a \o r)[Len(a) + i] = r[i]
    OBVIOUS
  <2>3. QED
    BY <1>1, <2>1, <2>2
<1> HIDE DEF data
<1>3. /\ s \in Seq(Byte) /\ Len(s) = Len(b)
      /\ \A i \in 1 .. Len(b) : s[i] = data[Len(a) + i]
  BY <1>1, <1>2
<1>4. s = b
  <2> HIDE DEF s
  <2>1. QED
    BY <1>1, <1>2, <1>3, SeqEqual
<1>5. QED
  BY <1>1, <1>2, <1>4 DEF G!Slice, data

(* A counted slice, and what is behind it.                                  *)
LEMMA CountedReads ==
  ASSUME NEW b \in Short, NEW t \in Seq(Byte)
  PROVE  /\ G!Counted(b) \in Seq(Byte)
         /\ G!DecodeCounted(G!Counted(b) \o t) = [ok |-> TRUE, body |-> b, rest |-> t]
<1>1. b \in Seq(Byte) /\ Len(b) \in U32 /\ Len(b) \in Nat
  BY DEF Short
<1>2. PICK w \in Seq(Byte) : w = G!WriteVaruint32(Len(b)) /\ Len(w) \in Nat
  BY <1>1, VaruintType
<1>3. /\ w \o b \in Seq(Byte) /\ b \o t \in Seq(Byte)
      /\ Len(w \o b) = Len(w) + Len(b)
      /\ Len(w \o (b \o t)) = Len(w) + (Len(b) + Len(t)) /\ Len(t) \in Nat
  BY <1>1, <1>2, ConcatProperties
<1>4. G!Counted(b) = w \o b
  BY <1>2 DEF G!Counted
<1> DEFINE data == G!Counted(b) \o t
<1>5. data = w \o (b \o t)
  BY <1>1, <1>2, <1>4, Regrouped
<1>6. G!ReadVaruint32(data) = [ok |-> TRUE, n |-> Len(w), value |-> Len(b)]
  BY <1>1, <1>2, <1>3, <1>5, VaruintReads
<1>7. G!Slice(data, Len(w), Len(b)) = b
  BY <1>1, <1>2, <1>5, SliceJoin
<1>8. G!Behind(data, Len(w) + Len(b)) = t
  BY <1>3, <1>4, BehindJoin
<1>9. Len(data) - Len(w) >= Len(b)
  BY <1>1, <1>2, <1>3, <1>5
<1> HIDE DEF data
<1>10. G!DecodeCounted(data) = [ok |-> TRUE, body |-> b, rest |-> t]
  <2> DEFINE len == G!ReadVaruint32(data)
             fits == len.ok /\ Len(data) - len.n >= len.value
  <2>1. len.ok /\ len.n = Len(w) /\ len.value = Len(b)
    BY <1>6
  <2>2. fits = TRUE
    BY <1>9, <2>1
  <2>3. G!DecodeCounted(data) =
          [ ok |-> fits, body |-> G!Slice(data, len.n, len.value),
            rest |-> G!Behind(data, len.n + len.value) ]
    BY DEF G!DecodeCounted
  <2> HIDE DEF len, fits
  <2>4. QED
    BY <1>7, <1>8, <2>1, <2>2, <2>3, Zenon
<1>11. QED
  BY <1>3, <1>4, <1>10 DEF data

(* A game packet.                                                           *)
AnyPacket == [id : U32, payload : Short]

(* A game packet, and what is behind it.                                    *)
LEMMA PacketReads ==
  ASSUME NEW p \in AnyPacket, NEW t \in Seq(Byte)
  PROVE  /\ G!EncodePacket(p) \in Seq(Byte)
         /\ G!DecodePacket(G!EncodePacket(p) \o t)
              = [ok |-> TRUE, packet |-> p, rest |-> t]
<1>1. /\ p.id \in U32 /\ p.payload \in Short
      /\ p = [id |-> p.id, payload |-> p.payload]
  BY DEF AnyPacket
<1>2. PICK b \in Short : b = p.payload
  BY <1>1
<1>3. b \in Seq(Byte) /\ Len(b) \in U32 /\ Len(b) \in Nat
  BY DEF Short
<1>4. PICK v \in Seq(Byte) : v = G!WriteVaruint32(p.id) /\ Len(v) \in Nat
  BY <1>1, VaruintType
<1>5. PICK w \in Seq(Byte) : w = G!WriteVaruint32(Len(b)) /\ Len(w) \in Nat
  BY <1>3, VaruintType
<1>6. PICK r \in Seq(Byte) : r = b \o t /\ Len(r) = Len(b) + Len(t) /\ Len(t) \in Nat
  BY <1>3, JoinType
<1>7. PICK q \in Seq(Byte) : q = w \o r /\ Len(q) = Len(w) + Len(r)
  BY JoinType
<1>8. PICK h \in Seq(Byte) : h = v \o w /\ Len(h) = Len(v) + Len(w)
  BY JoinType
<1> DEFINE data == G!EncodePacket(p) \o t
<1>9. G!EncodePacket(p) = v \o (w \o b) /\ w \o b \in Seq(Byte)
  BY <1>2, <1>3, <1>4, <1>5, ConcatProperties DEF G!EncodePacket, G!Counted
<1>10. G!EncodePacket(p) = h \o b
  <2>1. (v \o w) \o b = v \o (w \o b)
    <3>1. \A x \in Seq(Byte) : (v \o w) \o x = v \o (w \o x)
      BY Regrouped, Zenon
    <3>2. QED
      BY <1>3, <3>1
  <2>2. QED
    BY <1>8, <1>9, <2>1
<1>11. data = h \o r
  <2>1. (h \o b) \o t = h \o (b \o t)
    BY <1>3, Regrouped, Zenon
  <2>2. QED
    BY <1>6, <1>10, <2>1
<1>12. data = v \o q
  <2>1. (v \o w) \o r = v \o (w \o r)
    BY Regrouped, Zenon
  <2>2. QED
    BY <1>7, <1>8, <1>11, <2>1
<1>13. G!EncodePacket(p) \in Seq(Byte) /\ Len(data) = Len(h) + Len(r)
       /\ Len(G!EncodePacket(p)) = Len(h) + Len(b)
  BY <1>3, <1>10, <1>11, ConcatProperties
<1>14. G!ReadVaruint32(data) = [ok |-> TRUE, n |-> Len(v), value |-> p.id]
  BY <1>1, <1>4, <1>12, VaruintReads
<1>15. G!Behind(data, Len(v)) = q
  BY <1>12, BehindJoin
<1>16. G!ReadVaruint32(q) = [ok |-> TRUE, n |-> Len(w), value |-> Len(b)]
  BY <1>3, <1>5, <1>7, VaruintReads
<1>17. G!Slice(data, Len(v) + Len(w), Len(b)) = b
  <2>1. G!Slice(h \o (b \o t), Len(h), Len(b)) = b
    BY <1>3, SliceJoin, Zenon
  <2>2. QED
    BY <1>6, <1>8, <1>11, <2>1
<1>18. G!Behind(data, (Len(v) + Len(w)) + Len(b)) = t
  <2>1. G!Behind((h \o b) \o t, Len(h \o b)) = t
    BY <1>3, <1>10, <1>13, BehindJoin, Zenon
  <2>2. Len(h \o b) = (Len(v) + Len(w)) + Len(b)
    BY <1>8, <1>10, <1>13
  <2>3. QED
    BY <1>10, <2>1, <2>2, Zenon
<1>19. Len(data) - (Len(v) + Len(w)) >= Len(b)
  BY <1>3, <1>4, <1>5, <1>6, <1>8, <1>13
<1> HIDE DEF data
<1>20. G!DecodePacket(data) = [ ok |-> TRUE, packet |-> [id |-> p.id, payload |-> b],
                                rest |-> t ]
  <2> DEFINE id == G!ReadVaruint32(data)
             len == G!ReadVaruint32(G!Behind(data, id.n))
             start == id.n + len.n
             fits == id.ok /\ len.ok /\ Len(data) - start >= len.value
  <2>1. id.ok /\ id.n = Len(v) /\ id.value = p.id
    BY <1>14
  <2>2. len.ok /\ len.n = Len(w) /\ len.value = Len(b)
    <3>1. len = G!ReadVaruint32(q)
      BY <1>15, <2>1
    <3>2. QED
      BY <1>16, <3>1
  <2>3. start = Len(v) + Len(w)
    BY <2>1, <2>2
  <2>4. fits = TRUE
    BY <1>19, <2>1, <2>2, <2>3
  <2>5. G!DecodePacket(data) =
          [ ok |-> fits,
            packet |-> [id |-> id.value, payload |-> G!Slice(data, start, len.value)],
            rest |-> G!Behind(data, start + len.value) ]
    BY DEF G!DecodePacket
  <2> HIDE DEF id, len, start, fits
  <2>6. QED
    BY <1>17, <1>18, <2>1, <2>2, <2>3, <2>4, <2>5, Zenon
<1>21. QED
  BY <1>1, <1>2, <1>13, <1>20 DEF data


(* A set of natural numbers has a least member.                             *)
LEMMA Least ==
  ASSUME NEW T \in SUBSET Nat, T # {}
  PROVE  \E n \in T : \A m \in T : n <= m
<1> DEFINE Less == { ss \in Nat \X Nat : ss[1] < ss[2] }
<1>1. IsWellFoundedOn(Less, Nat)
  BY NatLessThanWellFounded DEF OpToRel
<1> HIDE DEF Less
<1>2. PICK n \in T : \A m \in T : <<m, n>> \notin Less
  BY <1>1, WFMin
<1>3. ASSUME NEW m \in T, m < n PROVE FALSE
  BY <1>2, <1>3 DEF Less
<1>4. QED
  BY <1>3

(* Induction over the numbers up to n.                                      *)
LEMMA Upwards ==
  ASSUME NEW n \in Nat, NEW T, 0 \in T,
         \A m \in 1 .. n : m - 1 \in T => m \in T
  PROVE  0 .. n \subseteq T
<1> DEFINE Rest == { m \in 0 .. n : m \notin T }
<1> SUFFICES ASSUME Rest # {} PROVE FALSE
  OBVIOUS
<1>1. Rest \in SUBSET Nat
  OBVIOUS
<1>2. PICK m \in Rest : \A k \in Rest : m <= k
  <2> HIDE DEF Rest
  <2>1. QED
    BY <1>1, Least
<1>3. m \in 1 .. n /\ m \notin T
  <2>1. m \in 0 .. n /\ m \notin T
    BY <1>2
  <2>2. m # 0
    BY <2>1
  <2>3. QED
    BY <2>1, <2>2
<1>4. m - 1 \notin T
  BY <1>3
<1>5. m - 1 \in 0 .. n /\ ~(m <= m - 1)
  BY <1>3
<1>6. m - 1 \in Rest
  BY <1>4, <1>5
<1>7. QED
  BY <1>2, <1>5, <1>6

(* FlattenSeq joins its parts one by one.                                   *)
LEMMA Flattened ==
  ASSUME NEW S, NEW parts \in Seq(Seq(S))
  PROVE  \E f \in [0 .. Len(parts) -> Seq(S)] :
            /\ f[0] = << >>
            /\ \A i \in 1 .. Len(parts) : f[i] = f[i - 1] \o parts[i]
            /\ G!FlattenSeq(parts) = f[Len(parts)]
<1> DEFINE n == Len(parts)
           Joins(f, m) == /\ f \in [0 .. m -> Seq(S)] /\ f[0] = << >>
                          /\ \A i \in 1 .. m : f[i] = f[i - 1] \o parts[i]
           Reached == { m \in 0 .. n : \E f : Joins(f, m) }
<1>1. n \in Nat /\ \A i \in 1 .. n : parts[i] \in Seq(S)
  OBVIOUS
<1>2. 0 \in Reached
  <2>1. Joins([i \in 0 .. 0 |-> << >>], 0)
    OBVIOUS
  <2> HIDE DEF Joins
  <2>2. QED
    BY <1>1, <2>1
<1>3. ASSUME NEW m \in 1 .. n, m - 1 \in Reached PROVE m \in Reached
  <2> HIDE DEF n
  <2>1. PICK f : Joins(f, m - 1)
    <3> HIDE DEF Joins
    <3>1. QED
      BY <1>3
  <2>2. PICK x \in Seq(S) : x = f[m - 1] \o parts[m]
    <3>1. f[m - 1] \in Seq(S) /\ parts[m] \in Seq(S)
      BY <1>1, <2>1
    <3>2. QED
      BY <3>1, ConcatProperties
  <2> DEFINE g == [i \in 0 .. m |-> IF i = m THEN x ELSE f[i]]
  <2>3. Joins(g, m)
    <3>1. g \in [0 .. m -> Seq(S)]
      <4>1. ASSUME NEW i \in 0 .. m, i # m PROVE f[i] \in Seq(S)
        BY <1>1, <2>1, <4>1
      <4>2. QED
        BY <4>1
    <3>2. g[0] = << >>
      BY <1>1, <2>1
    <3>3. ASSUME NEW i \in 1 .. m PROVE g[i] = g[i - 1] \o parts[i]
      <4>1. PICK j \in 0 .. m - 1 : j = i - 1
        BY <1>1
      <4>2. g[i - 1] = f[j]
        BY <1>1, <4>1
      <4>3. CASE i = m
        <5>1. g[i] = x /\ j = m - 1
          BY <4>1, <4>3
        <5>2. QED
          BY <2>2, <4>2, <4>3, <5>1
      <4>4. CASE i # m
        <5>1. g[i] = f[i] /\ i \in 1 .. m - 1
          BY <1>1, <4>4
        <5>2. f[i] = f[i - 1] \o parts[i]
          BY <2>1, <5>1
        <5>3. QED
          BY <4>1, <4>2, <5>1, <5>2
      <4>5. QED
        BY <4>3, <4>4
    <3>4. QED
      BY <3>1, <3>2, <3>3
  <2>4. m \in 0 .. n
    BY <1>1
  <2> HIDE DEF Joins, g
  <2>5. QED
    BY <2>3, <2>4
<1>4. PICK f : Joins(f, n)
  <2>1. n \in 0 .. n
    BY <1>1
  <2> HIDE DEF Joins
  <2>2. 0 .. n \subseteq Reached
    <3> HIDE DEF Reached, n
    <3>1. QED
      BY <1>1, <1>2, <1>3, Upwards
  <2>3. QED
    BY <2>1, <2>2
<1> DEFINE Eq(h) == h = [i \in 0 .. Len(parts) |->
                           IF i = 0 THEN << >> ELSE h[i - 1] \o parts[i]]
           h0 == CHOOSE h : Eq(h)
<1>5. Eq(f)
  <2>1. \A i \in 0 .. n : f[i] = IF i = 0 THEN << >> ELSE f[i - 1] \o parts[i]
    <3>1. f[0] = << >> /\ \A i \in 1 .. n : f[i] = f[i - 1] \o parts[i]
      BY <1>4
    <3>2. ASSUME NEW i \in 0 .. n, i # 0 PROVE i \in 1 .. n
      BY <1>1, <3>2
    <3> HIDE DEF n
    <3>3. QED
      BY <3>1, <3>2
  <2>2. f = [i \in 0 .. n |-> f[i]]
    BY <1>4
  <2>3. QED
    BY <2>1, <2>2
<1>6. Eq(h0)
  <2> HIDE DEF Eq
  <2>1. QED
    BY <1>5
<1>7. G!FlattenSeq(parts) = h0[n]
  BY DEF G!FlattenSeq
<1> HIDE DEF h0
<1> DEFINE Same == { m \in 0 .. n : h0[m] = f[m] }
<1>8. 0 \in Same
  <2>1. 0 \in 0 .. n
    BY <1>1
  <2>2. h0[0] = << >> /\ f[0] = << >>
    BY <1>4, <1>6, <2>1
  <2>3. QED
    BY <2>1, <2>2
<1>9. ASSUME NEW m \in 1 .. n, m - 1 \in Same PROVE m \in Same
  <2>1. f[m] = f[m - 1] \o parts[m]
    BY <1>4
  <2>2. m \in 0 .. n /\ m # 0
    BY <1>1
  <2>3. h0[m] = h0[m - 1] \o parts[m]
    BY <1>6, <2>2
  <2>4. h0[m - 1] = f[m - 1]
    BY <1>9
  <2>5. QED
    BY <2>1, <2>2, <2>3, <2>4
<1>10. 0 .. n \subseteq Same
  <2> HIDE DEF Same, n
  <2>1. QED
    BY <1>1, <1>8, <1>9, Upwards
<1>11. h0[n] = f[n]
  <2>1. n \in 0 .. n
    BY <1>1
  <2>2. QED
    BY <1>10, <2>1
<1>12. QED
  BY <1>4, <1>7, <1>11


(* A byte is a number below 256.                                            *)
LEMMA ByteIs == \A x \in Byte : x \in Nat /\ x < 256
<1>1. PICK a : a = 255
  OBVIOUS
<1>2. \A x \in Byte : x \in 0 .. a
  BY <1>1 DEF Byte
<1>3. QED
  BY <1>1, <1>2

(* What is left of a buffer behind a position in it.                        *)
LEMMA BehindType ==
  ASSUME NEW data \in Seq(Byte), NEW n \in 0 .. Len(data)
  PROVE  G!Behind(data, n) \in Seq(Byte) /\ Len(G!Behind(data, n)) = Len(data) - n
<1>1. Len(data) \in Nat /\ n \in Nat
  OBVIOUS
<1>2. \A i \in n + 1 .. Len(data) : data[i] \in Byte
  BY <1>1
<1>3. /\ SubSeq(data, n + 1, Len(data)) \in Seq(Byte)
      /\ Len(SubSeq(data, n + 1, Len(data))) = Len(data) - n
  BY <1>1, <1>2, SubSeqProperties
<1>4. QED
  BY <1>3 DEF G!Behind

(* A varint that is read is there, and its value is a number.               *)
LEMMA VaruintTakes ==
  ASSUME NEW data \in Seq(Byte), G!ReadVaruint32(data).ok
  PROVE  /\ G!ReadVaruint32(data).n \in 1 .. Len(data)
         /\ G!ReadVaruint32(data).value \in Nat
<1> DEFINE ends == G!LastByte(data)
           part(i) == IF i > G!Min(ends) THEN 0
                      ELSE (data[i] % (IF i = 5 THEN 16 ELSE 128)) * G!Place[i]
<1>1. ends # {}
  BY DEF G!ReadVaruint32
<1>2. ends \in SUBSET Nat /\ Len(data) \in Nat
  BY DEF G!LastByte
<1>3. PICK n \in ends : \A m \in ends : n <= m
  <2> HIDE DEF ends
  <2>1. QED
    BY <1>1, <1>2, Least
<1>4. n \in Nat /\ G!Min(ends) = n
  <2> HIDE DEF ends
  <2>1. n \in Nat /\ ends \in SUBSET Int
    BY <1>2, <1>3
  <2>2. QED
    BY <1>3, <2>1, MinIs
<1>5. n \in 1 .. Len(data)
  BY <1>2, <1>3 DEF G!LastByte
<1>6. ASSUME NEW i \in 1 .. 5 PROVE part(i) \in Nat
  <2>1. CASE i > n
    BY <1>4, <2>1
  <2>2. CASE i <= n
    <3>1. data[i] \in Nat
      <4>1. i \in 1 .. Len(data)
        BY <1>2, <1>5, <2>2
      <4>2. data[i] \in Byte
        BY <4>1
      <4>3. QED
        BY <4>2, ByteIs, Zenon
    <3>2. PICK p \in Nat : p = G!Place[i]
      BY PlaceIs
    <3>3. data[i] % 16 \in Nat /\ data[i] % 128 \in Nat
      BY <3>1
    <3>4. data[i] % (IF i = 5 THEN 16 ELSE 128) \in Nat
      BY <3>3
    <3>5. (data[i] % (IF i = 5 THEN 16 ELSE 128)) * p \in Nat
      BY <3>2, <3>4
    <3>6. QED
      BY <1>4, <2>2, <3>2, <3>5
  <2>3. QED
    BY <1>4, <2>1, <2>2
<1> HIDE DEF part, ends
<1>7. part(1) + part(2) + part(3) + part(4) + part(5) \in Nat
  <2>1. /\ part(1) \in Nat /\ part(2) \in Nat /\ part(3) \in Nat
        /\ part(4) \in Nat /\ part(5) \in Nat
    BY <1>6
  <2>2. QED
    BY <2>1
<1>8. QED
  BY <1>1, <1>4, <1>5, <1>7 DEF G!ReadVaruint32, part, ends

(* A packet that is read leaves less behind it than there was.              *)
LEMMA PacketShrinks ==
  ASSUME NEW data \in Seq(Byte), G!DecodePacket(data).ok
  PROVE  Len(G!DecodePacket(data).rest) \in Nat
           /\ Len(G!DecodePacket(data).rest) < Len(data)
<1> DEFINE id == G!ReadVaruint32(data)
           len == G!ReadVaruint32(G!Behind(data, id.n))
           L == Len(data)
<1>1. id.ok /\ len.ok /\ L - (id.n + len.n) >= len.value
  BY DEF G!DecodePacket
<1>2. PICK m \in 1 .. L : m = id.n
  BY <1>1, VaruintTakes
<1>3. L \in Nat /\ m \in Nat /\ m <= L /\ m >= 1
  BY <1>2
<1>4. G!Behind(data, m) \in Seq(Byte) /\ Len(G!Behind(data, m)) = L - m
  BY <1>3, BehindType
<1>5. len.n \in 1 .. L - m /\ len.value \in Nat
  BY <1>1, <1>2, <1>4, VaruintTakes
<1>6. PICK k \in Nat : k = (m + len.n) + len.value /\ k >= 1 /\ k <= L
  BY <1>1, <1>2, <1>3, <1>5
<1>7. G!DecodePacket(data).rest = G!Behind(data, k)
  BY <1>2, <1>6 DEF G!DecodePacket
<1>8. QED
  BY <1>3, <1>6, <1>7, BehindType


(* The batch without packets.                                               *)
NoPackets == [kind |-> "Batch", packets |-> << >>]

(* What decode_batch_body makes of the last n bytes, for each n.            *)
PacketsOf(body, of) ==
    /\ of[0] = NoPackets
    /\ \A n \in 1 .. Len(body) :
          LET p == G!DecodePacket(G!Behind(body, Len(body) - n))
          IN  of[n] = IF ~p.ok \/ of[Len(p.rest)] = G!Refused THEN G!Refused
                      ELSE [ kind |-> "Batch",
                             packets |-> <<p.packet>> \o of[Len(p.rest)].packets ]

(* The loop of decode_batch_body ends: a packet leaves less behind it.      *)
LEMMA BatchLoop ==
  ASSUME NEW body \in Seq(Byte)
  PROVE  \E of : PacketsOf(body, of) /\ G!DecodeBatchBody(body) = of[Len(body)]
<1> DEFINE L == Len(body)
           F(n) == G!DecodePacket(G!Behind(body, L - n))
           Step(g, n) ==
             IF n = 0 THEN NoPackets
             ELSE IF ~F(n).ok \/ g[Len(F(n).rest)] = G!Refused THEN G!Refused
             ELSE [ kind |-> "Batch",
                    packets |-> <<F(n).packet>> \o g[Len(F(n).rest)].packets ]
           Eq(g) == g = [n \in 0 .. L |-> Step(g, n)]
           of == CHOOSE g : Eq(g)
<1>1. L \in Nat /\ L = Len(body)
  OBVIOUS
<1>2. G!DecodeBatchBody(body) = of[L]
  BY DEF G!DecodeBatchBody, NoPackets
<1>3. ASSUME NEW n \in 0 .. L, F(n).ok PROVE Len(F(n).rest) \in Nat /\ Len(F(n).rest) < n
  <2>1. L - n \in 0 .. L
    BY <1>1
  <2>2. PICK s \in Seq(Byte) : s = G!Behind(body, L - n) /\ Len(s) = L - (L - n)
    BY <2>1, BehindType
  <2>3. G!DecodePacket(s).ok
    BY <1>3, <2>2
  <2>4. Len(s) = n
    BY <1>1, <2>2
  <2>5. QED
    BY <2>2, <2>3, <2>4, PacketShrinks
<1>4. \A n : F(n) = G!DecodePacket(G!Behind(body, Len(body) - n))
  OBVIOUS
<1> HIDE DEF F, L
<1>5. Eq(of)
  <2> DEFINE Solves(g, k) == g = [n \in 0 .. k |-> Step(g, n)]
             Solved == { k \in 0 .. L : \E g : Solves(g, k) }
  <2>1. 0 \in Solved
    <3>1. Solves([n \in 0 .. 0 |-> NoPackets], 0)
      <4>1. \A g, n : n \in 0 .. 0 => Step(g, n) = NoPackets
        OBVIOUS
      <4> HIDE DEF Step
      <4>2. QED
        BY <4>1
    <3>2. 0 \in 0 .. L
      BY <1>1
    <3> HIDE DEF Solves
    <3>3. QED
      BY <3>1, <3>2
  <2>2. ASSUME NEW k \in 1 .. L, k - 1 \in Solved PROVE k \in Solved
    <3>1. PICK g : Solves(g, k - 1)
      <4> HIDE DEF Solves
      <4>1. QED
        BY <2>2
    <3> DEFINE h == [n \in 0 .. k |-> IF n = k THEN Step(g, k) ELSE g[n]]
    <3>2. ASSUME NEW n \in 0 .. k PROVE Step(h, n) = Step(g, n)
      <4>1. CASE n = 0 \/ ~F(n).ok
        BY <4>1, ZenonT(60)
      <4>2. CASE n # 0 /\ F(n).ok
        <5>1. n \in 0 .. L
          BY <1>1
        <5>2. PICK q : q = Len(F(n).rest)
          OBVIOUS
        <5>3. q \in 0 .. k /\ q # k
          BY <1>1, <1>3, <4>2, <5>1, <5>2
        <5>4. h[q] = g[q]
          BY <5>3
        <5> HIDE DEF h
        <5>5. QED
          BY <4>2, <5>2, <5>4
      <4>3. QED
        BY <4>1, <4>2, ZenonT(60)
    <3>3. ASSUME NEW n \in 0 .. k PROVE h[n] = Step(h, n)
      <4>1. CASE n = k
        BY <3>2, <4>1, ZenonT(60)
      <4>2. CASE n # k
        <5>1. n \in 0 .. k - 1
          BY <1>1, <4>2
        <5>2. h[n] = g[n]
          BY <4>2
        <5>3. g[n] = Step(g, n)
          <6> HIDE DEF Step, h
          <6>1. QED
            BY <3>1, <5>1
        <5> HIDE DEF Step, h
        <5>4. QED
          BY <3>2, <5>2, <5>3
      <4>3. QED
        BY <4>1, <4>2, ZenonT(60)
    <3>4. h = [n \in 0 .. k |-> h[n]]
      OBVIOUS
    <3>5. Solves(h, k)
      <4> HIDE DEF Step, h
      <4>1. QED
        BY <3>3, <3>4
    <3>6. k \in 0 .. L
      BY <1>1
    <3> HIDE DEF Solves, h
    <3>7. QED
      BY <3>5, <3>6
  <2>3. L \in Solved
    <3>1. 0 .. L \subseteq Solved
      <4> HIDE DEF Solved
      <4>1. QED
        BY <1>1, <2>1, <2>2, Upwards
    <3>2. L \in 0 .. L
      BY <1>1
    <3> HIDE DEF Solved
    <3>3. QED
      BY <3>1, <3>2
  <2>4. PICK g : Eq(g)
    <3> HIDE DEF Step
    <3>1. QED
      BY <2>3
  <2> HIDE DEF Eq
  <2>5. QED
    BY <2>4
<1>6. \A n \in 0 .. L : of[n] = Step(of, n)
  <2> HIDE DEF of, Step
  <2>1. QED
    BY <1>5
<1> HIDE DEF of
<1>7. of[0] = NoPackets
  <2>1. of[0] = Step(of, 0)
    <3>1. 0 \in 0 .. L
      BY <1>1
    <3> HIDE DEF Step
    <3>2. QED
      BY <1>6, <3>1
  <2>2. QED
    BY <2>1, Zenon
<1>8. ASSUME NEW n \in 1 .. L
      PROVE  of[n] = IF ~F(n).ok \/ of[Len(F(n).rest)] = G!Refused THEN G!Refused
                     ELSE [ kind |-> "Batch",
                            packets |-> <<F(n).packet>> \o of[Len(F(n).rest)].packets ]
  <2>1. n \in 0 .. L /\ n # 0
    BY <1>1
  <2>2. of[n] = Step(of, n)
    <3> HIDE DEF Step
    <3>1. QED
      BY <1>6, <2>1
  <2>3. QED
    BY <2>1, <2>2, Zenon
<1>9. PacketsOf(body, of)
  BY <1>1, <1>4, <1>7, <1>8 DEF PacketsOf
<1>10. QED
  BY <1>1, <1>2, <1>9


(* A packet is at least the byte of its id.                                 *)
LEMMA PacketTakes ==
  ASSUME NEW p \in AnyPacket
  PROVE  G!EncodePacket(p) \in Seq(Byte) /\ Len(G!EncodePacket(p)) >= 1
<1>1. PICK v \in Seq(Byte) : v = G!WriteVaruint32(p.id) /\ Len(v) \in 1 .. 5
  BY VaruintType DEF AnyPacket
<1>2. PICK c \in Seq(Byte) : c = G!Counted(p.payload)
  <2>1. p.payload \in Short /\ << >> \in Seq(Byte)
    BY DEF AnyPacket
  <2>2. QED
    BY <2>1, CountedReads, Zenon
<1>3. v \o c \in Seq(Byte) /\ Len(v \o c) = Len(v) + Len(c) /\ Len(c) \in Nat
  BY JoinType
<1>4. G!EncodePacket(p) = v \o c
  BY <1>1, <1>2 DEF G!EncodePacket
<1>5. Len(v \o c) >= 1
  <2>1. \A a, b \in Nat : a >= 1 => a + b >= 1
    OBVIOUS
  <2>2. Len(v) \in Nat /\ Len(v) >= 1
    <3>1. \A n \in 1 .. 5 : n \in Nat /\ n >= 1
      OBVIOUS
    <3>2. QED
      BY <1>1, <3>1, Zenon
  <2>3. QED
    BY <1>3, <2>1, <2>2, Zenon
<1>6. QED
  BY <1>3, <1>4, <1>5, Zenon

(* The last m members of a row of packets.                                  *)
LastOf(packets, m) == [j \in 1 .. m |-> packets[(Len(packets) - m) + j]]

(* One more of them.                                                        *)
LEMMA LastOfStep ==
  ASSUME NEW packets \in Seq(AnyPacket), NEW m \in 1 .. Len(packets)
  PROVE  <<packets[(Len(packets) - m) + 1]>> \o LastOf(packets, m - 1)
           = LastOf(packets, m)
<1>1. PICK N \in Nat : N = Len(packets) /\ \A i \in 1 .. N : packets[i] \in AnyPacket
  OBVIOUS
<1>2. PICK k \in Nat, i \in Nat : k = m - 1 /\ m = k + 1 /\ i = N - m /\ N - k = i + 1
  <2>1. PICK k \in Nat : k = m - 1 /\ m = k + 1
    OBVIOUS
  <2>2. PICK i \in Nat : i = N - m
    <3>1. \A n \in Nat : \A l \in 1 .. n : n - l \in Nat
      OBVIOUS
    <3>2. N - m \in Nat
      BY <1>1, <3>1
    <3>3. QED
      BY <3>2
  <2>3. N - k = i + 1
    BY <1>1, <2>1, <2>2
  <2>4. QED
    BY <2>1, <2>2, <2>3
<1>3. PICK o \in Seq(AnyPacket) :
         o = <<packets[i + 1]>> /\ Len(o) = 1 /\ o[1] = packets[i + 1]
  <2>1. packets[i + 1] \in AnyPacket
    BY <1>1, <1>2
  <2>2. \A x \in AnyPacket : <<x>> \in Seq(AnyPacket) /\ Len(<<x>>) = 1 /\ <<x>>[1] = x
    OBVIOUS
  <2>3. QED
    BY <2>1, <2>2
<1>4. PICK t \in Seq(AnyPacket) :
         /\ t = LastOf(packets, k) /\ Len(t) = k
         /\ \A j \in 1 .. k : t[j] = packets[(i + 1) + j]
  <2> DEFINE u == [j \in 1 .. k |-> packets[(i + 1) + j]]
  <2>1. \A j \in 1 .. k : packets[(i + 1) + j] \in AnyPacket
    BY <1>1, <1>2
  <2>2. u \in Seq(AnyPacket) /\ Len(u) = k
    BY <2>1
  <2>3. u = LastOf(packets, k)
    BY <1>1, <1>2 DEF LastOf
  <2>4. QED
    BY <2>2, <2>3
<1>5. PICK s \in Seq(AnyPacket) :
         s = LastOf(packets, m) /\ Len(s) = m /\ \A j \in 1 .. m : s[j] = packets[i + j]
  <2> DEFINE u == [j \in 1 .. m |-> packets[i + j]]
  <2>1. \A j \in 1 .. m : packets[i + j] \in AnyPacket
    BY <1>1, <1>2
  <2>2. u \in Seq(AnyPacket) /\ Len(u) = m
    BY <1>2, <2>1
  <2>3. u = LastOf(packets, m)
    BY <1>1, <1>2 DEF LastOf
  <2>4. QED
    BY <2>2, <2>3
<1>6. /\ o \o t \in Seq(AnyPacket) /\ Len(o \o t) = Len(o) + Len(t)
      /\ \A j \in 1 .. Len(o) : (o \o t)[j] = o[j]
      /\ \A j \in 1 .. Len(t) : (o \o t)[Len(o) + j] = t[j]
  OBVIOUS
<1>7. o \o t = s
  <2>1. Len(o \o t) = Len(s)
    BY <1>2, <1>3, <1>4, <1>5, <1>6
  <2>2. ASSUME NEW j \in 1 .. Len(s) PROVE (o \o t)[j] = s[j]
    <3>1. CASE j = 1
      BY <1>2, <1>3, <1>5, <1>6, <3>1
    <3>2. CASE j # 1
      <4>1. PICK l \in 1 .. k : j = 1 + l
        BY <1>2, <1>5, <3>2
      <4>2. (o \o t)[j] = packets[(i + 1) + l]
        BY <1>3, <1>4, <1>6, <4>1
      <4>3. s[j] = packets[i + j] /\ i + j = (i + 1) + l
        BY <1>2, <1>5, <4>1
      <4>4. QED
        BY <4>2, <4>3
    <3>3. QED
      BY <3>1, <3>2
  <2>3. QED
    BY <1>6, <2>1, <2>2, SeqEqual
<1>8. QED
  BY <1>1, <1>2, <1>3, <1>4, <1>5, <1>7


(* decode_batch_body takes one packet after the other, and gets all of      *)
(* them.                                                                    *)
LEMMA BodyReads ==
  ASSUME NEW packets \in Seq(AnyPacket)
  PROVE  /\ G!BatchBody(packets) \in Seq(Byte)
         /\ G!DecodeBatchBody(G!BatchBody(packets))
              = [kind |-> "Batch", packets |-> packets]
<1>1. PICK N \in Nat : N = Len(packets) /\ \A i \in 1 .. N : packets[i] \in AnyPacket
  OBVIOUS
<1>2. PICK parts \in Seq(Seq(Byte)) :
         /\ Len(parts) = N /\ \A i \in 1 .. N : parts[i] = G!EncodePacket(packets[i])
         /\ G!BatchBody(packets) = G!FlattenSeq(parts)
  <2> DEFINE those == [i \in 1 .. N |-> G!EncodePacket(packets[i])]
  <2>1. \A i \in 1 .. N : G!EncodePacket(packets[i]) \in Seq(Byte)
    BY <1>1, PacketTakes
  <2>2. those \in Seq(Seq(Byte)) /\ Len(those) = N
    BY <2>1
  <2>3. DOMAIN packets = 1 .. N
    BY <1>1
  <2>4. G!BatchBody(packets) = G!FlattenSeq(those)
    BY <2>3, Zenon DEF G!BatchBody
  <2>5. \A i \in 1 .. N : those[i] = G!EncodePacket(packets[i])
    OBVIOUS
  <2> HIDE DEF those
  <2>6. QED
    BY <2>2, <2>4, <2>5
<1>3. PICK f \in [0 .. N -> Seq(Byte)] :
         /\ f[0] = << >> /\ \A i \in 1 .. N : f[i] = f[i - 1] \o parts[i]
         /\ G!BatchBody(packets) = f[N]
  <2>1. PICK f \in [0 .. Len(parts) -> Seq(Byte)] :
            /\ f[0] = << >>
            /\ \A i \in 1 .. Len(parts) : f[i] = f[i - 1] \o parts[i]
            /\ G!FlattenSeq(parts) = f[Len(parts)]
    BY Flattened, Zenon
  <2>2. QED
    BY <1>2, <2>1
<1>4. PICK body \in Seq(Byte) : body = G!BatchBody(packets) /\ body = f[N]
  BY <1>1, <1>3
<1>5. PICK of : PacketsOf(body, of) /\ G!DecodeBatchBody(body) = of[Len(body)]
  BY BatchLoop
<1> DEFINE Rest(m, r) ==
             /\ r \in Seq(Byte) /\ body = f[N - m] \o r
             /\ of[Len(r)] = [kind |-> "Batch", packets |-> LastOf(packets, m)]
           Found == { m \in 0 .. N : \E r : Rest(m, r) }
<1>6. 0 \in Found
  <2>1. LastOf(packets, 0) = << >> /\ N - 0 = N
    BY <1>1 DEF LastOf
  <2>2. body = f[N] \o << >> /\ Len(<< >>) = 0
    BY <1>4, ConcatEmptySeq
  <2>3. of[0] = [kind |-> "Batch", packets |-> << >>]
    BY <1>5 DEF PacketsOf, NoPackets
  <2>4. Rest(0, << >>)
    BY <2>1, <2>2, <2>3
  <2> HIDE DEF Rest
  <2>5. QED
    BY <1>1, <2>4
<1>7. ASSUME NEW m \in 1 .. N, m - 1 \in Found PROVE m \in Found
  <2>1. PICK i \in Nat : i = N - m
    <3>1. \A n \in Nat : \A l \in 1 .. n : n - l \in Nat
      OBVIOUS
    <3>2. N - m \in Nat
      BY <1>1, <3>1
    <3>3. QED
      BY <3>2
  <2>2. /\ i \in 0 .. N /\ i + 1 \in 1 .. N /\ N - (m - 1) = i + 1 /\ (i + 1) - 1 = i
        /\ m \in 0 .. N
    BY <1>1, <2>1
  <2>3. PICK r : Rest(m - 1, r)
    <3> HIDE DEF Rest
    <3>1. QED
      BY <1>7
  <2>4. PICK left : left = LastOf(packets, m - 1)
    OBVIOUS
  <2>5. /\ r \in Seq(Byte) /\ body = f[i + 1] \o r
        /\ of[Len(r)] = [kind |-> "Batch", packets |-> left]
    BY <2>2, <2>3, <2>4
  <2>6. PICK p \in AnyPacket : p = packets[i + 1]
    BY <1>1, <2>2
  <2>7. PICK e \in Seq(Byte) : e = G!EncodePacket(p) /\ Len(e) >= 1 /\ Len(e) \in Nat
    <3>1. \A x \in Seq(Byte) : Len(x) \in Nat
      OBVIOUS
    <3>2. QED
      BY <3>1, PacketTakes
  <2>8. PICK a \in Seq(Byte) : a = f[i]
    BY <1>3, <2>2
  <2>9. f[i + 1] = a \o e
    <3>1. parts[i + 1] = e
      BY <1>2, <2>2, <2>6, <2>7
    <3>2. f[i + 1] = f[(i + 1) - 1] \o parts[i + 1]
      BY <1>3, <2>2
    <3>3. QED
      BY <2>2, <2>8, <3>1, <3>2
  <2>10. PICK s \in Seq(Byte) : s = e \o r /\ Len(s) = Len(e) + Len(r) /\ Len(r) \in Nat
    BY <2>5, JoinType
  <2>11. body = a \o s
    <3>1. (a \o e) \o r = a \o (e \o r)
      BY <2>5, Regrouped, Zenon
    <3>2. QED
      BY <2>5, <2>9, <2>10, <3>1, Zenon
  <2>12. Len(body) = Len(a) + Len(s) /\ Len(a) \in Nat /\ Len(s) \in Nat
    BY <2>11, JoinType
  <2>13. G!Behind(body, Len(a)) = s
    BY <2>11, BehindJoin
  <2>14. Len(s) \in 1 .. Len(body) /\ Len(body) - Len(s) = Len(a)
    BY <2>7, <2>10, <2>12
  <2>15. G!DecodePacket(s) = [ok |-> TRUE, packet |-> p, rest |-> r]
    BY <2>5, <2>7, <2>10, PacketReads
  <2>16. of[Len(s)] = [kind |-> "Batch", packets |-> <<p>> \o left]
    <3> DEFINE d == G!DecodePacket(G!Behind(body, Len(body) - Len(s)))
    <3>1. d = [ok |-> TRUE, packet |-> p, rest |-> r]
      BY <2>13, <2>14, <2>15
    <3>2. of[Len(s)] = IF ~d.ok \/ of[Len(d.rest)] = G!Refused THEN G!Refused
                       ELSE [ kind |-> "Batch",
                              packets |-> <<d.packet>> \o of[Len(d.rest)].packets ]
      BY <1>5, <2>14, Zenon DEF PacketsOf
    <3>3. d.ok /\ d.packet = p /\ d.rest = r
      BY <3>1
    <3> HIDE DEF d
    <3>4. of[Len(d.rest)] # G!Refused /\ of[Len(d.rest)].packets = left
      <4>1. of[Len(r)].kind = "Batch" /\ of[Len(r)].packets = left
        BY <2>5
      <4>2. G!Refused.kind = "Error"
        BY DEF G!Refused
      <4>3. QED
        BY <3>3, <4>1, <4>2
    <3>5. QED
      BY <3>2, <3>3, <3>4, Zenon
  <2>17. <<p>> \o left = LastOf(packets, m)
    <3>1. (Len(packets) - m) + 1 = i + 1
      BY <1>1, <2>1
    <3>2. <<packets[(Len(packets) - m) + 1]>> \o LastOf(packets, m - 1)
             = LastOf(packets, m)
      BY <1>1, LastOfStep
    <3>3. QED
      BY <2>4, <2>6, <3>1, <3>2
  <2>18. Rest(m, s)
    BY <2>1, <2>8, <2>11, <2>16, <2>17
  <2> HIDE DEF Rest
  <2>19. QED
    BY <2>2, <2>18
<1>8. N \in Found
  <2> HIDE DEF Found
  <2>1. 0 .. N \subseteq Found
    BY <1>6, <1>7, Upwards
  <2>2. QED
    BY <2>1
<1>9. PICK r : Rest(N, r)
  <2> HIDE DEF Rest
  <2>1. QED
    BY <1>8
<1>10. r = body
  <2>1. N - N = 0
    OBVIOUS
  <2>2. r \in Seq(Byte) /\ body = << >> \o r
    BY <1>3, <1>9, <2>1
  <2>3. QED
    BY <2>2, ConcatEmptySeq
<1>11. LastOf(packets, N) = packets
  <2>1. Len(packets) - N = 0 /\ \A j \in 1 .. N : 0 + j = j
    BY <1>1
  <2>2. LastOf(packets, N) = [j \in 1 .. N |-> packets[j]]
    BY <2>1 DEF LastOf
  <2>3. packets = [j \in 1 .. N |-> packets[j]]
    BY <1>1
  <2>4. QED
    BY <2>2, <2>3
<1>12. of[Len(body)] = [kind |-> "Batch", packets |-> packets]
  BY <1>9, <1>10, <1>11
<1>13. QED
  BY <1>4, <1>5, <1>12


(* A first byte put before a packet, and taken off it.                      *)
LEMMA FirstByte ==
  ASSUME NEW x \in Byte, NEW s \in Seq(Byte)
  PROVE  /\ <<x>> \o s \in Seq(Byte) /\ <<x>> \o s # << >>
         /\ (<<x>> \o s)[1] = x /\ Tail(<<x>> \o s) = s
<1>1. PICK o \in Seq(Byte) : o = <<x>> /\ Len(o) = 1 /\ o[1] = x
  <2>1. \A y \in Byte : <<y>> \in Seq(Byte) /\ Len(<<y>>) = 1 /\ <<y>>[1] = y
    OBVIOUS
  <2>2. QED
    BY <2>1
<1>2. PICK n \in Nat : n = Len(s)
  OBVIOUS
<1>3. PICK t \in Seq(Byte) : t = o \o s /\ Len(t) = 1 + n /\ t[1] = x
                             /\ \A i \in 1 .. n : t[1 + i] = s[i]
  <2>1. /\ o \o s \in Seq(Byte) /\ Len(o \o s) = Len(o) + Len(s)
        /\ \A i \in 1 .. Len(o) : (o \o s)[i] = o[i]
        /\ \A i \in 1 .. Len(s) : (o \o s)[Len(o) + i] = s[i]
    OBVIOUS
  <2>2. 1 \in 1 .. Len(o)
    BY <1>1
  <2>3. (o \o s)[1] = x
    BY <1>1, <2>1, <2>2, Zenon
  <2>4. \A i \in 1 .. n : (o \o s)[1 + i] = s[i]
    BY <1>1, <1>2, <2>1, Zenon
  <2>5. Len(o \o s) = 1 + n
    BY <1>1, <1>2, <2>1, Zenon
  <2>6. QED
    BY <2>1, <2>3, <2>4, <2>5, Zenon
<1>4. t # << >>
  BY <1>3
<1>5. Tail(t) = s
  <2>1. Tail(t) \in Seq(Byte) /\ Len(Tail(t)) = n
    BY <1>2, <1>3, <1>4
  <2>2. \A i \in 1 .. n : Tail(t)[i] = t[i + 1]
    BY <1>2, <1>3, <1>4
  <2>3. \A i \in 1 .. n : Tail(t)[i] = s[i]
    <3>1. ASSUME NEW i \in 1 .. n PROVE Tail(t)[i] = s[i]
      <4>1. i + 1 = 1 + i
        OBVIOUS
      <4>2. QED
        BY <1>3, <2>2, <4>1
    <3>2. QED
      BY <3>1
  <2>4. QED
    BY <1>2, <2>1, <2>3, SeqEqual
<1>6. QED
  BY <1>1, <1>3, <1>4, <1>5

(* What was compressed is told by its header, and given back.               *)
LEMMA InflateBack ==
  ASSUME NEW data \in Seq(Byte)
  PROVE  /\ G!Deflate(data) \in Seq(Byte) /\ G!Deflate(data) # << >>
         /\ G!Deflate(data)[1] = 120
         /\ G!Inflates(G!Deflate(data)) /\ G!Inflate(G!Deflate(data)) = data
<1>1. PICK h \in Seq(Byte) : h = <<120, 156>> /\ Len(h) = 2 /\ h[1] = 120 /\ h[2] = 156
  <2>1. 120 \in Byte /\ 156 \in Byte
    BY DEF Byte
  <2>2. \A x, y \in Byte : /\ <<x, y>> \in Seq(Byte) /\ Len(<<x, y>>) = 2
                           /\ <<x, y>>[1] = x /\ <<x, y>>[2] = y
    OBVIOUS
  <2>3. PICK x \in Byte, y \in Byte : x = 120 /\ y = 156
    BY <2>1
  <2>4. <<x, y>> \in Seq(Byte) /\ Len(<<x, y>>) = 2 /\ <<x, y>>[1] = x /\ <<x, y>>[2] = y
    BY <2>2
  <2>5. QED
    BY <2>3, <2>4
<1>2. G!Check(data) \in Byte
  <2>1. PICK n \in Nat : n = Len(data) + IF data = << >> THEN 1 ELSE 3 * data[Len(data)]
    <3>1. Len(data) \in Nat
      OBVIOUS
    <3>2. CASE data = << >>
      BY <3>1, <3>2
    <3>3. CASE data # << >>
      <4>1. data[Len(data)] \in Byte
        BY <3>1, <3>3
      <4>2. PICK x \in Nat : x = data[Len(data)]
        BY <4>1, ByteIs
      <4>3. QED
        BY <3>1, <3>3, <4>2
    <3>4. QED
      BY <3>2, <3>3
  <2>2. G!Check(data) = n % 251
    BY <2>1, Zenon DEF G!Check
  <2>3. \A m \in Nat : m < 251 => m \in Byte
    BY DEF Byte
  <2>4. n % 251 \in Nat /\ n % 251 < 251
    OBVIOUS
  <2>5. QED
    BY <2>2, <2>3, <2>4, Zenon
<1>3. PICK e \in Seq(Byte) : e = <<G!Check(data)>> /\ Len(e) = 1
  <2>1. \A x \in Byte : <<x>> \in Seq(Byte) /\ Len(<<x>>) = 1
    OBVIOUS
  <2>2. QED
    BY <1>2, <2>1
<1>4. PICK r \in Seq(Byte) : r = data \o e /\ Len(r) = Len(data) + 1 /\ Len(data) \in Nat
  BY <1>3, JoinType
<1>5. PICK s \in Seq(Byte) : s = h \o r /\ Len(s) = 2 + Len(r) /\ s[1] = 120 /\ s[2] = 156
  <2>1. /\ h \o r \in Seq(Byte) /\ Len(h \o r) = Len(h) + Len(r)
        /\ \A i \in 1 .. Len(h) : (h \o r)[i] = h[i]
    OBVIOUS
  <2>2. 1 \in 1 .. Len(h) /\ 2 \in 1 .. Len(h)
    BY <1>1
  <2>3. (h \o r)[1] = h[1] /\ (h \o r)[2] = h[2]
    BY <2>1, <2>2, Zenon
  <2>4. PICK s \in Seq(Byte) : s = h \o r
    BY <2>1, Zenon
  <2>5. Len(s) = 2 + Len(r) /\ s[1] = 120 /\ s[2] = 156
    BY <1>1, <2>1, <2>3, <2>4
  <2>6. QED
    BY <2>4, <2>5, Zenon
<1>6. G!Deflate(data) = s
  <2>1. (h \o data) \o e = h \o (data \o e)
    BY Regrouped, Zenon
  <2>2. G!Deflate(data) = (h \o data) \o e
    BY <1>1, <1>3, Zenon DEF G!Deflate
  <2>3. QED
    BY <1>4, <1>5, <2>1, <2>2, Zenon
<1>7. Len(s) = Len(data) + 3 /\ Len(s) >= 3 /\ Len(s) - 1 = 2 + Len(data)
  BY <1>4, <1>5
<1>8. SubSeq(s, 3, Len(s) - 1) = data
  <2>1. G!Slice(h \o (data \o e), Len(h), Len(data)) = data
    BY SliceJoin, Zenon
  <2>2. G!Slice(s, 2, Len(data)) = data
    BY <1>1, <1>4, <1>5, <2>1, Zenon
  <2>3. Len(s) - 2 >= Len(data) /\ 2 + 1 = 3
    BY <1>4, <1>7
  <2>4. QED
    BY <1>7, <2>2, <2>3 DEF G!Slice
<1>9. s # << >>
  BY <1>7
<1>10. G!Inflates(s) /\ G!Inflate(s) = data
  BY <1>5, <1>6, <1>7, <1>8, Zenon DEF G!Inflates, G!Inflate
<1>11. QED
  BY <1>5, <1>6, <1>9, <1>10

(* A batch is taken for a packet of the application, and read in the shape  *)
(* it was written in (protocol.rs:249-284).                                 *)
LEMMA BatchBack ==
  ASSUME NEW b \in AnyBatch, G!BatchEncodes(b.algorithm)
  PROVE  ReadBatch(G!EncodeBatch(b.packets, b.algorithm))
           = [kind |-> "Batch", packets |-> b.packets]
<1>1. /\ b.packets \in Seq(AnyPacket)
      /\ b.algorithm = G!COMPRESSION_NONE => ~LooksCompressed(G!BatchBody(b.packets))
  BY DEF AnyBatch, AnyPacket
<1>2. PICK body \in Seq(Byte) :
         /\ body = G!BatchBody(b.packets)
         /\ G!DecodeBatchBody(body) = [kind |-> "Batch", packets |-> b.packets]
  BY <1>1, BodyReads, Zenon
<1>3. PICK z \in Seq(Byte) : /\ z = G!Deflate(body) /\ z # << >> /\ z[1] = 120
                             /\ G!Inflates(z) /\ G!Inflate(z) = body
  BY InflateBack, Zenon

<1>4. /\ G!ID_BATCH \in Byte /\ G!COMPRESSION_FLATE \in Byte
      /\ G!ID_BATCH \notin {0, 3, 9, 16, 19, 21} /\ G!COMPRESSION_FLATE = 0
      /\ G!COMPRESSION_FLATE # G!Legacy
      /\ G!COMPRESSION_NONE # G!Legacy /\ G!COMPRESSION_NONE # G!COMPRESSION_FLATE
  BY DEF Byte, G!ID_BATCH, G!COMPRESSION_FLATE, G!COMPRESSION_NONE, G!Legacy
<1>5. ASSUME NEW rest \in Seq(Byte)
      PROVE  /\ ReadBatch(<<G!ID_BATCH>> \o rest) = G!DecodeBatch(<<G!ID_BATCH>> \o rest)
             /\ G!DecodeBatch(<<G!ID_BATCH>> \o rest) =
                  IF /\ rest # << >> /\ rest[1] = G!COMPRESSION_FLATE
                     /\ G!Inflates(Tail(rest))
                  THEN G!DecodeBatchBody(G!Inflate(Tail(rest)))
                  ELSE IF G!Inflates(rest) THEN G!DecodeBatchBody(G!Inflate(rest))
                  ELSE G!DecodeBatchBody(rest)
  <2>1. PICK data : /\ data = <<G!ID_BATCH>> \o rest /\ data # << >>
                    /\ data[1] = G!ID_BATCH /\ Tail(data) = rest
    BY <1>4, FirstByte, Zenon
  <2>2. M!ClassifyMessage(data).kind = "Application"
    <3>1. /\ data[1] # 0 /\ data[1] # 3 /\ data[1] # 9 /\ data[1] # 16 /\ data[1] # 19
          /\ data[1] # 21
      BY <1>4, <2>1, Zenon
    <3>2. M!ClassifyMessage(data) = [kind |-> "Application", body |-> data]
      BY <2>1, <3>1, Zenon DEF M!ClassifyMessage
    <3>3. QED
      BY <3>2
  <2>3. G!DecodeBatch(data) =
          IF /\ rest # << >> /\ rest[1] = G!COMPRESSION_FLATE /\ G!Inflates(Tail(rest))
          THEN G!DecodeBatchBody(G!Inflate(Tail(rest)))
          ELSE IF G!Inflates(rest) THEN G!DecodeBatchBody(G!Inflate(rest))
          ELSE G!DecodeBatchBody(rest)
    BY <2>1, Zenon DEF G!DecodeBatch
  <2>4. ReadBatch(data) = G!DecodeBatch(data)
    BY <2>2, Zenon DEF ReadBatch
  <2>5. QED
    BY <2>1, <2>3, <2>4, Zenon
<1>6. CASE b.algorithm = G!COMPRESSION_FLATE
  <2>1. PICK rest \in Seq(Byte) :
           /\ rest = <<G!COMPRESSION_FLATE>> \o z
           /\ rest # << >> /\ rest[1] = G!COMPRESSION_FLATE /\ Tail(rest) = z
    BY <1>4, FirstByte, Zenon
  <2>2. G!EncodeBatch(b.packets, b.algorithm) = <<G!ID_BATCH>> \o rest
    <3>1. G!EncodeBatch(b.packets, G!COMPRESSION_FLATE)
             = <<G!ID_BATCH>>
                 \o (<<G!COMPRESSION_FLATE>> \o G!Deflate(G!BatchBody(b.packets)))
      BY <1>4 DEF G!EncodeBatch
    <3>2. QED
      BY <1>2, <1>3, <1>6, <2>1, <3>1, Zenon
  <2>3. G!DecodeBatch(<<G!ID_BATCH>> \o rest) = G!DecodeBatchBody(body)
    <3>1. rest # << >> /\ rest[1] = G!COMPRESSION_FLATE /\ G!Inflates(Tail(rest))
      BY <1>3, <2>1, Zenon
    <3>2. G!DecodeBatch(<<G!ID_BATCH>> \o rest) = G!DecodeBatchBody(G!Inflate(Tail(rest)))
      BY <1>5, <3>1, Zenon
    <3>3. QED
      BY <1>3, <2>1, <3>2, Zenon
  <2>4. QED
    BY <1>2, <1>5, <2>2, <2>3, Zenon
<1>7. CASE b.algorithm = G!Legacy
  <2>1. G!EncodeBatch(b.packets, b.algorithm) = <<G!ID_BATCH>> \o z
    <3>1. G!EncodeBatch(b.packets, G!Legacy)
             = <<G!ID_BATCH>> \o G!Deflate(G!BatchBody(b.packets))
      BY <1>4 DEF G!EncodeBatch
    <3>2. QED
      BY <1>2, <1>3, <1>7, <3>1, Zenon
  <2>2. z[1] # G!COMPRESSION_FLATE
    BY <1>3, <1>4
  <2>3. G!DecodeBatch(<<G!ID_BATCH>> \o z) = G!DecodeBatchBody(body)
    <3>1. ~(z # << >> /\ z[1] = G!COMPRESSION_FLATE /\ G!Inflates(Tail(z)))
      BY <2>2
    <3>2. G!DecodeBatch(<<G!ID_BATCH>> \o z) = G!DecodeBatchBody(G!Inflate(z))
      BY <1>3, <1>5, <3>1, Zenon
    <3>3. QED
      BY <1>3, <3>2, Zenon
  <2>4. QED
    BY <1>2, <1>5, <2>1, <2>3, Zenon
<1>8. CASE b.algorithm = G!COMPRESSION_NONE
  <2>1. G!EncodeBatch(b.packets, b.algorithm) = <<G!ID_BATCH>> \o body
    <3>1. G!EncodeBatch(b.packets, G!COMPRESSION_NONE)
             = <<G!ID_BATCH>> \o G!BatchBody(b.packets)
      BY <1>4 DEF G!EncodeBatch
    <3>2. QED
      BY <1>2, <1>8, <3>1, Zenon
  <2>2. /\ ~G!Inflates(body)
        /\ ~(body # << >> /\ body[1] = G!COMPRESSION_FLATE /\ G!Inflates(Tail(body)))
    BY <1>1, <1>2, <1>8, Zenon DEF LooksCompressed
  <2>3. QED
    BY <1>2, <1>5, <2>1, <2>2, Zenon
<1>9. QED
  BY <1>6, <1>7, <1>8 DEF G!BatchEncodes


(* The cursor of a parser that has not failed.                              *)
CursorAt(data, pos) == [data |-> data, pos |-> pos, ok |-> TRUE]

(* What a parser reads that has enough left to read (PacketBuf).            *)
LEMMA CursorReads ==
  ASSUME NEW data \in Seq(Byte), NEW pos \in Nat, NEW n \in Nat, pos + n <= Len(data)
  PROVE  /\ G!Ensure(CursorAt(data, pos), n)
         /\ G!Skip(CursorAt(data, pos), n) = CursorAt(data, pos + n)
         /\ G!Bytes(CursorAt(data, pos), n) = SubSeq(data, pos + 1, pos + n)
<1>1. PICK L \in Nat : L = Len(data)
  OBVIOUS
<1>2. L - pos >= n
  BY <1>1
<1>3. /\ CursorAt(data, pos).ok /\ CursorAt(data, pos).data = data
      /\ CursorAt(data, pos).pos = pos
  BY DEF CursorAt
<1>4. G!Ensure(CursorAt(data, pos), n)
  BY <1>1, <1>2, <1>3, Zenon DEF G!Ensure, G!Remaining
<1>5. [CursorAt(data, pos) EXCEPT !.pos = @ + n] = CursorAt(data, pos + n)
  <2>1. PICK o : o = TRUE
    OBVIOUS
  <2>2. \A q : CursorAt(data, q) = [data |-> data, pos |-> q, ok |-> o]
    BY <2>1 DEF CursorAt
  <2>3. QED
    BY <2>2
<1>6. QED
  BY <1>3, <1>4, <1>5, Zenon DEF G!Skip, G!Bytes

(* The byte at the cursor.                                                  *)
LEMMA ByteAt ==
  ASSUME NEW data \in Seq(Byte), NEW pos \in Nat, pos + 1 <= Len(data)
  PROVE  G!U8(CursorAt(data, pos)) = data[pos + 1]
<1>1. G!Bytes(CursorAt(data, pos), 1) = SubSeq(data, pos + 1, pos + 1)
  BY CursorReads
<1>2. SubSeq(data, pos + 1, pos + 1)[1] = data[pos + 1]
  OBVIOUS
<1>3. QED
  BY <1>1, <1>2, Zenon DEF G!U8

(* The number of two bytes, the first the more significant.                 *)
Word(x, y) == 256 * x + y

(* The number of 16 bits at the cursor.                                     *)
LEMMA TwoAt ==
  ASSUME NEW data \in Seq(Byte), NEW pos \in Nat, pos + 2 <= Len(data)
  PROVE  G!U16(CursorAt(data, pos)) = Word(data[pos + 1], data[pos + 2])
<1>1. G!Bytes(CursorAt(data, pos), 2) = SubSeq(data, pos + 1, pos + 2)
  BY CursorReads
<1>2. /\ SubSeq(data, pos + 1, pos + 2)[1] = data[pos + 1]
      /\ SubSeq(data, pos + 1, pos + 2)[2] = data[pos + 2]
  <2>1. PICK m \in Nat, n \in Nat :
           m = pos + 1 /\ n = pos + 2 /\ n = m + 1 /\ 1 <= m /\ n <= Len(data)
    OBVIOUS
  <2>2. \A i \in 1 .. (n - m) + 1 : SubSeq(data, m, n)[i] = data[(m + i) - 1]
    <3>1. \A i \in m .. n : data[i] \in Byte
      BY <2>1
    <3>2. m \in Int /\ n \in Int
      BY <2>1
    <3>3. QED
      BY <3>1, <3>2, SubSeqProperties
  <2>3. 1 \in 1 .. (n - m) + 1 /\ 2 \in 1 .. (n - m) + 1 /\ (m + 1) - 1 = m
        /\ (m + 2) - 1 = n
    BY <2>1
  <2>4. SubSeq(data, m, n)[1] = data[m] /\ SubSeq(data, m, n)[2] = data[n]
    BY <2>2, <2>3, Zenon
  <2>5. QED
    BY <2>1, <2>4, Zenon
<1>3. QED
  BY <1>1, <1>2, Zenon DEF G!U16, Word

(* A number of 16 bits in its two bytes.                                    *)
LEMMA TwoBytes ==
  ASSUME NEW v \in U16
  PROVE  /\ G!PutU16(v) \in Seq(Byte) /\ Len(G!PutU16(v)) = 2
         /\ Word(G!PutU16(v)[1], G!PutU16(v)[2]) = v
<1>1. v \in Nat /\ v < 256 * 256
  <2>1. PICK top \in Nat : top = D!U16Max
    BY DEF D!U16Max
  <2>2. v \in 0 .. top
    BY <2>1, Zenon DEF U16
  <2>3. top < 256 * 256
    BY <2>1 DEF D!U16Max
  <2>4. QED
    BY <2>2, <2>3
<1>2. PICK x \in Nat, y \in Nat : x = (v \div 256) % 256 /\ y = v % 256
  <2>1. v \div 256 \in Nat /\ v % 256 \in Nat
    BY <1>1
  <2>2. (v \div 256) % 256 \in Nat
    BY <2>1
  <2>3. QED
    BY <2>1, <2>2
<1>3. 256 * x + y = v /\ x < 256 /\ y < 256
  <2>1. PICK q \in Nat : q = v \div 256
    BY <1>1
  <2>2. v = 256 * q + (v % 256) /\ q < 256
    BY <1>1, <2>1
  <2>3. q % 256 = q
    BY <2>2
  <2>4. QED
    BY <1>1, <1>2, <2>1, <2>2, <2>3
<1>4. x \in Byte /\ y \in Byte
  BY <1>3 DEF Byte
<1>5. G!PutU16(v) = <<x, y>>
  BY <1>2 DEF G!PutU16
<1>6. \A a, b \in Byte : /\ <<a, b>> \in Seq(Byte) /\ Len(<<a, b>>) = 2
                         /\ <<a, b>>[1] = a /\ <<a, b>>[2] = b
  OBVIOUS
<1>7. QED
  BY <1>3, <1>4, <1>5, <1>6 DEF Word


(* Where the bytes of two parts stand in what they are joined to.           *)
LEMMA PartsAt ==
  ASSUME NEW a \in Seq(Byte), NEW b \in Seq(Byte)
  PROVE  /\ a \o b \in Seq(Byte) /\ Len(a \o b) = Len(a) + Len(b)
         /\ \A i \in 1 .. Len(a) : (a \o b)[i] = a[i]
         /\ \A i \in 1 .. Len(b) : (a \o b)[Len(a) + i] = b[i]
OBVIOUS

(* Settings are put together of parts of two, two, two and four bytes.      *)
LEMMA TwoAndTwo ==
  ASSUME NEW a \in Seq(Byte), NEW b \in Seq(Byte), Len(a) = 2, Len(b) = 2
  PROVE  /\ a \o b \in Seq(Byte) /\ Len(a \o b) = 4
         /\ (a \o b)[1] = a[1] /\ (a \o b)[2] = a[2]
         /\ (a \o b)[3] = b[1] /\ (a \o b)[4] = b[2]
<1>1. /\ 1 \in 1 .. Len(a) /\ 2 \in 1 .. Len(a) /\ 1 \in 1 .. Len(b) /\ 2 \in 1 .. Len(b)
      /\ Len(a) + 1 = 3 /\ Len(a) + 2 = 4 /\ Len(a) + Len(b) = 4
  OBVIOUS
<1>2. (a \o b)[1] = a[1] /\ (a \o b)[2] = a[2]
  BY <1>1, PartsAt, Zenon
<1>3. (a \o b)[Len(a) + 1] = b[1] /\ (a \o b)[Len(a) + 2] = b[2]
  BY <1>1, PartsAt, Zenon
<1>4. a \o b \in Seq(Byte) /\ Len(a \o b) = Len(a) + Len(b)
  BY PartsAt, Zenon
<1>5. QED
  BY <1>1, <1>2, <1>3, <1>4, Zenon

(* Two more behind four.                                                    *)
LEMMA FourAndTwo ==
  ASSUME NEW a \in Seq(Byte), NEW b \in Seq(Byte), Len(a) = 4, Len(b) = 2
  PROVE  /\ a \o b \in Seq(Byte) /\ Len(a \o b) = 6
         /\ \A i \in 1 .. 4 : (a \o b)[i] = a[i]
         /\ (a \o b)[5] = b[1] /\ (a \o b)[6] = b[2]
<1>1. /\ 1 \in 1 .. Len(b) /\ 2 \in 1 .. Len(b)
      /\ Len(a) + 1 = 5 /\ Len(a) + 2 = 6 /\ Len(a) + Len(b) = 6
  OBVIOUS
<1>2. \A i \in 1 .. Len(a) : (a \o b)[i] = a[i]
  BY PartsAt, Zenon
<1>3. (a \o b)[Len(a) + 1] = b[1] /\ (a \o b)[Len(a) + 2] = b[2]
  BY <1>1, PartsAt, Zenon
<1>4. a \o b \in Seq(Byte) /\ Len(a \o b) = Len(a) + Len(b)
  BY PartsAt, Zenon
<1>5. QED
  BY <1>1, <1>2, <1>3, <1>4, Zenon

(* Four more behind six.                                                    *)
LEMMA SixAndFour ==
  ASSUME NEW a \in Seq(Byte), NEW b \in Seq(Byte), Len(a) = 6, Len(b) = 4
  PROVE  /\ a \o b \in Seq(Byte) /\ Len(a \o b) = 10
         /\ \A i \in 1 .. 6 : (a \o b)[i] = a[i]
<1>1. Len(a) + Len(b) = 10
  OBVIOUS
<1>2. \A i \in 1 .. Len(a) : (a \o b)[i] = a[i]
  BY PartsAt, Zenon
<1>3. a \o b \in Seq(Byte) /\ Len(a \o b) = Len(a) + Len(b)
  BY PartsAt, Zenon
<1>4. QED
  BY <1>1, <1>2, <1>3, Zenon

(* NetworkSettings: two numbers, a flag, a byte and the four of a float, at *)
(* their places (login.rs).                                                 *)
LEMMA SettingsBack ==
  ASSUME NEW m \in AnySettings
  PROVE  G!DecodeNetworkSettings(G!NetworkSettings(m)) = m
<1>1. /\ m.compression_threshold \in U16 /\ m.compression_algorithm \in U16
      /\ m.client_throttle \in BOOLEAN /\ m.client_throttle_threshold \in Byte
      /\ m.client_throttle_scalar \in [1 .. 4 -> Byte]
      /\ m = [ kind |-> "NetworkSettings",
               compression_threshold     |-> m.compression_threshold,
               compression_algorithm     |-> m.compression_algorithm,
               client_throttle           |-> m.client_throttle,
               client_throttle_threshold |-> m.client_throttle_threshold,
               client_throttle_scalar    |-> m.client_throttle_scalar ]
  BY DEF AnySettings
<1>2. PICK a \in Seq(Byte) :
         /\ a = G!PutU16(m.compression_threshold) /\ Len(a) = 2
         /\ Word(a[1], a[2]) = m.compression_threshold
  BY <1>1, TwoBytes
<1>3. PICK b \in Seq(Byte) :
         /\ b = G!PutU16(m.compression_algorithm) /\ Len(b) = 2
         /\ Word(b[1], b[2]) = m.compression_algorithm
  BY <1>1, TwoBytes
<1>4. PICK t \in Byte : t = IF m.client_throttle THEN 1 ELSE 0
  BY <1>1 DEF Byte
<1>5. t # 0 <=> m.client_throttle
  BY <1>1, <1>4
<1>6. PICK c \in Seq(Byte) :
         c = <<t, m.client_throttle_threshold>> /\ Len(c) = 2
         /\ c[1] = t /\ c[2] = m.client_throttle_threshold
  <2>1. \A x, y \in Byte : /\ <<x, y>> \in Seq(Byte) /\ Len(<<x, y>>) = 2
                           /\ <<x, y>>[1] = x /\ <<x, y>>[2] = y
    OBVIOUS
  <2>2. QED
    BY <1>1, <2>1
<1>7. PICK s \in Seq(Byte) : s = m.client_throttle_scalar /\ Len(s) = 4
  <2>1. \A n \in Nat : \A f \in [1 .. n -> Byte] : f \in Seq(Byte) /\ Len(f) = n
    OBVIOUS
  <2>2. QED
    BY <1>1, <2>1
<1>8. PICK d \in Seq(Byte) :
         /\ d = a \o b /\ Len(d) = 4
         /\ d[1] = a[1] /\ d[2] = a[2] /\ d[3] = b[1] /\ d[4] = b[2]
  <2>1. /\ a \o b \in Seq(Byte) /\ Len(a \o b) = 4
        /\ (a \o b)[1] = a[1] /\ (a \o b)[2] = a[2]
        /\ (a \o b)[3] = b[1] /\ (a \o b)[4] = b[2]
    <3>1. Len(a) = 2 /\ Len(b) = 2
      BY <1>2, <1>3, Zenon
    <3>2. QED
      BY <3>1, TwoAndTwo, Zenon
  <2>2. QED
    BY <2>1, Zenon
<1>9. PICK e \in Seq(Byte) : /\ e = d \o c /\ Len(e) = 6
                             /\ \A i \in 1 .. 4 : e[i] = d[i]
                             /\ e[5] = c[1] /\ e[6] = c[2]
  BY <1>6, <1>8, FourAndTwo, Zenon
<1>10. PICK data \in Seq(Byte) :
          /\ data = e \o s /\ Len(data) = 10 /\ \A i \in 1 .. 6 : data[i] = e[i]
  BY <1>7, <1>9, SixAndFour, Zenon
<1>11. G!NetworkSettings(m) = data
  BY <1>2, <1>3, <1>4, <1>6, <1>7, <1>8, <1>9, <1>10, Zenon DEF G!NetworkSettings
<1>12. SubSeq(data, 7, 10) = s
  <2>1. e \o (s \o << >>) = data /\ << >> \in Seq(Byte)
    BY <1>10, ConcatEmptySeq
  <2>2. G!Slice(data, 6, 4) = s
    <3>1. G!Slice(e \o (s \o << >>), Len(e), Len(s)) = s
      BY <2>1, SliceJoin, Zenon
    <3>2. QED
      BY <1>7, <1>9, <2>1, <3>1, Zenon
  <2>3. G!Slice(data, 6, 4) = SubSeq(data, 7, 10)
    BY <1>10 DEF G!Slice
  <2>4. QED
    BY <2>2, <2>3
<1>13. /\ G!Cursor(data) = CursorAt(data, 0) /\ G!Ensure(CursorAt(data, 0), 10)
       /\ G!Skip(CursorAt(data, 0), 2) = CursorAt(data, 2)
       /\ G!Skip(CursorAt(data, 0), 4) = CursorAt(data, 4)
       /\ G!Skip(CursorAt(data, 0), 5) = CursorAt(data, 5)
       /\ G!Skip(CursorAt(data, 0), 6) = CursorAt(data, 6)
       /\ G!Bytes(CursorAt(data, 6), 4) = SubSeq(data, 7, 10)
  <2>1. G!Cursor(data) = CursorAt(data, 0)
    BY DEF G!Cursor, CursorAt
  <2>2. \A n \in Nat : n <= 10 => /\ G!Ensure(CursorAt(data, 0), n)
                                  /\ G!Skip(CursorAt(data, 0), n) = CursorAt(data, n)
    <3>1. ASSUME NEW n \in Nat, n <= 10
          PROVE  /\ G!Ensure(CursorAt(data, 0), n)
                 /\ G!Skip(CursorAt(data, 0), n) = CursorAt(data, n)
      <4>1. 0 + n = n /\ 0 + n <= Len(data)
        BY <1>10, <3>1
      <4>2. QED
        BY <4>1, CursorReads
    <3>2. QED
      BY <3>1
  <2>3. G!Bytes(CursorAt(data, 6), 4) = SubSeq(data, 6 + 1, 6 + 4)
    <3>1. 6 \in Nat /\ 4 \in Nat /\ 6 + 4 <= Len(data)
      BY <1>10
    <3>2. QED
      BY <3>1, CursorReads, Zenon
  <2>4. QED
    BY <2>1, <2>2, <2>3
<1>14. /\ G!U16(CursorAt(data, 0)) = m.compression_threshold
       /\ G!U16(CursorAt(data, 2)) = m.compression_algorithm
       /\ G!U8(CursorAt(data, 4)) = t
       /\ G!U8(CursorAt(data, 5)) = m.client_throttle_threshold
  <2>1. data[1] = a[1] /\ data[2] = a[2] /\ data[3] = b[1] /\ data[4] = b[2]
        /\ data[5] = t /\ data[6] = m.client_throttle_threshold
    <3>1. /\ 1 \in 1 .. 4 /\ 2 \in 1 .. 4 /\ 3 \in 1 .. 4 /\ 4 \in 1 .. 4
          /\ 1 \in 1 .. 6 /\ 2 \in 1 .. 6 /\ 3 \in 1 .. 6 /\ 4 \in 1 .. 6
          /\ 5 \in 1 .. 6 /\ 6 \in 1 .. 6
      OBVIOUS
    <3>2. /\ data[1] = e[1] /\ data[2] = e[2] /\ data[3] = e[3] /\ data[4] = e[4]
          /\ data[5] = e[5] /\ data[6] = e[6]
      BY <1>10, <3>1, Zenon
    <3>3. e[1] = d[1] /\ e[2] = d[2] /\ e[3] = d[3] /\ e[4] = d[4]
      BY <1>9, <3>1, Zenon
    <3>4. QED
      BY <1>6, <1>8, <1>9, <3>2, <3>3, Zenon
  <2>2. /\ 0 + 1 = 1 /\ 0 + 2 = 2 /\ 2 + 1 = 3 /\ 2 + 2 = 4 /\ 4 + 1 = 5 /\ 5 + 1 = 6
        /\ 0 \in Nat /\ 2 \in Nat /\ 4 \in Nat /\ 5 \in Nat
        /\ 0 + 2 <= 10 /\ 2 + 2 <= 10 /\ 4 + 1 <= 10 /\ 5 + 1 <= 10
    OBVIOUS
  <2>3. /\ G!U16(CursorAt(data, 0)) = Word(data[0 + 1], data[0 + 2])
        /\ G!U16(CursorAt(data, 2)) = Word(data[2 + 1], data[2 + 2])
    BY <1>10, <2>2, TwoAt, Zenon
  <2>4. G!U8(CursorAt(data, 4)) = data[4 + 1] /\ G!U8(CursorAt(data, 5)) = data[5 + 1]
    BY <1>10, <2>2, ByteAt, Zenon
  <2>5. QED
    BY <1>2, <1>3, <2>1, <2>2, <2>3, <2>4, Zenon
<1>15. G!DecodeNetworkSettings(data) =
         [ kind |-> "NetworkSettings",
           compression_threshold     |-> m.compression_threshold,
           compression_algorithm     |-> m.compression_algorithm,
           client_throttle           |-> t # 0,
           client_throttle_threshold |-> m.client_throttle_threshold,
           client_throttle_scalar    |-> s ]
  BY <1>12, <1>13, <1>14, Zenon DEF G!DecodeNetworkSettings
<1>16. PICK flag \in BOOLEAN : flag = (t # 0) /\ flag = m.client_throttle
  BY <1>1, <1>5
<1>17. QED
  BY <1>1, <1>7, <1>11, <1>15, <1>16, Zenon


(* An even number of 32 bits has an odd one above it.                       *)
LEMMA OddAbove ==
  ASSUME NEW k \in U31
  PROVE  2 * k + 1 \in U32
<1>1. k \in Nat /\ (2 * k) \div 65536 \in U16
  BY DEF U31, U32
<1>2. PICK p \in Nat : p = (2 * k) \div 65536
  BY <1>1
<1>3. 65536 * p <= 2 * k /\ 2 * k < 65536 * p + 65536
  BY <1>1, <1>2
<1>4. 2 * k + 1 < 65536 * p + 65536
  BY <1>1, <1>3
<1>5. (2 * k + 1) \div 65536 = p
  BY <1>1, <1>3, <1>4
<1>6. 2 * k + 1 \in Nat
  BY <1>1
<1>7. (2 * k + 1) \div 65536 \in U16
  BY <1>1, <1>2, <1>5
<1>8. QED
  BY <1>6, <1>7 DEF U32

(* A signed number of 32 bits goes through zig-zag into an unsigned one,    *)
(* and back (protocol.rs).                                                  *)
LEMMA ZigZag ==
  ASSUME NEW v \in I32
  PROVE  \E zz \in U32 : G!WriteVarint32(v) = G!WriteVaruint32(zz) /\ G!Unzigzag(zz) = v
<1>1. v \in Int /\ (v \in U31 \/ -v - 1 \in U31)
  BY DEF I32
<1>2. \A k \in U31 : k \in Nat /\ 2 * k \in U32
  BY DEF U31
<1>3. CASE v >= 0
  <2>1. v \in U31
    BY <1>1, <1>2, <1>3
  <2>2. v \in Nat /\ 2 * v \in U32
    BY <1>2, <2>1
  <2>3. (2 * v) % 2 = 0 /\ (2 * v) \div 2 = v
    BY <2>2
  <2>4. G!WriteVarint32(v) = G!WriteVaruint32(2 * v)
    BY <1>3 DEF G!WriteVarint32
  <2>5. G!Unzigzag(2 * v) = v
    BY <2>3 DEF G!Unzigzag
  <2>6. QED
    BY <2>2, <2>4, <2>5
<1>4. CASE ~(v >= 0)
  <2>1. v \notin U31
    BY <1>1, <1>2, <1>4
  <2>2. PICK k \in U31 : k = -v - 1
    BY <1>1, <2>1
  <2>3. k \in Nat /\ v = -k - 1 /\ 2 * k + 1 = -2 * v - 1
    BY <1>1, <1>2, <2>2
  <2>4. (2 * k + 1) % 2 = 1 /\ (2 * k + 1) \div 2 = k
    BY <2>3
  <2>5. G!WriteVarint32(v) = G!WriteVaruint32(2 * k + 1)
    BY <1>4, <2>3 DEF G!WriteVarint32
  <2>6. G!Unzigzag(2 * k + 1) = v
    BY <2>3, <2>4 DEF G!Unzigzag
  <2>7. QED
    BY <2>2, <2>5, <2>6, OddAbove
<1>5. QED
  BY <1>3, <1>4

(* The payloads of the other login packets.                                 *)
LEMMA RequestBack ==
  ASSUME NEW m \in AnyRequest
  PROVE  G!DecodeRequestNetworkSettings(G!RequestNetworkSettings(m.protocol)) = m
<1>1. m.protocol \in I32 /\ m = [kind |-> "RequestNetworkSettings", protocol |-> m.protocol]
  BY DEF AnyRequest
<1>2. PICK zz \in U32 : /\ G!WriteVarint32(m.protocol) = G!WriteVaruint32(zz)
                        /\ G!Unzigzag(zz) = m.protocol
  BY <1>1, ZigZag
<1>3. PICK w \in Seq(Byte) : w = G!WriteVaruint32(zz)
  BY VaruintType
<1>4. w \o << >> = w /\ << >> \in Seq(Byte)
  BY ConcatEmptySeq
<1>5. G!ReadVaruint32(w) = [ok |-> TRUE, n |-> Len(w), value |-> zz]
  <2>1. G!ReadVaruint32(w \o << >>) = [ok |-> TRUE, n |-> Len(w), value |-> zz]
    BY <1>3, <1>4, VaruintReads, Zenon
  <2>2. QED
    BY <1>4, <2>1, Zenon
<1>6. G!ReadVaruint32(w).ok /\ G!ReadVaruint32(w).value = zz
  BY <1>5
<1>7. G!DecodeRequestNetworkSettings(w)
        = [kind |-> "RequestNetworkSettings", protocol |-> m.protocol]
  BY <1>2, <1>6, Zenon DEF G!DecodeRequestNetworkSettings
<1>8. QED
  BY <1>1, <1>2, <1>3, <1>7, Zenon DEF G!RequestNetworkSettings

(* The server handshake is a counted token.                                 *)
LEMMA HandshakeBack ==
  ASSUME NEW m \in AnyHandshake
  PROVE  G!ServerHandshakeJwt(G!Counted(m.jwt)) = m
<1>1. /\ m.jwt \in Short /\ G!Utf8(m.jwt)
      /\ m = [kind |-> "ServerHandshake", jwt |-> m.jwt]
  BY DEF AnyHandshake
<1>2. PICK c \in Seq(Byte) : /\ c = G!Counted(m.jwt)
                             /\ G!DecodeCounted(c \o << >>)
                                  = [ok |-> TRUE, body |-> m.jwt, rest |-> << >>]
  <2>1. << >> \in Seq(Byte)
    OBVIOUS
  <2>2. QED
    BY <1>1, <2>1, CountedReads, Zenon
<1>3. c \o << >> = c
  BY ConcatEmptySeq
<1>4. G!DecodeCounted(c).ok /\ G!DecodeCounted(c).body = m.jwt
  BY <1>2, <1>3
<1>5. G!ServerHandshakeJwt(c) = [kind |-> "ServerHandshake", jwt |-> m.jwt]
  BY <1>1, <1>4, Zenon DEF G!ServerHandshakeJwt
<1>6. QED
  BY <1>1, <1>2, <1>5, Zenon

(* Login: its three counted parts, two of them inside the third.            *)
LEMMA LoginBack ==
  ASSUME NEW m \in AnyLogin
  PROVE  G!ServerReadsLogin(G!LoginPayload(m)) = m
<1>1. /\ m.protocol \in I32 /\ m.chain \in Short /\ m.client_data \in Short
      /\ G!Counted(m.chain) \o G!Counted(m.client_data) \in Short
      /\ m = [ kind |-> "Login", protocol |-> m.protocol, chain |-> m.chain,
               client_data |-> m.client_data ]
  BY DEF AnyLogin
<1>2. PICK zz \in U32 : /\ G!WriteVarint32(m.protocol) = G!WriteVaruint32(zz)
                        /\ G!Unzigzag(zz) = m.protocol
  BY <1>1, ZigZag
<1>3. PICK v \in Seq(Byte) : v = G!WriteVaruint32(zz)
  BY VaruintType
<1>4. << >> \in Seq(Byte) /\ \A x \in Seq(Byte) : x \o << >> = x
  BY ConcatEmptySeq
<1>5. PICK behind \in Seq(Byte) :
         /\ behind = G!Counted(m.client_data)
         /\ G!DecodeCounted(behind \o << >>)
              = [ok |-> TRUE, body |-> m.client_data, rest |-> << >>]
  BY <1>1, <1>4, CountedReads, Zenon
<1>6. PICK chain \in Seq(Byte) :
         /\ chain = G!Counted(m.chain)
         /\ G!DecodeCounted(chain \o behind)
              = [ok |-> TRUE, body |-> m.chain, rest |-> behind]
  BY <1>1, <1>5, CountedReads, Zenon
<1>7. PICK request \in Seq(Byte) :
         /\ request = G!Counted(chain \o behind)
         /\ G!DecodeCounted(request \o << >>)
              = [ok |-> TRUE, body |-> chain \o behind, rest |-> << >>]
  <2>1. chain \o behind \in Short
    BY <1>1, <1>5, <1>6, Zenon
  <2>2. QED
    BY <1>4, <2>1, CountedReads, Zenon
<1>8. PICK data : data = v \o request
  OBVIOUS
<1>9. G!LoginPayload(m) = data
  BY <1>2, <1>3, <1>5, <1>6, <1>7, <1>8, Zenon DEF G!LoginPayload
<1>10. G!ReadVaruint32(data) = [ok |-> TRUE, n |-> Len(v), value |-> zz]
  BY <1>3, <1>8, VaruintReads, Zenon
<1>11. G!Behind(data, Len(v)) = request
  BY <1>8, BehindJoin, Zenon
<1>12. /\ G!ReadVaruint32(data).ok /\ G!ReadVaruint32(data).n = Len(v)
       /\ G!ReadVaruint32(data).value = zz
  BY <1>10
<1>13. G!DecodeCounted(request).ok /\ G!DecodeCounted(request).body = chain \o behind
  BY <1>4, <1>7
<1>14. /\ G!DecodeCounted(chain \o behind).ok
       /\ G!DecodeCounted(chain \o behind).body = m.chain
       /\ G!DecodeCounted(chain \o behind).rest = behind
  BY <1>6
<1>15. G!DecodeCounted(behind).ok /\ G!DecodeCounted(behind).body = m.client_data
  BY <1>4, <1>5
<1>16. G!ServerReadsLogin(data) =
         [ kind |-> "Login", protocol |-> m.protocol, chain |-> m.chain,
           client_data |-> m.client_data ]
  BY <1>2, <1>11, <1>12, <1>13, <1>14, <1>15, Zenon DEF G!ServerReadsLogin
<1>17. QED
  BY <1>1, <1>9, <1>16, Zenon


(* Whatever the game layer sends is read back as it was sent.               *)
LEMMA GameReadsSent ==
  ASSUME NEW i \in Items, Encodes(i),
         i.family \in {"batch", "settings", "request", "handshake", "login"}
  PROVE  Read(i, Encode(i)) = Sent(i)
<1>1. CASE i.family = "batch"
  <2>1. i.value \in AnyBatch
    BY <1>1, ItemsAssumption
  <2>2. G!BatchEncodes(i.value.algorithm)
    BY <1>1 DEF Encodes
  <2>3. Encode(i) = G!EncodeBatch(i.value.packets, i.value.algorithm)
    BY <1>1 DEF Encode
  <2>4. Read(i, Encode(i)) = ReadBatch(Encode(i))
    BY <1>1 DEF Read
  <2>5. Sent(i) = [kind |-> "Batch", packets |-> i.value.packets]
    BY <1>1 DEF Sent
  <2>6. QED
    BY <2>1, <2>2, <2>3, <2>4, <2>5, BatchBack, Zenon
<1>2. CASE i.family # "batch"
  <2>1. Sent(i) = i.value
    BY <1>2 DEF Sent
  <2>2. CASE i.family = "settings"
    <3>1. i.value \in AnySettings
      BY <2>2, ItemsAssumption
    <3>2. Encode(i) = G!NetworkSettings(i.value)
      BY <2>2 DEF Encode
    <3>3. Read(i, Encode(i)) = G!DecodeNetworkSettings(Encode(i))
      BY <2>2 DEF Read
    <3>4. QED
      BY <2>1, <3>1, <3>2, <3>3, SettingsBack, Zenon
  <2>3. CASE i.family = "request"
    <3>1. i.value \in AnyRequest
      BY <2>3, ItemsAssumption
    <3>2. Encode(i) = G!RequestNetworkSettings(i.value.protocol)
      BY <2>3 DEF Encode
    <3>3. Read(i, Encode(i)) = G!DecodeRequestNetworkSettings(Encode(i))
      BY <2>3 DEF Read
    <3>4. QED
      BY <2>1, <3>1, <3>2, <3>3, RequestBack, Zenon
  <2>4. CASE i.family = "handshake"
    <3>1. i.value \in AnyHandshake
      BY <2>4, ItemsAssumption
    <3>2. Encode(i) = G!Counted(i.value.jwt)
      BY <2>4 DEF Encode
    <3>3. Read(i, Encode(i)) = G!ServerHandshakeJwt(Encode(i))
      BY <2>4 DEF Read
    <3>4. QED
      BY <2>1, <3>1, <3>2, <3>3, HandshakeBack, Zenon
  <2>5. CASE i.family = "login"
    <3>1. i.value \in AnyLogin
      BY <2>5, ItemsAssumption
    <3>2. Encode(i) = G!LoginPayload(i.value)
      BY <2>5 DEF Encode
    <3>3. Read(i, Encode(i)) = G!ServerReadsLogin(Encode(i))
      BY <2>5 DEF Read
    <3>4. QED
      BY <2>1, <3>1, <3>2, <3>3, LoginBack, Zenon
  <2>6. QED
    BY <1>2, <2>2, <2>3, <2>4, <2>5
<1>3. QED
  BY <1>1, <1>2

(* What is underway is what was sent, and what arrived is what was read     *)
(* from it, as long as nothing was cut off.                                 *)
Underway ==
  /\ item = NotYet \/ (item \in Items /\ Encodes(item))
  /\ item = NotYet => received = NotYet
  /\ item # NotYet /\ ~cut => wire = Encode(item)
  /\ received # NotYet /\ ~cut => received = Read(item, wire)

(* It stays so on the way.                                                  *)
LEMMA UnderwayHolds == WireSpec => []Underway
<1>1. WireInit => Underway
  BY DEF WireInit, Underway
<1>2. Underway /\ [WireNext]_wireVars => Underway'
  <2> SUFFICES ASSUME Underway, [WireNext]_wireVars PROVE Underway'
    OBVIOUS
  <2>1. CASE Send
    <3>1. PICK i \in Items : Encodes(i) /\ item' = i /\ wire' = Encode(i)
      BY <2>1 DEF Send
    <3>2. received' = NotYet
      BY <2>1 DEF Send, Underway
    <3>3. Encodes(item)' /\ wire' = Encode(item)' /\ item' \in Items
      BY <3>1 DEF Encodes, Encode
    <3>4. QED
      BY <3>2, <3>3 DEF Underway
  <2>2. CASE Cut
    <3>1. cut' /\ UNCHANGED <<item, received>> /\ item # NotYet /\ received = NotYet
      BY <2>2 DEF Cut
    <3>2. QED
      BY <3>1 DEF Underway
  <2>3. CASE Receive
    <3>1. /\ received' = Read(item, wire) /\ UNCHANGED <<item, wire, cut>>
          /\ item # NotYet
      BY <2>3 DEF Receive
    <3>2. QED
      BY <3>1 DEF Underway
  <2>4. CASE UNCHANGED wireVars
    BY <2>4 DEF Underway, wireVars
  <2>5. QED
    BY <2>1, <2>2, <2>3, <2>4 DEF WireNext
<1>3. QED
  BY <1>1, <1>2, PTL DEF WireSpec

(* A batch of any packets is read back in whichever of its three shapes it  *)
(* was written, and so are the counted payloads of the login packets.       *)
THEOREM GameLayerReadsBack == WireSpec => []BatchesReadBack
<1>1. Underway => BatchesReadBack
  <2>1. SUFFICES ASSUME Underway, received # NotYet, ~cut,
                        item.family \in {"batch", "settings", "request",
                                         "handshake", "login"}
                 PROVE  received = Sent(item)
    BY DEF BatchesReadBack, ReadBack
  <2>2. item \in Items /\ Encodes(item)
    BY <2>1 DEF Underway
  <2>3. wire = Encode(item) /\ received = Read(item, wire)
    BY <2>1 DEF Underway
  <2>4. QED
    BY <2>1, <2>2, <2>3, GameReadsSent
<1>2. QED
  BY <1>1, UnderwayHolds, PTL
=============================================================================
