------------------------------- MODULE Login -------------------------------
(***************************************************************************)
(* login_offline of src/bedrock/reliable_conn.rs with the encryption it may *)
(* turn on (src/bedrock/encryption.rs), and the other tasks that send game  *)
(* packets meanwhile.                                                       *)
(*                                                                         *)
(* Both directions are the ordered frames the session releases: first in,   *)
(* first out.  A task in send_game_packet can be overtaken by another       *)
(* between its three locks: the settings', the encryption's and, inside     *)
(* send, the engine's.  A ciphertext is named by its key and counter: it    *)
(* opens only under both.                                                   *)
(***************************************************************************)
EXTENDS Integers, Sequences, FiniteSets, SequencesExt

CONSTANTS
    Senders,      \* tasks of the application that call send_game_packet
    Algorithms,   \* compression algorithms a server may ask for
    Handshakes,   \* the ServerToClientHandshakes a server may send
    NonceSpace,   \* 2^32: how many counters a nonce tells apart
    Batches,      \* what the server may put into one batch
    MaxFrames,    \* bound: batches the server sends
    MaxApp,       \* bound: packets the application sends
    MaxLogins,    \* bound: calls of login_offline
    None, LoginTask

LegacyFormat == "legacy"
Supported    == {"flate", "none"}
Plain        == 0                      \* the key of an unencrypted frame

EncryptionSession == [key : Nat, handshake : Nat, send : Nat, recv : Nat]
ServerPackets     == UNION {ToSet(batch) : batch \in Batches}
Frame == [packets : Batches, key : Nat, counter : Nat,
          looks : {"batch", "system", "short"}]

ASSUME LoginAssumption ==
    /\ NonceSpace \in Nat \ {0} /\ Handshakes \subseteq Nat \ {0}
    /\ LoginTask \notin Senders
    /\ None \notin EncryptionSession /\ None \notin Frame
    /\ None \notin Algorithms /\ LegacyFormat \notin Algorithms
    /\ Batches \subseteq Seq(ServerPackets)
    /\ \A p \in ServerPackets : p.kind = "handshake" => p.value \in Handshakes
    /\ \A p \in ServerPackets : p.kind = "settings" => p.value \in Algorithms

Tasks == Senders \cup {LoginTask}

VARIABLES
    phase,       \* where login_offline is
    settings,    \* network_settings: an algorithm, or None
    session,     \* encryption: an EncryptionSession, or None
    keys,        \* key pairs made so far: each session has its own
    sending,     \* per task, its packet on the way through send_game_packet
    frame,       \* taken by recv_game_packet and not yet opened, or None
    toServer, toClient,
    server,      \* how much it has sent, its key and its counter
    calls,       \* bounded: logins begun, packets of the application
    \* history, read by no action
    nonces,      \* what encrypt was called with, in order
    orderly      \* no two sends overlapped, and none was dropped half way

client  == <<phase, settings, session, keys>>
network == <<toServer, toClient>>
history == <<nonces, orderly>>
vars    == <<client, sending, frame, network, server, calls, history>>

Idle == [stage |-> "idle", packet |-> "none", format |-> "none",
         key |-> Plain, counter |-> 0]

Packet(kind) == [Idle EXCEPT !.stage = "format", !.packet = kind]

Init ==
    /\ phase = "request" /\ settings = None /\ session = None /\ keys = 0
    /\ sending = [t \in Tasks |->
                    IF t = LoginTask THEN Packet("RequestNetworkSettings") ELSE Idle]
    /\ frame = None
    /\ toServer = << >> /\ toClient = << >>
    /\ server = [sent |-> 0, key |-> Plain, counter |-> 0]
    /\ calls = [logins |-> 1, app |-> 0]
    /\ nonces = << >> /\ orderly = TRUE
-----------------------------------------------------------------------------
(* EncryptionSession                                                        *)

(* Mutant of FreshKey: the client's key pair is kept, so that the key       *)
(* depends on the server's handshake alone.                                 *)
FreshKeyOfHandshake(h) == h

(* An ephemeral key pair makes every session's key a new one.               *)
FreshKey(h) == keys + 1

Use(key, counter) == [key |-> key, counter |-> counter]

(* nonce_bytes: the counter's low 32 bits.                                  *)
Nonce(use) == [key |-> use.key, nonce |-> use.counter % NonceSpace]

(* from_handshake, and the empty payload encrypted with counter 0.          *)
NewSession(h) == [key |-> FreshKey(h), handshake |-> h, send |-> 1, recv |-> 0]

(* decrypt: the counter moves on before the tag is checked.                 *)
Advanced == [session EXCEPT !.recv = @ + 1]

(* The client's public keys in a packet of its own: none.  The Login packet *)
(* carries a placeholder, the answer to a handshake an empty payload, and   *)
(* nobody asks a session for its client_public_b64.                         *)
PublicKeys(packet) == {}

(* Mutant of Opens: a frame in clear is let through.                        *)
OpensInClear(f) == f.key = Plain

(* A server shares a session's key once it has its public key.              *)
Opens(f) ==
    /\ \E i \in DOMAIN toServer : session.key \in PublicKeys(toServer[i])
    /\ session.handshake = f.key
    /\ session.recv % NonceSpace = f.counter % NonceSpace
-----------------------------------------------------------------------------
(* send_game_packet, by any task                                            *)

Busy(t) == sending[t].stage # "idle"
Overlaps(t) == \E u \in Tasks \ {t} : Busy(u)

(* What login_offline does when its send has returned.                      *)
AfterSend == [p \in {"request", "login", "settings", "status"} |->
                 IF p = "request" THEN "settings" ELSE
                 IF p = "login" THEN "status" ELSE p]

Waiting == phase \in {"settings", "status"} /\ ~Busy(LoginTask)

(* Mutant of Format: the settings are not looked at.                        *)
FormatLegacy == LegacyFormat

(* The batch's format follows the settings of this moment.                  *)
Format == IF settings = None THEN LegacyFormat ELSE settings

(* An algorithm that is not supported ends the call.                        *)
ChooseFormat(t) ==
    /\ sending[t].stage = "format"
    /\ IF Format \in Supported \cup {LegacyFormat}
       THEN /\ sending' = [sending EXCEPT ![t].stage = "seal", ![t].format = Format]
            /\ UNCHANGED phase
       ELSE /\ sending' = [sending EXCEPT ![t] = Idle]
            /\ phase' = IF t = LoginTask THEN "failed" ELSE phase
    /\ UNCHANGED <<settings, session, keys, frame, network, server, calls, history>>

(* Mutant of Seal: the counter is advanced only when the packet is sent.    *)
SealKeepingCounter(t) ==
    /\ sending[t].stage = "seal"
    /\ sending' = [sending EXCEPT ![t].stage = "send",
                     ![t].key = IF session = None THEN Plain ELSE session.key,
                     ![t].counter = IF session = None THEN 0 ELSE session.send]
    /\ nonces' = IF session = None THEN nonces
                 ELSE Append(nonces, Use(session.key, session.send))
    /\ UNCHANGED <<client, frame, network, server, calls, orderly>>

(* Under the encryption's lock: encrypted if there is a session.            *)
Seal(t) ==
    /\ sending[t].stage = "seal"
    /\ IF session = None
       THEN /\ sending' = [sending EXCEPT ![t].stage = "send"]
            /\ UNCHANGED <<session, nonces>>
       ELSE /\ sending' = [sending EXCEPT ![t].stage = "send",
                             ![t].key = session.key, ![t].counter = session.send]
            /\ session' = [session EXCEPT !.send = @ + 1]
            /\ nonces' = Append(nonces, Use(session.key, session.send))
    /\ UNCHANGED <<phase, settings, keys, frame, network, server, calls,
                   orderly>>

(* send: the frame has its place in the ordered stream.  A socket error may *)
(* be reported all the same: the engine keeps the datagram for resending.   *)
Transmit(t) ==
    /\ sending[t].stage = "send"
    /\ toServer' = Append(toServer, sending[t])
    /\ sending' = [sending EXCEPT ![t] = Idle]
    /\ IF t # LoginTask THEN UNCHANGED phase
       ELSE phase' \in {AfterSend[phase], "failed"}
    /\ UNCHANGED <<settings, session, keys, frame, toClient, server, calls, history>>

(* A task of the application sends a packet, at any time.                   *)
AppSend(t) ==
    /\ t \in Senders /\ ~Busy(t) /\ calls.app < MaxApp
    /\ sending' = [sending EXCEPT ![t] = Packet("app")]
    /\ calls' = [calls EXCEPT !.app = @ + 1]
    /\ orderly' = (orderly /\ ~Overlaps(t))
    /\ UNCHANGED <<client, frame, network, server, nonces>>

(* The application drops its call at an await.                              *)
AppDrops(t) ==
    /\ t \in Senders /\ Busy(t)
    /\ sending' = [sending EXCEPT ![t] = Idle]
    /\ orderly' = (orderly /\ sending[t].stage # "send")
    /\ UNCHANGED <<client, frame, network, server, calls, nonces>>
-----------------------------------------------------------------------------
(* recv_game_packet, by login_offline and, after it, by the application     *)

Receiving == Waiting \/ phase = "ok"

(* recv returns the next frame; a ciphertext that looks like a system       *)
(* message is taken for one, or fails the call if it is too short for it.   *)
TakeFrame ==
    /\ Receiving /\ frame = None /\ toClient # << >>
    /\ toClient' = Tail(toClient)
    /\ LET f == Head(toClient)
       IN  /\ frame' = IF f.looks = "batch" THEN f ELSE None
           /\ phase' = IF f.looks = "short" /\ phase # "ok" THEN "failed" ELSE phase
    /\ UNCHANGED <<settings, session, keys, sending, toServer, server, calls,
                   nonces, orderly>>

(* The frame does not open: the call fails and the counter has moved.       *)
DecryptFails ==
    /\ Receiving /\ frame # None /\ session # None /\ ~Opens(frame)
    /\ session' = Advanced
    /\ frame' = None
    /\ phase' = IF phase = "ok" THEN "ok" ELSE "failed"
    /\ UNCHANGED <<settings, keys, sending, network, server, calls, nonces,
                   orderly>>

(* The batch's first packet; the others are dropped.  A ciphertext without  *)
(* a session is no batch, and an empty batch holds no packet.               *)
Nothing == [kind |-> "nothing", value |-> 0]
FirstPacket ==
    IF frame.packets = << >> \/ (session = None /\ frame.key # Plain) THEN Nothing
    ELSE Head(frame.packets)

Opened ==
    /\ Receiving /\ frame # None
    /\ session # None => Opens(frame)
    /\ frame' = None
    /\ UNCHANGED <<network, server, calls>>

(* The packet leaves the session as it is, but for its counter.             *)
Passed == /\ session' = IF session = None THEN None ELSE Advanced
          /\ UNCHANGED <<keys, nonces>>

GotSettings ==
    /\ Opened /\ Passed
    /\ phase = "settings" /\ FirstPacket.kind = "settings"
    /\ settings' = FirstPacket.value
    /\ phase' = "login"
    /\ sending' = [sending EXCEPT ![LoginTask] = Packet("Login")]
    /\ orderly' = (orderly /\ ~Overlaps(LoginTask))

(* establish_encryption: the session is in place before its answer is sent. *)
GotHandshake ==
    /\ Opened
    /\ phase \in {"settings", "status"} /\ FirstPacket.kind = "handshake"
    /\ session' = NewSession(FirstPacket.value)
    /\ keys' = keys + 1
    /\ nonces' = Append(nonces, Use(FreshKey(FirstPacket.value), 0))
    /\ sending' = [sending EXCEPT ![LoginTask] = Packet("ClientToServerHandshake")]
    /\ orderly' = (orderly /\ ~Overlaps(LoginTask))
    /\ UNCHANGED <<phase, settings>>

StatusResult ==
    IF phase = "status" /\ FirstPacket.value = "success" THEN "ok" ELSE "failed"

GotStatus ==
    /\ Opened /\ Passed
    /\ phase \in {"settings", "status"} /\ FirstPacket.kind = "status"
    /\ phase' = StatusResult
    /\ UNCHANGED <<settings, sending, orderly>>

(* Its own packet with a payload that does not decode fails the login; any  *)
(* other packet is ignored.                                                 *)
GotOther ==
    /\ Opened /\ Passed
    /\ \/ phase = "ok"
       \/ FirstPacket.kind \in {"other", "nothing", "malformed"}
       \/ phase = "status" /\ FirstPacket.kind = "settings"
    /\ phase' = IF FirstPacket.kind = "malformed" /\ phase # "ok" THEN "failed"
                ELSE phase
    /\ UNCHANGED <<settings, sending, orderly>>

(* Mutant of WaitEnds: the time is only looked at when a packet has come.   *)
WaitEndsWithPacket == Waiting /\ toClient # << >>

WaitEnds == Waiting

(* The deadline: before a packet is waited for, or while it is; after the   *)
(* login, the application that gives up a call.  A frame that had been      *)
(* taken is gone with the call.                                             *)
Deadline ==
    /\ WaitEnds \/ (phase = "ok" /\ frame # None)
    /\ phase' = IF phase = "ok" THEN "ok" ELSE "failed"
    /\ frame' = None
    /\ UNCHANGED <<settings, session, keys, sending, network, server, calls,
                   nonces, orderly>>

(* The caller drops login_offline while it sends: what is already in place, *)
(* a new session before its answer is out for one, stays.  Dropping it      *)
(* while it waits is no other than the deadline.                            *)
LoginDrops ==
    /\ Busy(LoginTask)
    /\ phase' = "failed"
    /\ sending' = [sending EXCEPT ![LoginTask] = Idle]
    /\ orderly' = (orderly /\ sending[LoginTask].stage # "send"
                           /\ sending[LoginTask].packet # "ClientToServerHandshake")
    /\ UNCHANGED <<settings, session, keys, frame, network, server, calls, nonces>>

(* The caller tries again on the same session.                              *)
Retry ==
    /\ phase = "failed" /\ calls.logins < MaxLogins /\ ~Busy(LoginTask)
    /\ calls' = [calls EXCEPT !.logins = @ + 1]
    /\ phase' = "request"
    /\ sending' = [sending EXCEPT ![LoginTask] = Packet("RequestNetworkSettings")]
    /\ orderly' = (orderly /\ ~Overlaps(LoginTask))
    /\ UNCHANGED <<settings, session, keys, frame, network, server, nonces>>
-----------------------------------------------------------------------------
(* The server                                                               *)

(* What has reached it; a server that is late only sends later.             *)
Has(kind) == \E i \in DOMAIN toServer : toServer[i].packet = kind

Holds(batch, kind) == \E i \in DOMAIN batch : batch[i].kind = kind
Accepts(batch) ==
    \E i \in DOMAIN batch : batch[i].kind = "status" /\ batch[i].value = "success"

(* It asks for a handshake once it was asked, and accepts after the Login   *)
(* packet.  Behind a handshake it encrypts with the key of it, or goes on   *)
(* in clear; the first byte of a ciphertext can look like anything.         *)
ServerSends ==
    \E batch \in Batches, key \in {server.key, Plain},
       looks \in {"batch", "system", "short"} :
        /\ server.sent < MaxFrames
        /\ Has("RequestNetworkSettings")
        /\ Accepts(batch) => Has("Login")
        /\ key = Plain => looks = "batch"
        /\ toClient' = Append(toClient,
               [packets |-> batch, key |-> key, looks |-> looks,
                counter |-> IF key = Plain THEN 0 ELSE server.counter])
        /\ server' =
             IF Holds(batch, "handshake")
             THEN [ server EXCEPT !.sent = @ + 1, !.counter = 0,
                      !.key = (CHOOSE p \in ToSet(batch) : p.kind = "handshake").value ]
             ELSE [ server EXCEPT !.sent = @ + 1,
                      !.counter = IF key = Plain THEN @ ELSE @ + 1 ]
        /\ UNCHANGED <<client, sending, frame, toServer, calls, history>>
-----------------------------------------------------------------------------
LoginStep ==
    \/ ChooseFormat(LoginTask) \/ Seal(LoginTask) \/ Transmit(LoginTask)
    \/ TakeFrame \/ DecryptFails
    \/ GotSettings \/ GotHandshake \/ GotStatus \/ GotOther
    \/ Deadline

AppStep == \E t \in Senders : \/ ChooseFormat(t) \/ Seal(t) \/ Transmit(t)
                              \/ AppSend(t) \/ AppDrops(t)

Next == LoginStep \/ AppStep \/ LoginDrops \/ Retry \/ ServerSends

Spec == Init /\ [][Next]_vars

(* The executor runs a task that can go on, locks are given up after every  *)
(* step, and the clock reaches the deadline.                                *)
Fairness == WF_vars(LoginStep)

FairSpec == Spec /\ Fairness
-----------------------------------------------------------------------------
(* Every value is of its kind: the session's counters and keys included.    *)
TypeOK ==
    /\ phase \in {"request", "settings", "login", "status", "ok", "failed"}
    /\ settings = None \/ settings \in Algorithms
    /\ keys \in Nat
    /\ session = None \/ /\ session.key \in 1 .. keys
                         /\ session.send \in Nat \ {0} /\ session.recv \in Nat
    /\ \A t \in Tasks : sending[t].key \in 0 .. keys
    /\ phase \in {"request", "login"} => Busy(LoginTask)
    /\ phase \in {"ok", "failed"} => ~Busy(LoginTask)
    /\ \A i \in DOMAIN toServer : toServer[i].key \in 0 .. keys

(* No two encryptions of the client use the same key with the same nonce,   *)
(* whichever tasks they are called from and however often the server asks   *)
(* for a new session (encryption.rs:116-124, 65-98): a session's counter is *)
(* advanced under the lock it is read under, and a new session never shares *)
(* a key with an older one.  Past 2^32 packets the nonces repeat.           *)
NonceOnce ==
    Len(nonces) <= NonceSpace =>
        \A i, j \in DOMAIN nonces : Nonce(nonces[i]) = Nonce(nonces[j]) => i = j

(* login_offline returns Ok only for a login the server has accepted: a     *)
(* Login packet had reached it, in a format it had asked for                *)
(* (reliable_conn.rs:415-489, 360-369).                                     *)
LoginEarned ==
    phase = "ok" =>
        \E i \in DOMAIN toServer : /\ toServer[i].packet = "Login"
                                   /\ toServer[i].format # LegacyFormat

(* A login the server wants encrypted never returns Ok (reliable_conn.rs:   *)
(* 410-412): once a session is installed nothing is let through any more,   *)
(* no status that was sent in clear before the handshake or behind it, in   *)
(* this call or in a later one on the same session, since no server can     *)
(* share the key (338-348).                                                 *)
OkOnlyInClear == phase = "ok" => session = None

(* How a packet may follow another one, or the beginning of the stream.     *)
Follows(before, now) ==
    /\ before.key # Plain => now.key # Plain
    /\ now.key # before.key => /\ now.packet = "ClientToServerHandshake"
                               /\ now.counter = 1
    /\ (now.key = before.key /\ now.key # Plain) => now.counter = before.counter + 1

(* As long as calls of send_game_packet do not overlap and none is dropped  *)
(* half way, nor the answer to a handshake, the server gets for             *)
(* every key the ClientToServerHandshake first and then its packets in the  *)
(* order of their counters, and no packet in clear behind an encrypted one  *)
(* ("the first encrypted packet", "all subsequent traffic",                 *)
(* reliable_conn.rs:324-325).                                               *)
HandshakeFirst ==
    orderly => \A i \in DOMAIN toServer :
                   Follows(IF i = 1 THEN Idle ELSE toServer[i - 1], toServer[i])

(* A login always returns: whatever the server sends or withholds, there is *)
(* no wait without the deadline (reliable_conn.rs:493-501).                 *)
LoginReturns == phase \notin {"ok", "failed"} ~> phase \in {"ok", "failed"}
=============================================================================
