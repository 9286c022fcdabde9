----------------------------- MODULE Handshake -----------------------------
(***************************************************************************)
(* The offline RakNet handshake of src/bedrock/conn.rs: ConnectBuilder::send *)
(* with its two stages, a server, and the network between them.             *)
(*                                                                         *)
(* Time is counted in units and passes while the client waits for a packet. *)
(* A packet that is lost is one that stays in flight; packets in flight are *)
(* not ordered.  When the server is down, its host may refuse a request     *)
(* (an ICMP error on the client's socket).  Transmissions are numbered, so  *)
(* that the replies to two copies of a request are two packets.             *)
(***************************************************************************)
EXTENDS Integers, Sequences, FiniteSets

CONSTANTS
    Candidates,      \* ConnectBuilder::mtu_candidates
    MinMtu,          \* MIN_MTU
    MaxRetries,      \* ConnectBuilder::max_retries
    Timeout,         \* ConnectBuilder::timeout, in units
    Floor,           \* the 500 ms every attempt waits at least, in units
    AddressLists,    \* what name resolution may return: families, in order
    PathMtus,        \* what the largest packet that gets through may be
    MaxFaults        \* bound: crashes, duplicates and unasked-for packets

ASSUME HandshakeAssumption ==
    /\ Candidates \in Seq(Nat)
    /\ {MinMtu, MaxRetries, Timeout, Floor, MaxFaults} \subseteq Nat
    /\ AddressLists \subseteq Seq({"v4", "v6"})
    /\ PathMtus \subseteq Nat

VARIABLES
    pc,              \* where ConnectBuilder::send stands
    candidate,       \* stage 1's loop: position in Candidates
    tries,           \* the stage's retry loop: attempts used up
    wait_until,      \* when the attempt's timeout fires
    reply1,          \* what stage 1 returned
    result,          \* what send returned
    connection,      \* the Connection it returned
    clock,           \* time since the exchange began
    refused,         \* an ICMP error waits on the client's socket
    requests,        \* requests in flight that the path can carry
    replies,         \* packets in flight to the client
    server,          \* is it running, and as whom
    path,            \* the largest packet that gets through
    faults, sends,   \* counters
    \* history, read by no action
    offered,         \* parameters of every Reply 1 a server sent
    opened,          \* parameters of every session a server opened
    smooth,          \* nothing was lost but by the path, nothing broken, and
                     \* no Reply 1 came after its attempt was over
    waited           \* time that passed with a packet on its way

client  == <<pc, candidate, tries, wait_until, reply1, result, connection>>
network == <<refused, requests, replies>>
serving == <<server, offered, opened>>
history == <<smooth, waited>>
vars    == <<client, clock, network, serving, path, faults, sends, history>>

Mtus       == { Candidates[i] : i \in DOMAIN Candidates }
Usable     == { i \in DOMAIN Candidates : Candidates[i] >= MinMtu }
Parameters == [guid : 1 .. MaxFaults + 1, mtu : Mtus]
None       == [guid |-> 0, mtu |-> 0]
MaxSends   == (Cardinality(Usable) + 1) * MaxRetries

Request == [stage : {1, 2}, mtu : Mtus, no : 1 .. MaxSends]
Packet  == [ kind : {"reply1", "reply2", "rejection", "malformed1",
                     "malformed2", "other"},
             param : Parameters \cup {None}, no : -MaxFaults .. MaxSends ]

Longer(a, b) == IF a >= b THEN a ELSE b

(* How long an attempt waits.  Candidates that are too small count too.     *)
PerAttempt1 == Longer(Timeout \div (Len(Candidates) * MaxRetries), Floor)

(* Mutant of PerAttempt2: stage 1's formula.                                *)
PerAttempt2Divided == PerAttempt1

PerAttempt2 == Longer(Timeout \div MaxRetries, Floor)

(* Mutant of NextCandidate: no candidate is too small.                      *)
NextCandidateAny(i) == i

(* Stage 1's loop skips the candidates that are too small.                  *)
NextCandidate(i) ==
    CHOOSE j \in i .. Len(Candidates) + 1 :
        /\ j <= Len(Candidates) => j \in Usable
        /\ i .. j - 1 \cap Usable = {}

Init ==
    /\ pc = "resolve"
    /\ candidate = NextCandidate(1)
    /\ tries = 0
    /\ wait_until = 0
    /\ reply1 = None
    /\ result = "none"
    /\ connection = None
    /\ clock = 0
    /\ refused = FALSE
    /\ requests = {}
    /\ replies = {}
    /\ server = [up |-> TRUE, guid |-> 1]
    /\ path \in PathMtus
    /\ faults = 0 /\ sends = 0
    /\ offered = {} /\ opened = {}
    /\ smooth = TRUE /\ waited = 0
-----------------------------------------------------------------------------
(* The client                                                               *)

Waiting == pc \in {"wait1", "wait2"}

(* send returns.                                                            *)
Return(outcome, conn) ==
    /\ pc' = "done"
    /\ result' = outcome
    /\ connection' = conn
    /\ UNCHANGED <<candidate, tries, wait_until, reply1>>

(* Resolve the address, take the last one, bind and connect the socket.     *)
Resolve(addresses) ==
    /\ pc = "resolve"
    /\ \/ /\ addresses = << >>
          /\ Return("no address", None)
          /\ smooth' = FALSE
       \/ /\ addresses # << >> /\ addresses[Len(addresses)] = "v6"
          /\ Return("ipv6 address", None)
          /\ smooth' = FALSE
       \/ /\ addresses # << >> /\ addresses[Len(addresses)] = "v4"
          /\ \/ /\ pc' = "send1"
                /\ UNCHANGED <<candidate, tries, wait_until, reply1, result,
                               connection, smooth>>
             \/ /\ Return("io error", None)
                /\ smooth' = FALSE
    /\ UNCHANGED <<clock, network, serving, path, faults, sends, waited>>

StageOneExhausted == candidate > Len(Candidates) \/ MaxRetries = 0

(* Both stages send their request the same way; an error that waits on the  *)
(* socket makes the send fail, and the handshake with it.                   *)
Transmit(stage, mtu, wait, next_pc) ==
    \/ /\ refused
       /\ refused' = FALSE
       /\ Return("io error", None)
       /\ UNCHANGED <<requests, sends>>
    \/ /\ ~refused
       /\ pc' = next_pc
       /\ wait_until' = clock + wait
       /\ sends' = sends + 1
       /\ requests' = requests \cup
            { r \in {[stage |-> stage, mtu |-> mtu, no |-> sends + 1]} :
                stage = 1 => mtu <= path }
       /\ UNCHANGED <<candidate, tries, reply1, result, connection,
                      refused>>

SendRequest1 ==
    /\ pc = "send1" /\ ~StageOneExhausted
    /\ Transmit(1, Candidates[candidate], PerAttempt1, "wait1")
    /\ UNCHANGED <<clock, replies, serving, path, faults, history>>

SendRequest2 ==
    /\ pc = "send2" /\ tries < MaxRetries
    /\ Transmit(2, reply1.mtu, PerAttempt2, "wait2")
    /\ UNCHANGED <<clock, replies, serving, path, faults, history>>

GiveUp ==
    /\ \/ pc = "send1" /\ StageOneExhausted /\ Return("all MTU rejected", None)
       \/ pc = "send2" /\ tries = MaxRetries /\ Return("no Reply 2", None)
    /\ UNCHANGED <<clock, network, serving, path, faults, sends, history>>

(* Mutant of AttemptOver: one retry too many for each candidate.            *)
AttemptOverLate ==
    /\ pc' = IF pc = "wait1" THEN "send1" ELSE "send2"
    /\ IF pc = "wait1" /\ tries = MaxRetries
       THEN candidate' = NextCandidate(candidate + 1) /\ tries' = 0
       ELSE tries' = tries + 1 /\ UNCHANGED candidate
    /\ UNCHANGED <<wait_until, reply1, result, connection>>

(* The attempt is used up: on to the next one, or to the next candidate.    *)
AttemptOver ==
    /\ pc' = IF pc = "wait1" THEN "send1" ELSE "send2"
    /\ IF pc = "wait1" /\ tries + 1 = MaxRetries
       THEN candidate' = NextCandidate(candidate + 1) /\ tries' = 0
       ELSE tries' = tries + 1 /\ UNCHANGED candidate
    /\ UNCHANGED <<wait_until, reply1, result, connection>>

(* Mutant of Agrees: the guid is not compared.                              *)
AgreesOnMtu(first, second) == first.mtu = second.mtu

(* send's comparison of the two replies.                                    *)
Agrees(first, second) == first = second

(* A packet arrives while the client waits for a reply.  Any other packet   *)
(* than a rejection or a reply of this stage uses the attempt up.           *)
Receive(m) ==
    /\ Waiting /\ ~refused
    /\ m \in replies
    /\ replies' = replies \ {m}
    /\ CASE m.kind = "rejection" -> Return("rejected", None)
         [] pc = "wait1" /\ m.kind = "malformed1" -> Return("malformed", None)
         [] pc = "wait2" /\ m.kind = "malformed2" -> Return("malformed", None)
         [] pc = "wait1" /\ m.kind = "reply1" ->
              /\ pc' = "send2"
              /\ reply1' = m.param
              /\ tries' = 0
              /\ UNCHANGED <<candidate, wait_until, result, connection>>
         [] pc = "wait2" /\ m.kind = "reply2" ->
              IF Agrees(reply1, m.param) THEN Return("connected", m.param)
              ELSE Return("diverged", None)
         [] OTHER -> AttemptOver
    /\ UNCHANGED <<clock, refused, requests, serving, path, faults, sends, history>>

(* recv returns an error, or the attempt's timeout fires.                   *)
SocketError ==
    /\ Waiting /\ refused
    /\ refused' = FALSE
    /\ AttemptOver
    /\ UNCHANGED <<clock, requests, replies, serving, path, faults, sends, history>>

OnItsWay == requests # {} \/ replies # {}

AttemptTimesOut ==
    /\ Waiting /\ clock >= wait_until
    /\ AttemptOver
    /\ smooth' = (smooth /\ (pc = "wait1" => ~OnItsWay))
    /\ UNCHANGED <<clock, network, serving, path, faults, sends, waited>>

(* The timeout around the whole exchange.                                   *)
HandshakeTimesOut ==
    /\ Waiting /\ clock >= Timeout
    /\ Return("timed out", None)
    /\ UNCHANGED <<clock, network, serving, path, faults, sends, history>>

(* The caller has its answer.                                               *)
Done == pc = "done" /\ UNCHANGED vars
-----------------------------------------------------------------------------
(* The environment, until send has returned                                 *)

TimePasses ==
    /\ Waiting
    /\ clock < wait_until /\ clock < Timeout
    /\ clock' = clock + 1
    /\ waited' = IF OnItsWay THEN waited + 1 ELSE waited
    /\ UNCHANGED <<client, network, serving, path, faults, sends, smooth>>

(* A running server confirms the size of the Request 1 it got, and opens a  *)
(* session on a Request 2.                                                  *)
Answer(r) ==
    LET param == [guid |-> server.guid, mtu |-> r.mtu]
    IN  /\ pc # "done"
        /\ r \in requests /\ server.up
        /\ requests' = requests \ {r}
        /\ replies' = replies \cup
             {[ kind |-> IF r.stage = 1 THEN "reply1" ELSE "reply2",
                param |-> param, no |-> r.no ]}
        /\ offered' = IF r.stage = 1 THEN offered \cup {param} ELSE offered
        /\ opened' = IF r.stage = 1 THEN opened ELSE opened \cup {param}
        /\ UNCHANGED <<client, clock, refused, server, path, faults,
                       sends, history>>

Refuse(r) ==
    /\ pc # "done"
    /\ r \in requests /\ ~server.up
    /\ requests' = requests \ {r}
    /\ refused' = TRUE
    /\ UNCHANGED <<client, clock, replies, serving, path, faults, sends, history>>

Crash ==
    /\ pc # "done"
    /\ server.up /\ faults < MaxFaults
    /\ server' = [server EXCEPT !.up = FALSE]
    /\ faults' = faults + 1
    /\ smooth' = FALSE
    /\ UNCHANGED <<client, clock, network, offered, opened, path, sends, waited>>

Restart ==
    /\ pc # "done"
    /\ ~server.up
    /\ server' = [up |-> TRUE, guid |-> server.guid + 1]
    /\ UNCHANGED <<client, clock, network, offered, opened, path,
                   faults, sends, history>>

(* A rejection, a reply that is cut short, any other packet, or a copy of   *)
(* one in flight.                                                           *)
StrayPackets ==
    [ kind : {"rejection", "malformed1", "malformed2", "other"},
      param : {None} ] \cup { [kind |-> m.kind, param |-> m.param] : m \in replies }

SendStray(packet) ==
    /\ pc # "done"
    /\ faults < MaxFaults
    /\ faults' = faults + 1
    /\ replies' = replies \cup
         {[kind |-> packet.kind, param |-> packet.param, no |-> -faults']}
    /\ smooth' = FALSE
    /\ UNCHANGED <<client, clock, refused, requests, serving, path, sends, waited>>
-----------------------------------------------------------------------------
Next ==
    \/ \E addresses \in AddressLists : Resolve(addresses)
    \/ SendRequest1
    \/ SendRequest2
    \/ GiveUp
    \/ \E m \in replies : Receive(m)
    \/ SocketError
    \/ AttemptTimesOut
    \/ HandshakeTimesOut
    \/ Done
    \/ TimePasses
    \/ \E r \in requests : Answer(r)
    \/ \E r \in requests : Refuse(r)
    \/ Crash
    \/ Restart
    \/ \E packet \in StrayPackets : SendStray(packet)

Spec == Init /\ [][Next]_vars
-----------------------------------------------------------------------------
TypeOK ==
    /\ pc \in {"resolve", "send1", "wait1", "send2", "wait2", "done"}
    /\ candidate \in 1 .. Len(Candidates) + 1
    /\ tries \in 0 .. MaxRetries
    /\ wait_until \in Nat
    /\ {reply1, connection} \subseteq Parameters \cup {None}
    /\ result \in {"none", "no address", "ipv6 address", "io error",
                   "all MTU rejected", "no Reply 2", "rejected", "malformed",
                   "diverged", "timed out", "connected"}
    /\ clock \in 0 .. Timeout
    /\ refused \in BOOLEAN
    /\ requests \subseteq Request
    /\ replies \subseteq Packet
    /\ server \in [up : BOOLEAN, guid : 1 .. MaxFaults + 1]
    /\ path \in PathMtus
    /\ faults \in 0 .. MaxFaults
    /\ sends \in 0 .. MaxSends
    /\ {offered \cup opened} \subseteq SUBSET Parameters
    /\ smooth \in BOOLEAN /\ waited \in 0 .. clock

(* A Connection is one server's word: the server that offered its           *)
(* parameters in stage 1 is the one that opened the session in stage 2,     *)
(* though it may crash and come back as another between the two, and        *)
(* replies to earlier attempts may come late (conn.rs:514-522).             *)
NegotiatedByOneServer ==
    connection # None => connection \in offered \cap opened

(* The negotiated MTU is one the path has been seen to carry, and no smaller *)
(* than MIN_MTU, whichever attempt's reply was taken (conn.rs:539-578).      *)
UsableMtu ==
    connection # None => connection.mtu \in MinMtu .. path

(* The attempts' timeouts leave room for each other (conn.rs:549-553,       *)
(* 592-593).  A candidate that the path swallows costs its even share of    *)
(* the timeout and no more, and what is left when one fits is there for the *)
(* answers: a server that is up, and answers Request 1 within an attempt,   *)
(* is reached if all its answers together take less than what is left,      *)
(* though Reply 2 may be slower than the attempts of stage 2.  The lengths  *)
(* of the attempts are rounded, by less than a unit for each.               *)
Fitting == { i \in Usable : Candidates[i] <= path }
Share   == Timeout \div Len(Candidates)

SmoothRunsConnect ==
    ( /\ pc = "done" /\ smooth
      /\ \E i \in Fitting : waited + MaxRetries <= Timeout - (i - 1) * Share )
      => result = "connected"
=============================================================================
