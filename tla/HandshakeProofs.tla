-------------------------- MODULE HandshakeProofs --------------------------
(***************************************************************************)
(* Proofs about Handshake, for any list of candidates, any timeouts and     *)
(* retries, any number of faults and any delays.                            *)
(***************************************************************************)
EXTENDS Handshake, WellFoundedInduction, FiniteSetTheorems, TLAPS

(* The loop over the candidates stops at one it may try, or past the end.   *)
LEMMA NextCandidateIs ==
  ASSUME NEW i \in 1 .. Len(Candidates) + 1
  PROVE  /\ NextCandidate(i) \in i .. Len(Candidates) + 1
         /\ NextCandidate(i) <= Len(Candidates) => NextCandidate(i) \in Usable
         /\ (i .. NextCandidate(i) - 1) \cap Usable = {}
<1> DEFINE n == Len(Candidates)
           T == { j \in i .. n + 1 : j <= n => j \in Usable }
<1>1. n \in Nat
  BY HandshakeAssumption
<1>2. T \subseteq Nat /\ n + 1 \in T
  BY <1>1
<1>3. PICK j \in T : \A k \in T : ~(k < j)
  <2> DEFINE Less == { ss \in Nat \X Nat : ss[1] < ss[2] }
  <2>1. IsWellFoundedOn(Less, Nat)
    BY NatLessThanWellFounded DEF OpToRel
  <2> HIDE DEF Less, T
  <2>2. PICK j \in T : \A k \in T : <<k, j>> \notin Less
    BY <1>2, <2>1, WFMin
  <2>3. ASSUME NEW k \in T, k < j PROVE FALSE
    BY <1>2, <2>2, <2>3 DEF Less
  <2>4. QED
    BY <2>3
<1>4. \A k \in i .. j - 1 : k \notin Usable
  BY <1>1, <1>3
<1>5. /\ j \in i .. n + 1
      /\ j <= n => j \in Usable
      /\ (i .. j - 1) \cap Usable = {}
  BY <1>3, <1>4
<1>6. QED
  BY <1>5 DEF NextCandidate

(***************************************************************************)
(* The inductive invariant.  What is on its way was said by a server: a     *)
(* Reply 1 in flight, or taken by the client, is one of the offers, and a   *)
(* Reply 2 in flight is one of the sessions opened.  Only candidates that   *)
(* are large enough, and that fit the path, reach a server in a Request 1.  *)
(***************************************************************************)
SaidByServers ==
    /\ \A m \in replies : /\ m.kind = "reply1" => m.param \in offered
                          /\ m.kind = "reply2" => m.param \in opened
    /\ reply1 # None => reply1 \in offered
    /\ connection # None => connection \in offered \cap opened

OffersFit ==
    /\ \A p \in offered : p.guid # 0 /\ p.mtu \in MinMtu .. path
    /\ \A p \in opened : p.guid # 0
    /\ \A r \in requests : r.stage = 1 => r.mtu \in MinMtu .. path

Places ==
    /\ candidate \in 1 .. Len(Candidates) + 1
    /\ candidate <= Len(Candidates) => candidate \in Usable
    /\ pc = "wait1" => candidate <= Len(Candidates)
    /\ server \in [up : BOOLEAN, guid : Nat \ {0}]
    /\ path \in Nat

HandshakeInv == SaidByServers /\ OffersFit /\ Places

(* The invariant holds at the start.                                        *)
LEMMA HandshakeInit == Init => HandshakeInv
<1>1. 1 \in 1 .. Len(Candidates) + 1
  BY HandshakeAssumption
<1>2. QED
  BY <1>1, NextCandidateIs, HandshakeAssumption
     DEF Init, HandshakeInv, SaidByServers, OffersFit, Places

(* Going on to the next attempt keeps the candidate one that may be tried.  *)
LEMMA AttemptOverPlaces ==
  ASSUME Places, AttemptOver, UNCHANGED <<server, path>>
  PROVE  Places'
<1>1. Len(Candidates) \in Nat
  BY HandshakeAssumption
<1>2. pc' # "wait1"
  BY DEF AttemptOver
<1>3. CASE candidate' = candidate
  BY <1>2, <1>3 DEF Places
<1>4. CASE pc = "wait1" /\ candidate' = NextCandidate(candidate + 1)
  <2>1. candidate + 1 \in 1 .. Len(Candidates) + 1
    BY <1>1, <1>4 DEF Places
  <2>2. candidate' \in 1 .. Len(Candidates) + 1
    BY <1>1, <1>4, <2>1, NextCandidateIs
  <2>3. candidate' <= Len(Candidates) => candidate' \in Usable
    BY <1>4, <2>1, NextCandidateIs
  <2>4. QED
    BY <1>2, <2>2, <2>3 DEF Places
<1>5. QED
  BY <1>3, <1>4 DEF AttemptOver

(* A step of the client that sends nothing and takes no reply keeps the     *)
(* invariant: sending back an error, or going on to the next attempt.       *)
LEMMA ClientFails ==
  ASSUME HandshakeInv, NEW outcome, Return(outcome, None),
         UNCHANGED <<server, offered, opened, path>>,
         requests' \subseteq requests, replies' \subseteq replies
  PROVE  HandshakeInv'
BY DEF HandshakeInv, SaidByServers, OffersFit, Places, Return

LEMMA ClientRetries ==
  ASSUME HandshakeInv, AttemptOver,
         UNCHANGED <<server, offered, opened, path>>,
         requests' \subseteq requests, replies' \subseteq replies
  PROVE  HandshakeInv'
<1>1. Places'
  BY AttemptOverPlaces DEF HandshakeInv
<1>2. SaidByServers' /\ OffersFit'
  BY DEF HandshakeInv, SaidByServers, OffersFit, AttemptOver
<1>3. QED
  BY <1>1, <1>2 DEF HandshakeInv

(* What sending a request adds to those in flight.                          *)
LEMMA TransmitAdds ==
  ASSUME NEW stage, NEW mtu, NEW wait, NEW next_pc, ~refused,
         Transmit(stage, mtu, wait, next_pc)
  PROVE  /\ \A r \in requests' :
              \/ r \in requests
              \/ /\ r.stage = stage
                 /\ r.mtu = mtu
                 /\ stage = 1 => mtu <= path
         /\ pc' = next_pc
         /\ UNCHANGED <<candidate, reply1, connection>>
<1> DEFINE request == [stage |-> stage, mtu |-> mtu, no |-> sends + 1]
<1>1. /\ requests' = requests \cup { r \in {request} : stage = 1 => mtu <= path }
      /\ pc' = next_pc
      /\ UNCHANGED <<candidate, reply1, connection>>
  BY DEF Transmit
<1>2. request.stage = stage /\ request.mtu = mtu
  OBVIOUS
<1> HIDE DEF request
<1>3. QED
  BY <1>1, <1>2

(* Every step of the client, the server and the network keeps it.           *)
LEMMA HandshakeNext == HandshakeInv /\ [Next]_vars => HandshakeInv'
<1> SUFFICES ASSUME HandshakeInv, [Next]_vars PROVE HandshakeInv'
  OBVIOUS
<1> USE DEF client, network, serving
<1>1. ASSUME NEW addresses \in AddressLists, Resolve(addresses)
      PROVE  HandshakeInv'
  <2>1. CASE pc' = "send1" /\ UNCHANGED <<candidate, reply1, connection>>
    BY <1>1, <2>1
       DEF Resolve, HandshakeInv, SaidByServers, OffersFit, Places
  <2>2. CASE \E outcome : Return(outcome, None)
    BY <1>1, <2>2, ClientFails DEF Resolve
  <2>3. QED
    BY <1>1, <2>1, <2>2 DEF Resolve
<1>2. CASE SendRequest1
  <2>1. CASE refused
    <3>1. Return("io error", None)
      BY <1>2, <2>1 DEF SendRequest1, Transmit
    <3>2. QED
      BY <1>2, <2>1, <3>1, ClientFails DEF SendRequest1, Transmit
  <2>2. CASE ~refused
    <3>1. /\ candidate <= Len(Candidates)
          /\ candidate \in Usable
          /\ Len(Candidates) \in Nat
      BY <1>2, HandshakeAssumption
         DEF SendRequest1, StageOneExhausted, HandshakeInv, Places
    <3>2. Candidates[candidate] \in Nat /\ Candidates[candidate] >= MinMtu
      BY <3>1, HandshakeAssumption DEF Usable
    <3>3. /\ \A r \in requests' : \/ r \in requests
                                  \/ r.mtu = Candidates[candidate] /\ r.mtu <= path
          /\ pc' = "wait1"
          /\ UNCHANGED <<replies, server, path, offered, opened, candidate,
                         reply1, connection>>
      BY <1>2, <2>2, TransmitAdds DEF SendRequest1
    <3>4. OffersFit'
      BY <3>2, <3>3, HandshakeAssumption DEF HandshakeInv, OffersFit, Places
    <3>5. QED
      BY <3>1, <3>3, <3>4 DEF HandshakeInv, SaidByServers, Places
  <2>3. QED
    BY <2>1, <2>2
<1>3. CASE SendRequest2
  <2>1. CASE refused
    <3>1. Return("io error", None)
      BY <1>3, <2>1 DEF SendRequest2, Transmit
    <3>2. QED
      BY <1>3, <2>1, <3>1, ClientFails DEF SendRequest2, Transmit
  <2>2. CASE ~refused
    <3>1. /\ \A r \in requests' : r \in requests \/ r.stage = 2
          /\ pc' = "wait2"
          /\ UNCHANGED <<replies, server, path, offered, opened, candidate,
                         reply1, connection>>
      BY <1>3, <2>2, TransmitAdds DEF SendRequest2
    <3>2. QED
      BY <3>1 DEF HandshakeInv, SaidByServers, OffersFit, Places
  <2>3. QED
    BY <2>1, <2>2
<1>4. CASE GiveUp
  BY <1>4, ClientFails DEF GiveUp
<1>5. ASSUME NEW m \in replies, Receive(m) PROVE HandshakeInv'
  <2>1. /\ UNCHANGED <<server, offered, opened, path, requests>>
        /\ replies' \subseteq replies
    BY <1>5 DEF Receive
  <2>2. CASE \E outcome : Return(outcome, None)
    BY <2>1, <2>2, ClientFails
  <2>3. CASE AttemptOver
    BY <2>1, <2>3, ClientRetries
  <2>4. CASE /\ m.kind = "reply1"
             /\ pc' = "send2"
             /\ reply1' = m.param
             /\ UNCHANGED <<candidate, connection>>
    BY <2>1, <2>4 DEF HandshakeInv, SaidByServers, OffersFit, Places
  <2>5. CASE /\ m.kind = "reply2"
             /\ Agrees(reply1, m.param)
             /\ Return("connected", m.param)
    <3>1. m.param \in opened /\ m.param # None
      BY <2>5 DEF HandshakeInv, SaidByServers, OffersFit, None
    <3>2. m.param \in offered
      BY <2>5, <3>1 DEF HandshakeInv, SaidByServers, Agrees
    <3>3. QED
      BY <2>1, <2>5, <3>1, <3>2
         DEF HandshakeInv, SaidByServers, OffersFit, Places, Return
  <2>6. QED
    BY <1>5, <2>2, <2>3, <2>4, <2>5 DEF Receive
<1>6. CASE SocketError
  BY <1>6, ClientRetries DEF SocketError
<1>7. CASE AttemptTimesOut
  BY <1>7, ClientRetries DEF AttemptTimesOut
<1>8. CASE HandshakeTimesOut
  BY <1>8, ClientFails DEF HandshakeTimesOut
<1>9. ASSUME NEW r \in requests, Answer(r) PROVE HandshakeInv'
  <2> DEFINE param == [guid |-> server.guid, mtu |-> r.mtu]
  <2>1. param.guid # 0 /\ (r.stage = 1 => param.mtu \in MinMtu .. path)
    BY DEF HandshakeInv, OffersFit, Places
  <2>2. /\ offered' = IF r.stage = 1 THEN offered \cup {param} ELSE offered
        /\ opened' = IF r.stage = 1 THEN opened ELSE opened \cup {param}
        /\ requests' \subseteq requests
        /\ \A m \in replies' :
             \/ m \in replies
             \/ /\ m.param = param
                /\ m.kind = IF r.stage = 1 THEN "reply1" ELSE "reply2"
        /\ UNCHANGED <<client, server, path>>
    BY <1>9 DEF Answer
  <2>3. OffersFit'
    BY <2>1, <2>2 DEF HandshakeInv, OffersFit
  <2>4. SaidByServers'
    BY <2>2 DEF HandshakeInv, SaidByServers
  <2>5. QED
    BY <2>2, <2>3, <2>4 DEF HandshakeInv, Places
<1>10. ASSUME NEW packet \in StrayPackets, SendStray(packet) PROVE HandshakeInv'
  <2>1. /\ \A m \in replies' :
             \/ m \in replies
             \/ m.kind = packet.kind /\ m.param = packet.param
        /\ UNCHANGED <<client, requests, server, offered, opened, path>>
    BY <1>10 DEF SendStray
  <2>2. \/ packet.kind \in {"rejection", "malformed1", "malformed2", "other"}
        \/ \E m \in replies : packet.kind = m.kind /\ packet.param = m.param
    BY DEF StrayPackets
  <2>3. QED
    BY <2>1, <2>2 DEF HandshakeInv, SaidByServers, OffersFit, Places
<1>11. CASE Restart
  <2>1. server' \in [up : BOOLEAN, guid : Nat \ {0}]
    BY <1>11 DEF Restart, HandshakeInv, Places
  <2>2. QED
    BY <1>11, <2>1 DEF Restart, HandshakeInv, SaidByServers, OffersFit, Places
<1>12. CASE Crash
  <2>1. server' \in [up : BOOLEAN, guid : Nat \ {0}]
    BY <1>12 DEF Crash, HandshakeInv, Places
  <2>2. QED
    BY <1>12, <2>1 DEF Crash, HandshakeInv, SaidByServers, OffersFit, Places
<1>13. ASSUME requests' \subseteq requests,
              UNCHANGED <<client, replies, server, offered, opened, path>>
       PROVE  HandshakeInv'
  BY <1>13 DEF HandshakeInv, SaidByServers, OffersFit, Places
<1>14. QED
  BY <1>1, <1>2, <1>3, <1>4, <1>5, <1>6, <1>7, <1>8, <1>9, <1>10, <1>11, <1>12,
     <1>13 DEF Next, vars, TimePasses, Refuse, Done

-----------------------------------------------------------------------------
(***************************************************************************)
(* A Connection is one server's word: the server that offered its           *)
(* parameters in stage 1 also opened the session in stage 2, whatever       *)
(* crashed, was late, or came twice (conn.rs:514-522).                      *)
(***************************************************************************)
THEOREM OneServer == Spec => []NegotiatedByOneServer
<1>1. HandshakeInv => NegotiatedByOneServer
  BY DEF HandshakeInv, SaidByServers, NegotiatedByOneServer
<1>2. QED
  BY <1>1, HandshakeInit, HandshakeNext, PTL DEF Spec

(***************************************************************************)
(* The negotiated MTU is at least MIN_MTU and at most what the path can     *)
(* carry, whichever attempt's reply was taken (conn.rs:539-578).            *)
(***************************************************************************)
THEOREM MtuFits == Spec => []UsableMtu
<1>1. HandshakeInv => UsableMtu
  BY DEF HandshakeInv, SaidByServers, OffersFit, UsableMtu
<1>2. QED
  BY <1>1, HandshakeInit, HandshakeNext, PTL DEF Spec
-----------------------------------------------------------------------------
(***************************************************************************)
(* Types.  Two of TypeOK's bounds take counting.  A stage sends once per    *)
(* attempt, so before a candidate's turn there have been as many requests   *)
(* as the usable candidates ahead of it have attempts; and a server comes   *)
(* back at most once for each of its crashes.                               *)
(***************************************************************************)
Tried == { i \in Usable : i < candidate }

Counted ==
    /\ pc \in {"resolve", "send1"} =>
         /\ MaxRetries # 0 => tries < MaxRetries
         /\ sends <= Cardinality(Tried) * MaxRetries + tries
    /\ pc = "wait1" =>
         /\ tries < MaxRetries
         /\ sends <= Cardinality(Tried) * MaxRetries + tries + 1
    /\ pc = "send2" => sends <= Cardinality(Usable) * MaxRetries + tries
    /\ pc = "wait2" =>
         /\ tries < MaxRetries
         /\ sends <= Cardinality(Usable) * MaxRetries + tries + 1
    /\ server.guid + (IF server.up THEN 0 ELSE 1) <= faults + 1
    /\ pc \in {"send2", "wait2"} => reply1 \in Parameters

TypeInv == TypeOK /\ HandshakeInv /\ Counted

LEMMA ConstantsAre ==
  /\ MinMtu \in Nat /\ MaxRetries \in Nat /\ Timeout \in Nat /\ Floor \in Nat
  /\ MaxFaults \in Nat /\ Len(Candidates) \in Nat
  /\ \A i \in 1 .. Len(Candidates) : Candidates[i] \in Nat
BY HandshakeAssumption

(* There are finitely many usable candidates, and the one whose turn it is  *)
(* has not been tried.                                                      *)
LEMMA UsableCount ==
  /\ IsFiniteSet(Usable)
  /\ Cardinality(Usable) \in Nat
  /\ \A i \in Usable : i \in 1 .. Len(Candidates)
<1>1. Usable \subseteq 1 .. Len(Candidates)
  BY HandshakeAssumption DEF Usable
<1>2. IsFiniteSet(1 .. Len(Candidates))
  <2>1. 1 \in Int /\ Len(Candidates) \in Int
    BY ConstantsAre
  <2>2. QED
    BY ONLY <2>1, FS_Interval
<1>3. QED
  BY <1>1, <1>2, FS_Subset, FS_CardinalityType

LEMMA TriedCount ==
  ASSUME candidate \in 1 .. Len(Candidates) + 1
  PROVE  /\ Cardinality(Tried) \in Nat
         /\ Cardinality(Tried) <= Cardinality(Usable)
         /\ candidate \in Usable =>
              /\ Cardinality(Tried \cup {candidate}) = Cardinality(Tried) + 1
              /\ Cardinality(Tried) + 1 <= Cardinality(Usable)
<1>1. Tried \subseteq Usable
  BY DEF Tried
<1>2. IsFiniteSet(Tried)
  BY <1>1, UsableCount, FS_Subset
<1>3. /\ Cardinality(Tried) \in Nat
      /\ Cardinality(Tried) <= Cardinality(Usable)
  BY <1>1, <1>2, UsableCount, FS_Subset, FS_CardinalityType
<1>4. ASSUME candidate \in Usable
      PROVE  /\ Cardinality(Tried \cup {candidate}) = Cardinality(Tried) + 1
             /\ Cardinality(Tried) + 1 <= Cardinality(Usable)
  <2>1. candidate \notin Tried
    BY ConstantsAre DEF Tried
  <2>2. Cardinality(Tried \cup {candidate}) = Cardinality(Tried) + 1
    BY <1>2, <2>1, FS_AddElement
  <2>3. Tried \cup {candidate} \subseteq Usable
    BY <1>1, <1>4
  <2>4. Cardinality(Tried \cup {candidate}) <= Cardinality(Usable)
    BY <2>3, UsableCount, FS_Subset
  <2>5. QED
    BY <2>2, <2>4
<1>5. QED
  BY <1>3, <1>4

(* One more candidate has been tried when the next one's turn comes.        *)
LEMMA TriedNext ==
  ASSUME candidate \in Usable, candidate' = NextCandidate(candidate + 1)
  PROVE  Tried' = Tried \cup {candidate}
<1>1. candidate \in 1 .. Len(Candidates)
  BY UsableCount
<1>2. candidate + 1 \in 1 .. Len(Candidates) + 1
  BY <1>1, ConstantsAre
<1>3. /\ candidate' \in candidate + 1 .. Len(Candidates) + 1
      /\ (candidate + 1 .. candidate' - 1) \cap Usable = {}
  BY <1>2, NextCandidateIs
<1>4. ASSUME NEW i \in Usable
      PROVE  i < candidate' <=> i < candidate \/ i = candidate
  <2>1. i \in 1 .. Len(Candidates)
    BY UsableCount
  <2>2. i \notin candidate + 1 .. candidate' - 1
    BY <1>3
  <2>3. QED
    BY <1>1, <1>3, <2>1, <2>2, ConstantsAre
<1>5. QED
  BY <1>4 DEF Tried

(* What the retries of a and of b candidates add up to.                     *)
LEMMA Times ==
  ASSUME NEW a \in Nat, NEW b \in Nat, NEW m \in Nat, a <= b
  PROVE  /\ a * m \in Nat /\ b * m \in Nat
         /\ a * m <= b * m
         /\ (a + 1) * m = a * m + m
<1>1. a * m \in Nat /\ (a + 1) * m = a * m + m
  OBVIOUS
<1>2. (b - a) * m \in Nat /\ b * m = a * m + (b - a) * m
  <2>1. b - a \in Nat
    OBVIOUS
  <2>2. QED
    BY <2>1
<1>3. QED
  BY <1>1, <1>2

LEMMA MaxSendsIs == MaxSends \in Nat
BY ConstantsAre, UsableCount, Times DEF MaxSends

LEMMA Numbers ==
  ASSUME TypeOK
  PROVE  /\ candidate \in 1 .. Len(Candidates) + 1
         /\ tries \in Nat /\ sends \in Nat /\ faults \in Nat /\ clock \in Nat
<1>1. /\ candidate \in 1 .. Len(Candidates) + 1 /\ tries \in 0 .. MaxRetries
      /\ sends \in 0 .. MaxSends /\ faults \in 0 .. MaxFaults
      /\ clock \in 0 .. Timeout
  BY DEF TypeOK
<1>2. QED
  BY ONLY <1>1, MaxSendsIs, ConstantsAre

(* A request that may still be sent is one of MaxSends.                     *)
LEMMA RoomToSend ==
  ASSUME TypeInv
  PROVE  /\ pc = "send1" /\ ~StageOneExhausted => tries < MaxRetries /\ sends + 1 \in 1 .. MaxSends
         /\ pc = "send2" /\ tries < MaxRetries => sends + 1 \in 1 .. MaxSends
         /\ pc = "wait1" => sends <= Cardinality(Usable) * MaxRetries
<1> DEFINE t == Cardinality(Tried)
           u == Cardinality(Usable)
<1>1. /\ t \in Nat /\ u \in Nat /\ t <= u
      /\ candidate \in Usable => t + 1 <= u
  BY TriedCount, UsableCount DEF TypeInv, TypeOK
<1>2. MaxRetries \in Nat /\ Len(Candidates) \in Nat
  BY ConstantsAre
<1>3. /\ t * MaxRetries \in Nat /\ u * MaxRetries \in Nat
      /\ t * MaxRetries <= u * MaxRetries
      /\ (t + 1) * MaxRetries = t * MaxRetries + MaxRetries
      /\ (u + 1) * MaxRetries = u * MaxRetries + MaxRetries
  BY <1>1, <1>2, Times
<1>4. candidate \in Usable => t * MaxRetries + MaxRetries <= u * MaxRetries
  BY <1>1, <1>2, <1>3, Times
<1>5. MaxSends = u * MaxRetries + MaxRetries
  BY <1>3 DEF MaxSends
<1>6. sends \in Nat /\ tries \in Nat /\ candidate \in 1 .. Len(Candidates) + 1
  BY Numbers DEF TypeInv
<1> HIDE DEF t, u
<1>7. ASSUME pc = "send1", ~StageOneExhausted
      PROVE  tries < MaxRetries /\ sends + 1 \in 1 .. MaxSends
  <2>1. candidate \in Usable /\ MaxRetries # 0
    BY <1>2, <1>6, <1>7 DEF StageOneExhausted, TypeInv, HandshakeInv, Places
  <2>2. tries < MaxRetries /\ sends <= t * MaxRetries + tries
    BY <1>7, <2>1 DEF TypeInv, Counted, t
  <2>3. QED
    BY <1>2, <1>3, <1>4, <1>5, <1>6, <2>1, <2>2
<1>8. ASSUME pc = "send2", tries < MaxRetries
      PROVE  sends + 1 \in 1 .. MaxSends
  <2>1. sends <= u * MaxRetries + tries
    BY <1>8 DEF TypeInv, Counted, u
  <2>2. QED
    BY <1>2, <1>3, <1>5, <1>6, <1>8, <2>1
<1>9. ASSUME pc = "wait1" PROVE sends <= u * MaxRetries
  <2>1. candidate \in Usable
    BY <1>2, <1>6, <1>9 DEF TypeInv, HandshakeInv, Places
  <2>2. tries < MaxRetries /\ sends <= t * MaxRetries + tries + 1
    BY <1>9 DEF TypeInv, Counted, t
  <2>3. QED
    BY <1>2, <1>3, <1>4, <1>6, <2>1, <2>2
<1>10. QED
  BY <1>7, <1>8, <1>9 DEF u

(* The types hold at the start.                                             *)
LEMMA TypeInit == Init => TypeInv
<1> SUFFICES ASSUME Init PROVE TypeInv
  OBVIOUS
<1>1. HandshakeInv
  BY HandshakeInit
<1>2. candidate \in 1 .. Len(Candidates) + 1
  BY <1>1 DEF HandshakeInv, Places
<1>3. TypeOK
  <2>1. server \in [up : BOOLEAN, guid : 1 .. MaxFaults + 1]
    BY ConstantsAre DEF Init
  <2>2. {reply1, connection} \subseteq Parameters \cup {None}
    BY DEF Init
  <2>3. {offered \cup opened} \subseteq SUBSET Parameters
    BY DEF Init
  <2>4. /\ tries \in 0 .. MaxRetries /\ wait_until \in Nat /\ clock \in 0 .. Timeout
        /\ faults \in 0 .. MaxFaults /\ sends \in 0 .. MaxSends
        /\ waited \in 0 .. clock
    BY MaxSendsIs, ConstantsAre DEF Init
  <2>5. QED
    BY <1>2, <2>1, <2>2, <2>3, <2>4 DEF Init, TypeOK
<1>4. Counted
  <2>1. Cardinality(Tried) * MaxRetries \in Nat
    BY <1>2, TriedCount, ConstantsAre, Times
  <2>2. QED
    BY <2>1, ConstantsAre DEF Init, Counted
<1>5. QED
  BY <1>1, <1>3, <1>4 DEF TypeInv

(* The client ends, or goes on to its next attempt.                         *)
LEMMA TypeReturns ==
  ASSUME TypeInv, NEW outcome, NEW p, Return(outcome, p),
         p \in Parameters \cup {None},
         outcome \in {"no address", "ipv6 address", "io error",
                      "all MTU rejected", "no Reply 2", "rejected", "malformed",
                      "diverged", "timed out", "connected"},
         UNCHANGED <<clock, server, path, faults, sends, waited, offered, opened>>,
         requests' \subseteq requests, replies' \subseteq replies,
         refused' \in BOOLEAN, smooth' \in BOOLEAN
  PROVE  TypeOK' /\ Counted'
<1>1. TypeOK'
  BY DEF TypeInv, TypeOK, Return
<1>2. Counted'
  BY DEF TypeInv, Counted, Return
<1>3. QED
  BY <1>1, <1>2

LEMMA TypeRetries ==
  ASSUME TypeInv, Waiting, AttemptOver,
         UNCHANGED <<clock, server, path, faults, sends, waited, offered, opened>>,
         requests' \subseteq requests, replies' \subseteq replies,
         refused' \in BOOLEAN, smooth' \in BOOLEAN
  PROVE  TypeOK' /\ Counted'
<1>1. candidate \in 1 .. Len(Candidates) + 1 /\ tries \in Nat /\ sends \in Nat
  BY Numbers DEF TypeInv
<1>2. MaxRetries \in Nat /\ Len(Candidates) \in Nat
  BY ConstantsAre
<1>3. tries < MaxRetries
  BY DEF Waiting, TypeInv, Counted
<1>4. /\ pc \in {"wait1", "wait2"}
      /\ pc' = IF pc = "wait1" THEN "send1" ELSE "send2"
      /\ UNCHANGED <<wait_until, reply1, result, connection>>
  BY DEF Waiting, AttemptOver
<1>5. CASE pc = "wait1" /\ tries + 1 = MaxRetries
  <2> DEFINE t == Cardinality(Tried)
  <2>1. candidate \in Usable /\ candidate <= Len(Candidates)
    BY <1>1, <1>2, <1>5 DEF TypeInv, HandshakeInv, Places
  <2>2. candidate' = NextCandidate(candidate + 1) /\ tries' = 0
    BY <1>5 DEF AttemptOver
  <2>3. candidate' \in 1 .. Len(Candidates) + 1
    <3>1. candidate + 1 \in 1 .. Len(Candidates) + 1
      BY <1>1, <1>2, <2>1
    <3>2. candidate' \in candidate + 1 .. Len(Candidates) + 1
      BY <2>2, <3>1, NextCandidateIs
    <3>3. QED
      BY <1>1, <1>2, <3>2
  <2>4. Cardinality(Tried') = t + 1 /\ t \in Nat
    BY <1>1, <2>1, <2>2, TriedNext, TriedCount
  <2>5. t * MaxRetries \in Nat /\ (t + 1) * MaxRetries = t * MaxRetries + MaxRetries
    BY <1>2, <2>4, Times
  <2>6. sends <= t * MaxRetries + tries + 1
    BY <1>5 DEF TypeInv, Counted
  <2> HIDE DEF t
  <2>7. sends <= (t + 1) * MaxRetries + 0
    BY <1>1, <1>2, <1>5, <2>5, <2>6
  <2>8. TypeOK'
    <3>1. tries' \in 0 .. MaxRetries
      BY <1>2, <2>2
    <3>2. QED
      BY <1>4, <2>3, <3>1 DEF TypeInv, TypeOK
  <2>9. Counted'
    BY <1>2, <1>4, <1>5, <2>2, <2>4, <2>7 DEF TypeInv, Counted
  <2>10. QED
    BY <2>8, <2>9
<1>6. CASE ~(pc = "wait1" /\ tries + 1 = MaxRetries)
  <2>1. tries' = tries + 1 /\ candidate' = candidate
    BY <1>6 DEF AttemptOver
  <2>2. Tried' = Tried
    BY <2>1 DEF Tried
  <2>3. TypeOK'
    <3>1. tries' \in 0 .. MaxRetries
      BY <1>1, <1>2, <1>3, <2>1
    <3>2. QED
      BY <1>4, <2>1, <3>1 DEF TypeInv, TypeOK
  <2>4. CASE pc = "wait1"
    <3>1. sends <= Cardinality(Tried) * MaxRetries + tries + 1
      BY <2>4 DEF TypeInv, Counted
    <3>2. Cardinality(Tried) * MaxRetries \in Nat
      BY <1>1, <1>2, TriedCount, Times
    <3>3. Counted'
      BY <1>1, <1>2, <1>3, <1>4, <1>6, <2>1, <2>2, <2>4, <3>1, <3>2 DEF TypeInv, Counted
    <3>4. QED
      BY <2>3, <3>3
  <2>5. CASE pc = "wait2"
    <3>1. sends <= Cardinality(Usable) * MaxRetries + tries + 1
      BY <2>5 DEF TypeInv, Counted
    <3>2. Cardinality(Usable) * MaxRetries \in Nat
      BY <1>2, UsableCount, Times
    <3>3. Counted'
      BY <1>1, <1>2, <1>4, <2>1, <2>5, <3>1, <3>2 DEF TypeInv, Counted
    <3>4. QED
      BY <2>3, <3>3
  <2>6. QED
    BY <1>4, <2>4, <2>5
<1>7. QED
  BY <1>5, <1>6

(* A request is sent: the next one, for the candidate or the offer.         *)
LEMMA TypeSends ==
  ASSUME TypeInv, NEW stage \in {1, 2}, NEW mtu \in Mtus, NEW wait \in Nat,
         sends + 1 \in 1 .. MaxSends,
         \/ stage = 1 /\ pc = "send1" /\ tries < MaxRetries
         \/ stage = 2 /\ pc = "send2" /\ tries < MaxRetries,
         Transmit(stage, mtu, wait, IF stage = 1 THEN "wait1" ELSE "wait2"),
         UNCHANGED <<clock, replies, serving, path, faults, smooth, waited>>
  PROVE  TypeOK' /\ Counted'
<1>1. CASE refused
  <2>1. /\ Return("io error", None)
        /\ UNCHANGED <<requests, sends>> /\ refused' \in BOOLEAN
    BY <1>1 DEF Transmit
  <2>2. smooth' \in BOOLEAN
    BY DEF TypeInv, TypeOK
  <2>3. QED
    BY <2>1, <2>2, TypeReturns DEF serving
<1>2. CASE ~refused
  <2> DEFINE request == [stage |-> stage, mtu |-> mtu, no |-> sends + 1]
  <2>1. /\ pc' = IF stage = 1 THEN "wait1" ELSE "wait2"
        /\ wait_until' = clock + wait
        /\ sends' = sends + 1
        /\ requests' \subseteq requests \cup {request}
        /\ UNCHANGED <<candidate, tries, reply1, result, connection, refused>>
    BY <1>2 DEF Transmit
  <2>2. request \in Request
    BY DEF Request
  <2>3. sends' \in 0 .. MaxSends /\ wait_until' \in Nat
    BY <2>1, Numbers, MaxSendsIs DEF TypeInv
  <2> HIDE DEF request
  <2>4. TypeOK'
    BY <2>1, <2>2, <2>3 DEF TypeInv, TypeOK, serving
  <2>5. Cardinality(Tried) * MaxRetries \in Nat /\ Cardinality(Usable) * MaxRetries \in Nat
    BY TriedCount, UsableCount, ConstantsAre, Numbers, Times DEF TypeInv
  <2>6. CASE stage = 1
    <3>1. sends <= Cardinality(Tried) * MaxRetries + tries
      BY <2>6, ConstantsAre DEF TypeInv, Counted
    <3>2. Tried' = Tried
      BY <2>1 DEF Tried
    <3>3. sends' <= Cardinality(Tried) * MaxRetries + tries + 1
      BY <2>1, <2>5, <3>1, Numbers DEF TypeInv
    <3>4. QED
      BY <2>1, <2>4, <2>6, <3>2, <3>3 DEF TypeInv, Counted, serving
  <2>7. CASE stage = 2
    <3>1. sends <= Cardinality(Usable) * MaxRetries + tries
      BY <2>7 DEF TypeInv, Counted
    <3>2. sends' <= Cardinality(Usable) * MaxRetries + tries + 1
      BY <2>1, <2>5, <3>1, Numbers DEF TypeInv
    <3>3. QED
      BY <2>1, <2>4, <2>7, <3>2 DEF TypeInv, Counted, serving
  <2>8. QED
    BY <2>6, <2>7
<1>3. QED
  BY <1>1, <1>2

(* Every step keeps the types.                                              *)
LEMMA TypeNext == TypeInv /\ [Next]_vars => TypeInv'
<1> SUFFICES ASSUME TypeInv, [Next]_vars PROVE TypeOK' /\ Counted'
  BY HandshakeNext DEF TypeInv
<1> USE DEF client, network, serving, history
<1>a. /\ refused \in BOOLEAN /\ smooth \in BOOLEAN
      /\ None \in Parameters \cup {None}
      /\ PerAttempt1 \in Nat \/ Len(Candidates) * MaxRetries = 0
      /\ PerAttempt2 \in Nat \/ MaxRetries = 0
      /\ \A m \in replies : m \in Packet
      /\ \A r \in requests : r \in Request
  <2>1. \A n \in Nat \ {0} : Timeout \div n \in Nat
    BY ConstantsAre
  <2>2. PerAttempt2 \in Nat \/ MaxRetries = 0
    BY <2>1, ConstantsAre DEF PerAttempt2, Longer
  <2>3. Len(Candidates) * MaxRetries \in Nat
    BY ConstantsAre
  <2>4. PerAttempt1 \in Nat \/ Len(Candidates) * MaxRetries = 0
    BY <2>1, <2>3, ConstantsAre DEF PerAttempt1, Longer
  <2>5. QED
    BY <2>2, <2>4 DEF TypeInv, TypeOK
<1>1. ASSUME NEW addresses \in AddressLists, Resolve(addresses)
      PROVE  TypeOK' /\ Counted'
  <2>1. UNCHANGED <<clock, network, serving, path, faults, sends, waited>>
    BY <1>1 DEF Resolve
  <2>2. CASE pc' = "send1" /\ UNCHANGED <<candidate, tries, wait_until, reply1,
                                           result, connection, smooth>>
    <3>1. pc = "resolve"
      BY <1>1 DEF Resolve
    <3>2. QED
      BY <2>1, <2>2, <3>1 DEF TypeInv, TypeOK, Counted, Tried
  <2>3. CASE /\ smooth' = FALSE
             /\ \E outcome \in {"no address", "ipv6 address", "io error"} :
                  Return(outcome, None)
    BY <1>a, <2>1, <2>3, TypeReturns
  <2>4. QED
    BY <1>1, <2>2, <2>3 DEF Resolve
<1>2. CASE SendRequest1
  <2>1. /\ tries < MaxRetries /\ sends + 1 \in 1 .. MaxSends
        /\ pc = "send1" /\ ~StageOneExhausted
    BY <1>2, RoomToSend DEF SendRequest1
  <2>2. candidate \in DOMAIN Candidates /\ MaxRetries # 0
    BY <2>1, Numbers, HandshakeAssumption DEF StageOneExhausted, TypeInv
  <2>3. Candidates[candidate] \in Mtus
    BY <2>2 DEF Mtus
  <2>4. Len(Candidates) * MaxRetries # 0
    BY <2>2, ConstantsAre, Numbers, HandshakeAssumption
  <2>5. QED
    BY <1>2, <1>a, <2>1, <2>3, <2>4, TypeSends DEF SendRequest1
<1>3. CASE SendRequest2
  <2>1. sends + 1 \in 1 .. MaxSends /\ pc = "send2" /\ tries < MaxRetries
    BY <1>3, RoomToSend DEF SendRequest2
  <2>2. reply1.mtu \in Mtus
    BY <2>1 DEF TypeInv, Counted, Parameters
  <2>3. MaxRetries # 0
    BY <2>1, Numbers DEF TypeInv
  <2>4. QED
    BY <1>3, <1>a, <2>1, <2>2, <2>3, TypeSends DEF SendRequest2
<1>4. CASE GiveUp
  BY <1>4, <1>a, TypeReturns DEF GiveUp
<1>5. ASSUME NEW m \in replies, Receive(m) PROVE TypeOK' /\ Counted'
  <2>1. /\ UNCHANGED <<clock, refused, requests, server, offered, opened, path,
                       faults, sends, smooth, waited>>
        /\ replies' \subseteq replies /\ Waiting
    BY <1>5 DEF Receive
  <2>2. m.param \in Parameters \cup {None}
    BY <1>a DEF Packet
  <2>3. CASE \E outcome \in {"rejected", "malformed", "diverged"} :
               Return(outcome, None)
    BY <1>a, <2>1, <2>3, TypeReturns
  <2>4. CASE Return("connected", m.param)
    BY <1>a, <2>1, <2>2, <2>4, TypeReturns
  <2>5. CASE AttemptOver
    BY <1>a, <2>1, <2>5, TypeRetries
  <2>6. CASE /\ pc = "wait1" /\ m.kind = "reply1"
             /\ pc' = "send2"
             /\ reply1' = m.param
             /\ tries' = 0
             /\ UNCHANGED <<candidate, wait_until, result, connection>>
    <3>1. sends <= Cardinality(Usable) * MaxRetries
      BY <2>6, RoomToSend
    <3>2. Cardinality(Usable) * MaxRetries \in Nat /\ tries' \in 0 .. MaxRetries
      BY <2>6, UsableCount, ConstantsAre, Times
    <3>3. m.param \in offered
      BY <2>6 DEF TypeInv, HandshakeInv, SaidByServers
    <3>4. m.param \in Parameters
      BY <3>3 DEF TypeInv, TypeOK
    <3>5. TypeOK'
      BY <2>1, <2>2, <2>6, <3>2 DEF TypeInv, TypeOK
    <3>6. Counted'
      BY <2>1, <2>6, <3>1, <3>2, <3>4, Numbers DEF TypeInv, Counted
    <3>7. QED
      BY <3>5, <3>6
  <2>7. QED
    BY <1>5, <2>3, <2>4, <2>5, <2>6 DEF Receive
<1>6. CASE SocketError
  BY <1>6, <1>a, TypeRetries DEF SocketError
<1>7. CASE AttemptTimesOut
  <2>1. smooth' \in BOOLEAN
    BY <1>7, <1>a DEF AttemptTimesOut
  <2>2. QED
    BY <1>7, <1>a, <2>1, TypeRetries DEF AttemptTimesOut
<1>8. CASE HandshakeTimesOut
  <2>1. smooth' \in BOOLEAN
    BY <1>8, <1>a DEF HandshakeTimesOut, history
  <2>2. QED
    BY <1>8, <1>a, <2>1, TypeReturns DEF HandshakeTimesOut
<1>9. CASE TimePasses
  <2>1. clock' \in 0 .. Timeout
    BY <1>9, Numbers, ConstantsAre DEF TimePasses, TypeInv
  <2>2. QED
    <3>a. waited' \in 0 .. clock'
      <4>1. /\ clock \in Nat /\ waited \in 0 .. clock /\ clock' = clock + 1
            /\ waited' \in {waited, waited + 1}
        BY <1>9, Numbers DEF TimePasses, TypeInv, TypeOK
      <4>2. QED
        BY <4>1
    <3>1. TypeOK'
      BY <1>9, <2>1, <3>a DEF TimePasses, TypeInv, TypeOK
    <3>2. Counted'
      BY <1>9 DEF TimePasses, TypeInv, Counted, Tried
    <3>3. QED
      BY <3>1, <3>2
<1>10. ASSUME NEW r \in requests, Answer(r) PROVE TypeOK' /\ Counted'
  <2> DEFINE param == [guid |-> server.guid, mtu |-> r.mtu]
             reply == [kind |-> IF r.stage = 1 THEN "reply1" ELSE "reply2",
                       param |-> param, no |-> r.no]
  <2>1. /\ requests' \subseteq requests
        /\ replies' = replies \cup {reply}
        /\ offered' \subseteq offered \cup {param}
        /\ opened' \subseteq opened \cup {param}
        /\ UNCHANGED <<client, clock, refused, server, path, faults, sends, smooth, waited>>
    BY <1>10 DEF Answer
  <2>2. r.no \in 1 .. MaxSends /\ r.mtu \in Mtus
    BY <1>a DEF Request
  <2>3. param \in Parameters
    BY <2>2 DEF TypeInv, TypeOK, Parameters
  <2>4. r.no \in -MaxFaults .. MaxSends
    BY <2>2, ConstantsAre, MaxSendsIs
  <2> HIDE DEF param
  <2>5. reply \in Packet
    BY <2>3, <2>4 DEF Packet
  <2> HIDE DEF reply
  <2>6. TypeOK'
    BY <2>1, <2>3, <2>5 DEF TypeInv, TypeOK
  <2>7. Counted'
    BY <2>1 DEF TypeInv, Counted, Tried
  <2>8. QED
    BY <2>6, <2>7
<1>11. ASSUME NEW r \in requests, Refuse(r) PROVE TypeOK' /\ Counted'
  BY <1>11 DEF Refuse, TypeInv, TypeOK, Counted, Tried
<1>12. CASE Crash
  <2>1. faults' \in 0 .. MaxFaults
    BY <1>12, Numbers, ConstantsAre DEF Crash, TypeInv
  <2>2. /\ server' \in [up : BOOLEAN, guid : 1 .. MaxFaults + 1]
        /\ server.up /\ ~server'.up /\ server'.guid = server.guid
    BY <1>12 DEF Crash, TypeInv, TypeOK
  <2>3. server.guid \in 1 .. MaxFaults + 1
    BY DEF TypeInv, TypeOK
  <2>4. server'.guid + 1 <= faults' + 1
    BY <1>12, <2>2, <2>3, Numbers, ConstantsAre DEF Crash, TypeInv, Counted
  <2>5. TypeOK'
    BY <1>12, <2>1, <2>2 DEF Crash, TypeInv, TypeOK
  <2>6. Counted'
    BY <1>12, <2>2, <2>4 DEF Crash, TypeInv, Counted, Tried
  <2>7. QED
    BY <2>5, <2>6
<1>13. CASE Restart
  <2>1. server.guid \in 1 .. MaxFaults + 1 /\ ~server.up
    BY <1>13 DEF Restart, TypeInv, TypeOK
  <2>2. server.guid + 1 <= faults + 1
    BY <2>1 DEF TypeInv, Counted
  <2>3. faults \in 0 .. MaxFaults
    BY DEF TypeInv, TypeOK
  <2>4. server.guid + 1 \in 1 .. MaxFaults + 1
    BY <2>1, <2>2, <2>3, ConstantsAre
  <2>5. /\ server' \in [up : BOOLEAN, guid : 1 .. MaxFaults + 1]
        /\ server'.up /\ server'.guid = server.guid + 1
    BY <1>13, <2>4 DEF Restart
  <2>6. server'.guid + 0 <= faults + 1
    BY <2>1, <2>2, <2>3, <2>5, ConstantsAre
  <2>7. TypeOK'
    BY <1>13, <2>5 DEF Restart, TypeInv, TypeOK
  <2>8. Counted'
    BY <1>13, <2>5, <2>6 DEF Restart, TypeInv, Counted, Tried
  <2>9. QED
    BY <2>7, <2>8
<1>14. ASSUME NEW packet \in StrayPackets, SendStray(packet)
       PROVE  TypeOK' /\ Counted'
  <2>1. faults' \in 1 .. MaxFaults /\ faults' = faults + 1
    BY <1>14, Numbers, ConstantsAre DEF SendStray, TypeInv
  <2>2. -faults' \in -MaxFaults .. MaxSends
    BY <2>1, ConstantsAre, MaxSendsIs
  <2>3. /\ packet.kind \in {"reply1", "reply2", "rejection", "malformed1",
                            "malformed2", "other"}
        /\ packet.param \in Parameters \cup {None}
    BY <1>a DEF StrayPackets, Packet
  <2> DEFINE copy == [kind |-> packet.kind, param |-> packet.param, no |-> -faults']
  <2>4. copy \in Packet
    BY <2>2, <2>3 DEF Packet
  <2>5. replies' = replies \cup {copy} /\ smooth' = FALSE
        /\ UNCHANGED <<client, clock, refused, requests, serving, path, sends, waited>>
    BY <1>14 DEF SendStray
  <2> HIDE DEF copy
  <2>6. faults' \in 0 .. MaxFaults
    BY <2>1, ConstantsAre
  <2>7. TypeOK'
    BY <2>4, <2>5, <2>6 DEF TypeInv, TypeOK
  <2>8. server.guid \in 1 .. MaxFaults + 1 /\ faults \in 0 .. MaxFaults
    BY DEF TypeInv, TypeOK
  <2>9. server.guid + (IF server.up THEN 0 ELSE 1) <= faults' + 1
    BY <2>1, <2>8, ConstantsAre DEF TypeInv, Counted
  <2>10. Counted'
    BY <2>5, <2>9 DEF TypeInv, Counted, Tried
  <2>11. QED
    BY <2>7, <2>10
<1>15. CASE UNCHANGED vars
  <2>1. TypeOK'
    BY <1>15 DEF vars, TypeInv, TypeOK
  <2>2. Counted'
    BY <1>15 DEF vars, TypeInv, Counted, Tried
  <2>3. QED
    BY <2>1, <2>2
<1>16. QED
  BY <1>1, <1>2, <1>3, <1>4, <1>5, <1>6, <1>7, <1>8, <1>9, <1>10, <1>11, <1>12,
     <1>13, <1>14, <1>15 DEF Next, Done

(***************************************************************************)
(* The bookkeeping stays within its bounds: no more transmissions than the  *)
(* usable candidates and stage 2 have attempts, no time past the timeout of *)
(* the whole exchange, no candidate beyond the list (conn.rs:539-596).      *)
(***************************************************************************)
THEOREM TypesHold == Spec => []TypeOK
<1>1. TypeInv => TypeOK
  BY DEF TypeInv
<1>2. QED
  BY <1>1, TypeInit, TypeNext, PTL DEF Spec
-----------------------------------------------------------------------------
(***************************************************************************)
(* Smooth runs.  Stage 1 has at most one packet on its way: the request of  *)
(* the attempt under way, its answer, or, if the candidate is too large for *)
(* the path, none.  It never gets past a candidate that fits.  Up to there  *)
(* the clock has counted the attempts the path has swallowed (Spent) and    *)
(* what was waited for answers.  In stage 2 all time is waited for answers, *)
(* and the attempts that are used up have been waited for to the full.      *)
(***************************************************************************)
Quiet == requests = {} /\ replies = {}

Offer == [guid |-> 1, mtu |-> Candidates[candidate]]

(* What an attempt of stage 1 has in flight.                                *)
OneInFlight ==
    \E no \in Int :
        \/ /\ requests = {[stage |-> 1, mtu |-> Offer.mtu, no |-> no]}
           /\ replies = {}
        \/ /\ requests = {}
           /\ replies = {[kind |-> "reply1", param |-> Offer, no |-> no]}

(* All that stage 2 may have in flight.                                     *)
AllOfStage2 ==
    /\ \A r \in requests : r.stage = 2 /\ r.mtu = Offer.mtu
    /\ \A m \in replies : m.kind = "reply2" /\ m.param = Offer

(* The time that t attempts for candidate c take, with all before them.     *)
Spent(c, t) == ((c - 1) * MaxRetries + t) * PerAttempt1

(* The attempts for one candidate take no more than its share.              *)
Room == MaxRetries # 0 /\ MaxRetries * PerAttempt1 <= Share

Punctual == { i \in Fitting : waited + MaxRetries <= Timeout - (i - 1) * Share }

Stage1OnCourse ==
    /\ tries < MaxRetries
    /\ \A i \in Fitting : candidate <= i
    /\ candidate \in Fitting => tries = 0
    /\ pc \in {"resolve", "send1"} =>
         Quiet /\ clock <= Spent(candidate, tries) + waited
    /\ pc = "wait1" =>
         \/ /\ candidate \notin Fitting /\ Quiet
            /\ clock <= wait_until
            /\ wait_until <= Spent(candidate, tries + 1) + waited
         \/ /\ candidate \in Fitting /\ OneInFlight
            /\ clock <= Spent(candidate, 0) + waited

Stage2OnCourse ==
    /\ reply1 = Offer
    /\ candidate \in Fitting
    /\ \A i \in Fitting : candidate <= i
    /\ clock <= Spent(candidate, 0) + waited
    /\ AllOfStage2
    /\ pc = "send2" => tries * PerAttempt2 <= waited
    /\ pc = "wait2" =>
         /\ ~Quiet /\ clock <= wait_until
         /\ tries * PerAttempt2 + PerAttempt2 <= waited + (wait_until - clock)

OnCourse ==
    /\ ~refused
    /\ server = [up |-> TRUE, guid |-> 1]
    /\ pc = "done" => result = "connected"
    /\ pc \in {"resolve", "send1", "wait1"} => Stage1OnCourse
    /\ pc \in {"send2", "wait2"} => Stage2OnCourse

Smooth == smooth /\ Punctual # {} => OnCourse

LEMMA FittingIs ==
  ASSUME NEW i \in Fitting
  PROVE  i \in 1 .. Len(Candidates) /\ i \in Usable
BY UsableCount DEF Fitting

(* How the time adds up, attempt by attempt and candidate by candidate.     *)
LEMMA Adds ==
  ASSUME Fitting # {}, MaxRetries # 0
  PROVE  /\ PerAttempt1 \in Nat
         /\ \A c \in Nat \ {0}, t \in Nat :
              /\ Spent(c, t) \in Nat
              /\ Spent(c, t + 1) = Spent(c, t) + PerAttempt1
              /\ \A d \in Nat, s \in Nat :
                   c < d /\ t <= MaxRetries => Spent(c, t) <= Spent(d, s)
<1>1. PICK i \in Fitting : TRUE
  OBVIOUS
<1>2. Len(Candidates) \in Nat \ {0} /\ MaxRetries \in Nat \ {0}
  BY <1>1, FittingIs, ConstantsAre
<1>3. PerAttempt1 \in Nat
  <2>1. Len(Candidates) * MaxRetries \in Nat \ {0}
    BY <1>2
  <2>2. \A n \in Nat \ {0} : Timeout \div n \in Nat
    BY ConstantsAre
  <2>3. Timeout \div (Len(Candidates) * MaxRetries) \in Nat
    BY <2>1, <2>2
  <2>4. QED
    BY <2>3, ConstantsAre DEF PerAttempt1, Longer
<1>4. ASSUME NEW c \in Nat \ {0}, NEW t \in Nat
      PROVE  /\ (c - 1) * MaxRetries + t \in Nat
             /\ (c - 1) * MaxRetries + (t + 1) = (c - 1) * MaxRetries + t + 1
             /\ \A d \in Nat, s \in Nat :
                   c < d /\ t <= MaxRetries =>
                   (c - 1) * MaxRetries + t <= (d - 1) * MaxRetries + s
  <2>1. c - 1 \in Nat /\ (c - 1) * MaxRetries \in Nat
    BY <1>2, Times
  <2>2. ASSUME NEW d \in Nat, NEW s \in Nat, c < d, t <= MaxRetries
        PROVE  (c - 1) * MaxRetries + t <= (d - 1) * MaxRetries + s
    <3>1. d - 1 \in Nat /\ c - 1 + 1 = c /\ c <= d - 1
      BY <2>2
    <3>2. /\ c * MaxRetries \in Nat /\ (d - 1) * MaxRetries \in Nat
          /\ c * MaxRetries <= (d - 1) * MaxRetries
      BY <1>2, <3>1, Times
    <3>3. c * MaxRetries = (c - 1) * MaxRetries + MaxRetries
      <4>1. (c - 1 + 1) * MaxRetries = (c - 1) * MaxRetries + MaxRetries
        BY <1>2, <2>1, Times
      <4>2. QED
        BY <3>1, <4>1
    <3>4. QED
      BY <1>2, <2>1, <2>2, <3>2, <3>3
  <2>3. QED
    BY <2>1, <2>2
<1>5. ASSUME NEW c \in Nat \ {0}, NEW t \in Nat
      PROVE  /\ Spent(c, t) \in Nat
             /\ Spent(c, t + 1) = Spent(c, t) + PerAttempt1
             /\ \A d \in Nat, s \in Nat :
                  c < d /\ t <= MaxRetries => Spent(c, t) <= Spent(d, s)
  <2> DEFINE a == (c - 1) * MaxRetries + t
  <2>1. /\ a \in Nat /\ (c - 1) * MaxRetries + (t + 1) = a + 1
    BY <1>4
  <2>2. a * PerAttempt1 \in Nat /\ (a + 1) * PerAttempt1 = a * PerAttempt1 + PerAttempt1
    <3> HIDE DEF a
    <3>1. QED
      BY <1>3, <2>1, Times
  <2>3. ASSUME NEW d \in Nat, NEW s \in Nat, c < d, t <= MaxRetries
        PROVE  Spent(c, t) <= Spent(d, s)
    <3> DEFINE b == (d - 1) * MaxRetries + s
    <3>1. b \in Nat /\ a <= b
      <4>1. d \in Nat \ {0}
        BY <2>3
      <4>2. QED
        BY <1>4, <2>3, <4>1
    <3>2. a * PerAttempt1 <= b * PerAttempt1
      <4> HIDE DEF a, b
      <4>1. QED
        BY <1>3, <2>1, <3>1, Times
    <3>3. QED
      BY <3>2 DEF Spent
  <2>4. QED
    BY <2>1, <2>2, <2>3 DEF Spent
<1>6. QED
  BY <1>3, <1>5

(* A number of shares is a share of the number.                             *)
LEMMA Divides ==
  ASSUME NEW n \in Nat \ {0}, NEW x \in Nat, NEW T \in Nat, n * x <= T
  PROVE  x <= T \div n
<1> DEFINE q == T \div n
<1>1. q \in Nat /\ T < n * q + n
  OBVIOUS
<1> HIDE DEF q
<1>2. n * (q + 1) = n * q + n /\ n * x < n * (q + 1)
  BY <1>1
<1>3. x < q + 1
  <2>1. ASSUME q + 1 <= x PROVE FALSE
    <3>1. (q + 1) * n <= x * n
      BY <1>1, <2>1, Times
    <3>2. (q + 1) * n = n * (q + 1) /\ x * n = n * x
      BY <1>1
    <3>3. /\ (q + 1) * n \in Nat /\ x * n \in Nat
      BY <1>1, Times
    <3>4. QED
      BY <1>2, <3>1, <3>2, <3>3
  <2>2. QED
    BY <1>1, <2>1
<1>4. QED
  BY <1>1, <1>3 DEF q

(* There is room as soon as every attempt could last Floor.                 *)
LEMMA RoomForAll ==
  ASSUME MaxRetries # 0, Len(Candidates) # 0,
         (Len(Candidates) * MaxRetries) * Floor <= Timeout
  PROVE  Room
<1> DEFINE n == Len(Candidates)
           p == PerAttempt1
<1>1. /\ n \in Nat \ {0} /\ MaxRetries \in Nat \ {0}
      /\ Floor \in Nat /\ Timeout \in Nat
  BY ConstantsAre
<1>2. n * MaxRetries \in Nat \ {0}
  BY <1>1
<1>3. \A m \in Nat \ {0} :
        Timeout \div m \in Nat /\ m * (Timeout \div m) <= Timeout
  BY <1>1
<1>4. p \in Nat /\ (n * MaxRetries) * p <= Timeout
  <2>1. p \in {Timeout \div (n * MaxRetries), Floor}
    BY DEF PerAttempt1, Longer
  <2>2. QED
    BY <1>1, <1>2, <1>3, <2>1
<1> HIDE DEF n, p
<1>5. MaxRetries * p \in Nat /\ n * (MaxRetries * p) <= Timeout
  <2>1. n * (MaxRetries * p) = (n * MaxRetries) * p
    BY <1>1, <1>4
  <2>2. QED
    BY <1>1, <1>4, <2>1
<1>6. MaxRetries * p <= Timeout \div n
  BY <1>1, <1>5, Divides
<1>7. QED
  BY <1>1, <1>6 DEF Room, Share, n, p

(* What the candidates before i cost is no more than their shares.          *)
LEMMA Shares ==
  ASSUME Room, NEW i \in Fitting
  PROVE  /\ Spent(i, 0) \in Nat /\ (i - 1) * Share \in Nat
         /\ Spent(i, 0) <= (i - 1) * Share
<1>1. /\ i \in Nat \ {0} /\ i - 1 \in Nat /\ Len(Candidates) \in Nat \ {0}
      /\ MaxRetries \in Nat
  BY FittingIs, ConstantsAre
<1>2. PerAttempt1 \in Nat /\ Spent(i, 0) \in Nat
  BY <1>1, Adds DEF Room
<1>3. Share \in Nat
  <2>1. \A n \in Nat \ {0} : Timeout \div n \in Nat
    BY ConstantsAre
  <2>2. QED
    BY <1>1, <2>1 DEF Share
<1> DEFINE each == MaxRetries * PerAttempt1
<1>4. each \in Nat /\ each <= Share
  BY <1>1, <1>2 DEF Room
<1>5. Spent(i, 0) = each * (i - 1)
  BY <1>1, <1>2 DEF Spent
<1> HIDE DEF each
<1>6. each * (i - 1) <= Share * (i - 1)
  BY <1>1, <1>3, <1>4, Times
<1>7. (i - 1) * Share = Share * (i - 1) /\ (i - 1) * Share \in Nat
  BY <1>1, <1>3
<1>8. QED
  BY <1>2, <1>5, <1>6, <1>7

(* What is waited for punctual answers fits into the attempts of stage 2,   *)
(* whose lengths are rounded down.                                          *)
LEMMA FitsStage2 ==
  ASSUME Room, TypeInv, Punctual # {}
  PROVE  PerAttempt2 \in Nat /\ waited < MaxRetries * PerAttempt2
<1> DEFINE q == Timeout \div MaxRetries
<1>1. MaxRetries \in Nat \ {0} /\ Timeout \in Nat /\ Floor \in Nat
  BY ConstantsAre DEF Room
<1>2. q \in Nat /\ Timeout < MaxRetries * q + MaxRetries
  BY <1>1
<1>3. PerAttempt2 \in Nat /\ q <= PerAttempt2
  BY <1>1, <1>2 DEF PerAttempt2, Longer
<1> HIDE DEF q
<1>4. MaxRetries * q <= MaxRetries * PerAttempt2 /\ MaxRetries * q \in Nat
      /\ MaxRetries * PerAttempt2 \in Nat
  <2>1. /\ q * MaxRetries <= PerAttempt2 * MaxRetries
        /\ q * MaxRetries \in Nat /\ PerAttempt2 * MaxRetries \in Nat
    BY <1>1, <1>2, <1>3, Times
  <2>2. /\ MaxRetries * q = q * MaxRetries
        /\ MaxRetries * PerAttempt2 = PerAttempt2 * MaxRetries
    BY <1>1, <1>2, <1>3
  <2>3. QED
    BY <2>1, <2>2
<1>5. PICK i \in Fitting : waited + MaxRetries <= Timeout - (i - 1) * Share
  BY DEF Punctual
<1>6. (i - 1) * Share \in Nat /\ waited \in Nat
  <2>1. clock \in Nat /\ waited \in 0 .. clock
    BY Numbers DEF TypeInv, TypeOK
  <2>2. QED
    BY <2>1, Shares
<1>7. QED
  BY <1>1, <1>2, <1>3, <1>4, <1>5, <1>6

(* The timeout of the whole exchange does not fire.                         *)
LEMMA InTime ==
  ASSUME TypeInv, OnCourse, Room, Waiting, Punctual # {}
  PROVE  clock < Timeout
<1>1. PICK i \in Fitting : waited + MaxRetries <= Timeout - (i - 1) * Share
  BY DEF Punctual
<1>2. /\ i \in 1 .. Len(Candidates) /\ candidate \in 1 .. Len(Candidates) + 1
      /\ Len(Candidates) \in Nat /\ tries \in Nat /\ clock \in Nat
      /\ MaxRetries \in Nat \ {0} /\ Timeout \in Nat
      /\ wait_until \in Nat /\ waited \in Nat
  <2>1. clock \in Nat /\ waited \in 0 .. clock /\ wait_until \in Nat
    BY Numbers DEF TypeInv, TypeOK
  <2>2. QED
    BY <2>1, FittingIs, Numbers, ConstantsAre DEF TypeInv, Room
<1>3. Spent(i, 0) \in Nat /\ (i - 1) * Share \in Nat /\ Spent(i, 0) <= (i - 1) * Share
  BY Shares
<1>4. candidate <= i
  BY DEF OnCourse, Stage1OnCourse, Stage2OnCourse, Waiting
<1>5. Spent(candidate, 0) \in Nat /\ Spent(candidate, 0) <= Spent(i, 0)
  <2>1. candidate \in Nat \ {0} /\ i \in Nat
    BY <1>2
  <2>2. CASE candidate < i
    BY <1>2, <2>1, <2>2, Adds DEF Room
  <2>3. CASE candidate = i
    BY <1>3, <2>3
  <2>4. QED
    BY <1>2, <1>4, <2>2, <2>3
<1>6. clock <= Spent(i, 0) + waited
  <2>1. CASE clock <= Spent(candidate, 0) + waited
    BY <1>2, <1>3, <1>5, <2>1
  <2>2. CASE /\ pc = "wait1" /\ candidate \notin Fitting
             /\ clock <= wait_until /\ wait_until <= Spent(candidate, tries + 1) + waited
    <3>1. candidate < i /\ tries + 1 <= MaxRetries /\ tries + 1 \in Nat
          /\ candidate \in Nat \ {0} /\ i \in Nat
      BY <1>2, <1>4, <2>2 DEF OnCourse, Stage1OnCourse
    <3>2. Spent(candidate, tries + 1) \in Nat /\ Spent(candidate, tries + 1) <= Spent(i, 0)
      BY <1>2, <3>1, Adds DEF Room
    <3>3. QED
      BY <1>2, <1>3, <2>2, <3>2
  <2>3. QED
    BY <2>1, <2>2 DEF OnCourse, Stage1OnCourse, Stage2OnCourse, Waiting
<1>7. QED
  BY <1>1, <1>2, <1>3, <1>6

LEMMA SmoothInit == MaxRetries # 0 /\ Init => Smooth
<1> SUFFICES ASSUME MaxRetries # 0, Init, Fitting # {} PROVE OnCourse
  BY DEF Smooth, Punctual
<1>1. /\ 1 \in 1 .. Len(Candidates) + 1 /\ Len(Candidates) \in Nat
      /\ \A i \in Fitting : i \in 1 .. Len(Candidates) /\ i \in Usable
  BY FittingIs, ConstantsAre
<1>2. /\ candidate \in 1 .. Len(Candidates) + 1
      /\ (1 .. candidate - 1) \cap Usable = {}
  BY <1>1, NextCandidateIs DEF Init
<1>3. \A i \in Fitting : candidate <= i
  BY <1>1, <1>2
<1>4. Spent(candidate, 0) \in Nat
  BY <1>2, Adds, ConstantsAre
<1>5. 0 < MaxRetries /\ 0 <= Spent(candidate, 0) + 0
  BY <1>4, ConstantsAre
<1>6. QED
  BY <1>3, <1>5 DEF Init, OnCourse, Stage1OnCourse, Quiet

(* Stage 1 goes on after the path has swallowed a request.                  *)
LEMMA SmoothRetries1 ==
  ASSUME TypeInv, OnCourse, Room, pc = "wait1", Quiet, AttemptOver, Fitting # {},
         UNCHANGED <<clock, refused, requests, replies, server, path, waited>>
  PROVE  OnCourse'
<1>1. /\ candidate \notin Fitting /\ tries < MaxRetries
      /\ clock <= wait_until /\ wait_until <= Spent(candidate, tries + 1) + waited
      /\ \A i \in Fitting : candidate <= i
  BY DEF OnCourse, Stage1OnCourse, Quiet, OneInFlight
<1>2. /\ candidate \in 1 .. Len(Candidates) + 1 /\ Len(Candidates) \in Nat
      /\ tries \in Nat /\ clock \in Nat /\ MaxRetries \in Nat
      /\ wait_until \in Nat /\ waited \in Nat
  <2>1. clock \in Nat /\ waited \in 0 .. clock /\ wait_until \in Nat
    BY Numbers DEF TypeInv, TypeOK
  <2>2. QED
    BY <2>1, Numbers, ConstantsAre DEF TypeInv
<1>3. \A i \in Fitting : i \in Usable /\ i \in 1 .. Len(Candidates) /\ candidate < i
  BY <1>1, <1>2, FittingIs
<1>4. Fitting' = Fitting /\ pc' = "send1"
  BY DEF Fitting, AttemptOver
<1>5. Spent(candidate, tries + 1) \in Nat
  <2>1. candidate \in Nat \ {0} /\ tries + 1 \in Nat
    BY <1>2
  <2>2. QED
    BY <2>1, Adds DEF Room
<1>6. clock <= Spent(candidate, tries + 1) + waited
  BY <1>1, <1>2, <1>5
<1>7. CASE tries + 1 = MaxRetries
  <2>1. candidate' = NextCandidate(candidate + 1) /\ tries' = 0
    BY <1>7 DEF AttemptOver
  <2>2. candidate + 1 \in 1 .. Len(Candidates) + 1
    BY <1>2, <1>3
  <2>3. /\ candidate' \in candidate + 1 .. Len(Candidates) + 1
        /\ (candidate + 1 .. candidate' - 1) \cap Usable = {}
    BY <2>1, <2>2, NextCandidateIs
  <2>4. \A i \in Fitting : candidate' <= i
    BY <1>2, <1>3, <2>3
  <2>5. clock <= Spent(candidate', 0) + waited
    <3>1. /\ candidate \in Nat \ {0} /\ tries + 1 \in Nat /\ candidate' \in Nat \ {0}
          /\ candidate < candidate' /\ tries + 1 <= MaxRetries
      BY <1>2, <1>7, <2>3
    <3>2. /\ Spent(candidate, tries + 1) <= Spent(candidate', 0)
          /\ Spent(candidate', 0) \in Nat
      BY <3>1, Adds DEF Room
    <3>3. QED
      BY <1>2, <1>5, <1>6, <3>2
  <2>6. 0 < MaxRetries
    BY <1>2 DEF Room
  <2>7. Spent(candidate', tries') = Spent(candidate', 0)
    BY <2>1 DEF Spent
  <2>8. Stage1OnCourse'
    BY <1>4, <2>1, <2>4, <2>5, <2>6, <2>7 DEF Stage1OnCourse, Quiet, Spent, PerAttempt1
  <2>9. QED
    BY <1>4, <2>8 DEF OnCourse
<1>8. CASE tries + 1 # MaxRetries
  <2>1. candidate' = candidate /\ tries' = tries + 1 /\ tries' < MaxRetries
    BY <1>1, <1>2, <1>8 DEF AttemptOver
  <2>2. clock <= Spent(candidate', tries') + waited
    BY <1>6, <2>1
  <2>3. Stage1OnCourse'
    BY <1>1, <1>4, <2>1, <2>2 DEF Stage1OnCourse, Quiet
  <2>4. QED
    BY <1>4, <2>3 DEF OnCourse
<1>9. QED
  BY <1>7, <1>8

(* Stage 2 goes on while its answer is under way.                           *)
LEMMA SmoothRetries2 ==
  ASSUME TypeInv, OnCourse, Room, pc = "wait2", AttemptOver, clock >= wait_until,
         UNCHANGED <<clock, refused, requests, replies, server, path, waited>>,
         PerAttempt2 \in Nat
  PROVE  OnCourse'
<1>1. /\ pc' = "send2" /\ tries' = tries + 1
      /\ UNCHANGED <<candidate, wait_until, reply1>>
  BY DEF AttemptOver
<1>2. /\ clock \in Nat /\ wait_until \in Nat /\ tries \in Nat /\ waited \in Nat
  <2>1. clock \in Nat /\ waited \in 0 .. clock /\ wait_until \in Nat
    BY Numbers DEF TypeInv, TypeOK
  <2>2. QED
    BY <2>1, Numbers DEF TypeInv
<1>3. /\ clock = wait_until
      /\ tries * PerAttempt2 + PerAttempt2 <= waited + (wait_until - clock)
  BY <1>2 DEF OnCourse, Stage2OnCourse
<1>4. (tries + 1) * PerAttempt2 = tries * PerAttempt2 + PerAttempt2
      /\ tries * PerAttempt2 \in Nat
  BY <1>2, Times
<1>5. tries' * PerAttempt2 <= waited
  BY <1>1, <1>2, <1>3, <1>4
<1>6. Fitting' = Fitting /\ Offer' = Offer
  BY <1>1 DEF Fitting, Offer
<1>7. AllOfStage2' <=> AllOfStage2
  BY <1>6 DEF AllOfStage2
<1>8. Spent(candidate', 0) = Spent(candidate, 0)
  BY <1>1
<1>9. Stage2OnCourse'
  BY <1>1, <1>5, <1>6, <1>7, <1>8 DEF OnCourse, Stage2OnCourse
<1>10. QED
  BY <1>1, <1>9 DEF OnCourse

(* What a request of stage 1 leaves in flight if it fits, and if not.       *)
LEMMA SmoothSends ==
  ASSUME TypeInv, OnCourse, NEW stage \in {1, 2}, NEW mtu, NEW wait, NEW next_pc,
         Transmit(stage, mtu, wait, next_pc)
  PROVE  /\ pc' = next_pc /\ wait_until' = clock + wait /\ ~refused'
         /\ UNCHANGED <<candidate, tries, reply1, result, connection>>
         /\ stage = 1 /\ ~(mtu <= path) => requests' = requests
         /\ stage = 2 \/ mtu <= path =>
              \E no \in Int :
                requests' = requests \cup {[stage |-> stage, mtu |-> mtu, no |-> no]}
<1>1. ~refused
  BY DEF OnCourse
<1> DEFINE request == [stage |-> stage, mtu |-> mtu, no |-> sends + 1]
<1>2. /\ pc' = next_pc /\ wait_until' = clock + wait /\ ~refused'
      /\ UNCHANGED <<candidate, tries, reply1, result, connection>>
      /\ requests' = requests \cup { r \in {request} : stage = 1 => mtu <= path }
  <2>1. /\ pc' = next_pc /\ wait_until' = clock + wait /\ refused' = refused
        /\ UNCHANGED <<candidate, tries, reply1, result, connection>>
    BY <1>1 DEF Transmit
  <2>2. requests' = requests \cup { r \in {request} : stage = 1 => mtu <= path }
    BY <1>1 DEF Transmit
  <2>3. QED
    BY <1>1, <2>1, <2>2
<1>3. sends + 1 \in Int
  BY Numbers DEF TypeInv
<1>4. stage = 1 /\ ~(mtu <= path) => requests' = requests
  BY <1>2
<1>5. stage = 2 \/ mtu <= path => requests' = requests \cup {request}
  BY <1>2
<1>6. QED
  BY <1>2, <1>3, <1>4, <1>5

LEMMA SmoothNext ==
  ASSUME Room, TypeInv, TypeInv', Smooth, [Next]_vars
  PROVE  Smooth'
<1> USE DEF client, network, serving, history
<1>1. smooth' => smooth
  BY DEF Next, vars, Resolve, SendRequest1, SendRequest2, GiveUp, Receive,
         SocketError, AttemptTimesOut, HandshakeTimesOut, Done, TimePasses,
         Answer, Refuse, Crash, Restart, SendStray
<1>2. path' = path
  BY DEF Next, vars, Resolve, SendRequest1, SendRequest2, GiveUp, Receive,
         SocketError, AttemptTimesOut, HandshakeTimesOut, Done, TimePasses,
         Answer, Refuse, Crash, Restart, SendStray
<1>3. Fitting' = Fitting
  BY <1>2 DEF Fitting
<1>4. waited \in Nat /\ clock \in Nat /\ wait_until \in Nat /\ tries \in Nat
  <2>1. clock \in Nat /\ waited \in 0 .. clock /\ wait_until \in Nat
    BY Numbers DEF TypeInv, TypeOK
  <2>2. QED
    BY <2>1, Numbers DEF TypeInv
<1>5. waited' \in {waited, waited + 1}
  <2>1. CASE TimePasses
    BY <2>1 DEF TimePasses
  <2>2. CASE ~TimePasses
    BY <2>2 DEF Next, vars, Resolve, SendRequest1, SendRequest2, GiveUp, Receive,
         SocketError, AttemptTimesOut, HandshakeTimesOut, Done,
         Answer, Refuse, Crash, Restart, SendStray
  <2>3. QED
    BY <2>1, <2>2
<1>6. Punctual' \subseteq Punctual
  <2>1. ASSUME NEW i \in Fitting, waited' + MaxRetries <= Timeout - (i - 1) * Share
        PROVE  waited + MaxRetries <= Timeout - (i - 1) * Share
    <3>1. (i - 1) * Share \in Nat
      BY Shares
    <3>2. QED
      BY <1>4, <1>5, <2>1, <3>1, ConstantsAre
  <2>2. QED
    BY <1>3, <2>1 DEF Punctual
<1> SUFFICES ASSUME smooth', Punctual # {}, OnCourse PROVE OnCourse'
  BY <1>1, <1>6 DEF Smooth
<1>7. Fitting # {}
  BY DEF Punctual
<1>8. ~refused /\ server = [up |-> TRUE, guid |-> 1]
  BY DEF OnCourse
<1>9. PerAttempt1 \in Nat /\ PerAttempt2 \in Nat /\ waited < MaxRetries * PerAttempt2
  BY <1>7, Adds, FitsStage2 DEF Room
<1>10. candidate \in Nat \ {0} /\ Spent(candidate, 0) \in Nat
  <2>1. candidate \in Nat \ {0}
    BY Numbers, ConstantsAre DEF TypeInv
  <2>2. QED
    BY <1>7, <2>1, Adds DEF Room
<1>11. ASSUME NEW addresses \in AddressLists, Resolve(addresses) PROVE OnCourse'
  <2>1. /\ pc = "resolve" /\ pc' = "send1"
        /\ UNCHANGED <<candidate, tries, clock, refused, requests, replies, server, waited>>
    BY <1>11 DEF Resolve
  <2>2. Spent(candidate', tries') = Spent(candidate, tries)
    BY <2>1
  <2>3. QED
    BY <1>3, <2>1, <2>2 DEF OnCourse, Stage1OnCourse, Quiet
<1>12. CASE SendRequest1
  <2>1. /\ pc = "send1" /\ Quiet /\ clock <= Spent(candidate, tries) + waited
        /\ tries < MaxRetries /\ \A i \in Fitting : candidate <= i
        /\ candidate \in Fitting => tries = 0
    BY <1>12 DEF SendRequest1, OnCourse, Stage1OnCourse
  <2>2. /\ candidate \in 1 .. Len(Candidates) + 1 /\ Len(Candidates) \in Nat
    BY Numbers, ConstantsAre DEF TypeInv
  <2>3. candidate \in Usable
    <3>1. PICK i \in Fitting : candidate <= i
      BY <1>7, <2>1
    <3>2. candidate <= Len(Candidates)
      BY <2>2, <3>1, FittingIs
    <3>3. QED
      BY <3>2 DEF TypeInv, HandshakeInv, Places
  <2>4. candidate \in Fitting <=> Candidates[candidate] <= path
    BY <2>3 DEF Fitting
  <2>5. /\ Spent(candidate, tries + 1) = Spent(candidate, tries) + PerAttempt1
        /\ Spent(candidate, tries) \in Nat
    BY <1>4, <1>7, <1>10, Adds DEF Room
  <2>6. UNCHANGED <<clock, replies, server, waited>>
    BY <1>12 DEF SendRequest1
  <2>7. /\ pc' = "wait1" /\ wait_until' = clock + PerAttempt1 /\ ~refused'
        /\ UNCHANGED <<candidate, tries>>
        /\ ~(Candidates[candidate] <= path) => requests' = requests
        /\ Candidates[candidate] <= path =>
             \E no \in Int : requests' = requests \cup
               {[stage |-> 1, mtu |-> Candidates[candidate], no |-> no]}
    BY <1>12, <2>1, SmoothSends DEF SendRequest1
  <2>8. CASE candidate \in Fitting
    <3>1. OneInFlight'
      BY <2>1, <2>4, <2>6, <2>7, <2>8 DEF OneInFlight, Offer, Quiet
    <3>2. clock' <= Spent(candidate', 0) + waited' /\ tries' = 0
      BY <2>1, <2>6, <2>7, <2>8
    <3>3. Stage1OnCourse'
      BY <1>3, <2>1, <2>7, <2>8, <3>1, <3>2 DEF Stage1OnCourse
    <3>4. QED
      BY <1>8, <2>6, <2>7, <3>3 DEF OnCourse
  <2>9. CASE candidate \notin Fitting
    <3>1. Quiet'
      BY <2>1, <2>4, <2>6, <2>7, <2>9 DEF Quiet
    <3>2. /\ clock' <= wait_until'
          /\ wait_until' <= Spent(candidate, tries + 1) + waited'
      BY <1>4, <1>9, <2>1, <2>5, <2>6, <2>7
    <3>3. Spent(candidate', tries' + 1) = Spent(candidate, tries + 1)
      BY <2>7
    <3>4. Stage1OnCourse'
      BY <1>3, <2>1, <2>7, <2>9, <3>1, <3>2, <3>3 DEF Stage1OnCourse
    <3>5. QED
      BY <1>8, <2>6, <2>7, <3>4 DEF OnCourse
  <2>10. QED
    BY <2>8, <2>9
<1>13. CASE SendRequest2
  <2>1. /\ pc = "send2" /\ Stage2OnCourse /\ tries * PerAttempt2 <= waited
    BY <1>13 DEF SendRequest2, OnCourse, Stage2OnCourse
  <2>2. UNCHANGED <<clock, replies, server, waited>>
    BY <1>13 DEF SendRequest2
  <2>3. /\ pc' = "wait2" /\ wait_until' = clock + PerAttempt2 /\ ~refused'
        /\ UNCHANGED <<candidate, tries, reply1>>
        /\ \E no \in Int :
             requests' = requests \cup {[stage |-> 2, mtu |-> reply1.mtu, no |-> no]}
    BY <1>13, SmoothSends DEF SendRequest2
  <2>4. Offer' = Offer /\ reply1 = Offer /\ Spent(candidate', 0) = Spent(candidate, 0)
    BY <2>1, <2>3 DEF Offer, Stage2OnCourse
  <2>5. AllOfStage2' /\ ~Quiet'
    <3>1. PICK no \in Int :
            requests' = requests \cup {[stage |-> 2, mtu |-> Offer.mtu, no |-> no]}
      BY <2>3, <2>4
    <3> DEFINE request == [stage |-> 2, mtu |-> Offer.mtu, no |-> no]
    <3>2. request.stage = 2 /\ request.mtu = Offer.mtu
          /\ requests' = requests \cup {request}
      BY <3>1
    <3> HIDE DEF request
    <3>3. ~Quiet'
      BY <3>2 DEF Quiet
    <3>4. AllOfStage2'
      BY <2>1, <2>2, <2>4, <3>2 DEF Stage2OnCourse, AllOfStage2
    <3>5. QED
      BY <3>3, <3>4
  <2>6. /\ clock' <= wait_until'
        /\ tries' * PerAttempt2 + PerAttempt2 <= waited' + (wait_until' - clock')
    <3>1. tries * PerAttempt2 \in Nat
      BY <1>4, <1>9, Times
    <3>2. QED
      BY <1>4, <1>9, <2>1, <2>2, <2>3, <3>1
  <2>7. Stage2OnCourse'
    BY <1>3, <2>1, <2>2, <2>3, <2>4, <2>5, <2>6 DEF Stage2OnCourse
  <2>8. QED
    BY <1>8, <2>2, <2>3, <2>7 DEF OnCourse
<1>14. ~GiveUp
  <2>1. ASSUME pc = "send1" PROVE ~StageOneExhausted
    <3>1. PICK i \in Fitting : candidate <= i
      BY <1>7, <2>1 DEF OnCourse, Stage1OnCourse
    <3>2. candidate <= Len(Candidates)
      BY <3>1, FittingIs, Numbers, ConstantsAre DEF TypeInv
    <3>3. QED
      BY <3>2, Numbers, ConstantsAre DEF StageOneExhausted, Room, TypeInv
  <2>2. pc = "send2" => tries # MaxRetries
    <3>1. pc = "send2" => tries * PerAttempt2 <= waited
      BY DEF OnCourse, Stage2OnCourse
    <3>2. MaxRetries * PerAttempt2 \in Nat
      BY <1>9, ConstantsAre
    <3>3. QED
      BY <1>4, <1>9, <3>1, <3>2
  <2>3. QED
    BY <2>1, <2>2 DEF GiveUp
<1>15. ASSUME NEW m \in replies, Receive(m) PROVE OnCourse'
  <2>1. /\ pc \in {"wait1", "wait2"} /\ replies' = replies \ {m}
        /\ UNCHANGED <<clock, refused, requests, server, waited>>
    BY <1>15 DEF Receive, Waiting
  <2>2. CASE pc = "wait1"
    <3>1. /\ requests = {} /\ replies = {m} /\ m.kind = "reply1" /\ m.param = Offer
          /\ candidate \in Fitting /\ clock <= Spent(candidate, 0) + waited
          /\ \A i \in Fitting : candidate <= i
      BY <2>2 DEF OnCourse, Stage1OnCourse, Quiet, OneInFlight
    <3>2. /\ pc' = "send2" /\ reply1' = Offer /\ tries' = 0 /\ candidate' = candidate
      BY <1>15, <2>2, <3>1 DEF Receive
    <3>3. Offer' = Offer /\ AllOfStage2' /\ Spent(candidate', 0) = Spent(candidate, 0)
      BY <2>1, <3>1, <3>2 DEF AllOfStage2, Offer
    <3>4. tries' * PerAttempt2 <= waited'
      BY <1>4, <1>9, <2>1, <3>2
    <3>5. Stage2OnCourse'
      BY <1>3, <2>1, <3>1, <3>2, <3>3, <3>4 DEF Stage2OnCourse
    <3>6. QED
      BY <1>8, <2>1, <3>2, <3>5 DEF OnCourse
  <2>3. CASE pc = "wait2"
    <3>1. m.kind = "reply2" /\ m.param = reply1
      BY <2>3 DEF OnCourse, Stage2OnCourse, AllOfStage2
    <3>2. Return("connected", m.param)
      BY <1>15, <2>3, <3>1 DEF Receive, Agrees
    <3>3. QED
      BY <1>8, <2>1, <3>2 DEF OnCourse, Return
  <2>4. QED
    BY <2>1, <2>2, <2>3
<1>16. ~SocketError
  BY <1>8 DEF SocketError
<1>17. CASE AttemptTimesOut
  <2>1. /\ Waiting /\ clock >= wait_until /\ AttemptOver
        /\ pc = "wait1" => Quiet
        /\ UNCHANGED <<clock, refused, requests, replies, server, path, waited>>
    BY <1>17 DEF AttemptTimesOut, OnItsWay, Quiet
  <2>2. QED
    BY <1>7, <1>9, <2>1, SmoothRetries1, SmoothRetries2 DEF Waiting
<1>18. ~HandshakeTimesOut
  <2>1. ASSUME HandshakeTimesOut PROVE FALSE
    <3>1. Waiting /\ clock >= Timeout
      BY <2>1 DEF HandshakeTimesOut
    <3>2. clock < Timeout
      BY <3>1, InTime
    <3>3. QED
      BY <1>4, <3>1, <3>2, ConstantsAre
  <2>2. QED
    BY <2>1
<1>19. CASE TimePasses
  <2>1. /\ clock < wait_until /\ clock' = clock + 1
        /\ waited' = IF Quiet THEN waited ELSE waited + 1
        /\ UNCHANGED <<client, refused, requests, replies, server>>
        /\ pc \in {"wait1", "wait2"}
    BY <1>19 DEF TimePasses, OnItsWay, Quiet, Waiting
  <2>2. clock' <= wait_until'
    BY <1>4, <2>1
  <2>3. /\ Quiet' = Quiet /\ Offer' = Offer
        /\ Spent(candidate', tries' + 1) = Spent(candidate, tries + 1)
        /\ Spent(candidate', 0) = Spent(candidate, 0)
    BY <2>1 DEF Quiet, Offer
  <2>4. OneInFlight' <=> OneInFlight
    BY <2>1 DEF OneInFlight, Offer
  <2>5. AllOfStage2' <=> AllOfStage2
    BY <2>1 DEF AllOfStage2, Offer
  <2>6. CASE pc = "wait1"
    <3>1. CASE Quiet
      <4>1. Stage1OnCourse
        BY <2>6 DEF OnCourse
      <4>2. candidate \notin Fitting
        BY <2>6, <3>1, <4>1 DEF Stage1OnCourse, Quiet, OneInFlight
      <4>3. waited' = waited
        BY <2>1, <3>1
      <4>4. Stage1OnCourse'
        BY <1>3, <2>1, <2>2, <2>3, <2>6, <3>1, <4>1, <4>2, <4>3 DEF Stage1OnCourse
      <4>5. QED
        BY <1>8, <2>1, <2>6, <4>4 DEF OnCourse
    <3>2. CASE ~Quiet
      <4>1. Stage1OnCourse
        BY <2>6 DEF OnCourse
      <4>2. /\ candidate \in Fitting /\ OneInFlight
            /\ clock <= Spent(candidate, 0) + waited
        BY <2>6, <3>2, <4>1 DEF Stage1OnCourse
      <4>3. clock' <= Spent(candidate', 0) + waited'
        BY <1>4, <1>10, <2>1, <2>3, <3>2, <4>2
      <4>4. Stage1OnCourse'
        BY <1>3, <2>1, <2>4, <2>6, <4>1, <4>2, <4>3 DEF Stage1OnCourse
      <4>5. QED
        BY <1>8, <2>1, <2>6, <4>4 DEF OnCourse
    <3>3. QED
      BY <3>1, <3>2
  <2>7. CASE pc = "wait2"
    <3>1. Stage2OnCourse /\ ~Quiet
      BY <2>7 DEF OnCourse, Stage2OnCourse
    <3>2. waited' = waited + 1
      BY <2>1, <3>1
    <3>3. clock' <= Spent(candidate', 0) + waited'
      BY <1>4, <1>10, <2>1, <2>3, <3>1, <3>2 DEF Stage2OnCourse
    <3>4. tries' * PerAttempt2 + PerAttempt2 <= waited' + (wait_until' - clock')
      <4>1. tries * PerAttempt2 + PerAttempt2 <= waited + (wait_until - clock)
        BY <2>7, <3>1 DEF Stage2OnCourse
      <4>2. waited + (wait_until - clock) = waited' + (wait_until' - clock')
            /\ tries' = tries
        BY <1>4, <2>1, <3>2
      <4>3. QED
        BY <4>1, <4>2
    <3>5. Stage2OnCourse'
      BY <1>3, <2>1, <2>2, <2>3, <2>5, <2>7, <3>1, <3>3, <3>4 DEF Stage2OnCourse
    <3>6. QED
      BY <1>8, <2>1, <2>7, <3>5 DEF OnCourse
  <2>8. QED
    BY <2>1, <2>6, <2>7
<1>20. ASSUME NEW r \in requests, Answer(r) PROVE OnCourse'
  <2> DEFINE reply == [ kind |-> IF r.stage = 1 THEN "reply1" ELSE "reply2",
                        param |-> [guid |-> server.guid, mtu |-> r.mtu],
                        no |-> r.no ]
  <2>1. /\ requests' = requests \ {r}
        /\ replies' = replies \cup {reply}
        /\ UNCHANGED <<client, clock, refused, server, waited>>
        /\ pc # "done"
    BY <1>20 DEF Answer
  <2>2. /\ Offer' = Offer /\ Spent(candidate', 0) = Spent(candidate, 0)
        /\ server.guid = 1
    BY <1>8, <2>1 DEF Offer
  <2>3. CASE pc \in {"resolve", "send1"}
    BY <2>3 DEF OnCourse, Stage1OnCourse, Quiet
  <2>4. CASE pc = "wait1"
    <3>1. Stage1OnCourse /\ ~Quiet
      BY <2>4 DEF OnCourse, Quiet
    <3>2. /\ candidate \in Fitting /\ OneInFlight
          /\ clock <= Spent(candidate, 0) + waited
      BY <2>4, <3>1 DEF Stage1OnCourse
    <3>3. PICK no \in Int : requests = {[stage |-> 1, mtu |-> Offer.mtu, no |-> no]}
                            /\ replies = {}
      BY <3>2 DEF OneInFlight
    <3>4. reply = [kind |-> "reply1", param |-> Offer, no |-> no]
      BY <2>2, <3>3 DEF Offer
    <3>5. OneInFlight'
      BY <2>1, <2>2, <3>3, <3>4 DEF OneInFlight
    <3>6. Stage1OnCourse'
      BY <1>3, <2>1, <2>2, <2>4, <3>1, <3>2, <3>5 DEF Stage1OnCourse
    <3>7. QED
      BY <1>8, <2>1, <2>4, <3>6 DEF OnCourse
  <2>5. CASE pc \in {"send2", "wait2"}
    <3>1. Stage2OnCourse
      BY <2>5 DEF OnCourse
    <3>2. reply.kind = "reply2" /\ reply.param = Offer
      BY <2>2, <3>1 DEF Stage2OnCourse, AllOfStage2, Offer
    <3> HIDE DEF reply
    <3>3. AllOfStage2' /\ ~Quiet'
      BY <2>1, <2>2, <3>1, <3>2 DEF Stage2OnCourse, AllOfStage2, Quiet
    <3>4. Stage2OnCourse'
      BY <1>3, <2>1, <2>2, <2>5, <3>1, <3>3 DEF Stage2OnCourse
    <3>5. QED
      BY <1>8, <2>1, <2>5, <3>4 DEF OnCourse
  <2>6. QED
    BY <2>1, <2>3, <2>4, <2>5 DEF TypeInv, TypeOK
<1>21. ASSUME NEW r \in requests, Refuse(r) PROVE FALSE
  BY <1>8, <1>21 DEF Refuse
<1>22. ~Crash /\ ~Restart
  BY <1>8 DEF Crash, Restart
<1>23. ASSUME NEW packet \in StrayPackets, SendStray(packet) PROVE FALSE
  BY <1>23 DEF SendStray
<1>24. CASE UNCHANGED vars
  <2>1. /\ Quiet' = Quiet /\ Offer' = Offer
        /\ Spent(candidate', tries' + 1) = Spent(candidate, tries + 1)
        /\ Spent(candidate', tries') = Spent(candidate, tries)
        /\ Spent(candidate', 0) = Spent(candidate, 0)
    BY <1>24 DEF vars, Quiet, Offer
  <2>2. OneInFlight' <=> OneInFlight
    BY <1>24 DEF vars, OneInFlight, Offer
  <2>3. AllOfStage2' <=> AllOfStage2
    BY <1>24 DEF vars, AllOfStage2, Offer
  <2>4. Stage1OnCourse => Stage1OnCourse'
    BY <1>3, <1>24, <2>1, <2>2 DEF vars, Stage1OnCourse
  <2>5. Stage2OnCourse => Stage2OnCourse'
    BY <1>3, <1>24, <2>1, <2>3 DEF vars, Stage2OnCourse
  <2>6. QED
    BY <1>24, <2>4, <2>5 DEF vars, OnCourse
<1>25. QED
  BY <1>11, <1>12, <1>13, <1>14, <1>15, <1>16, <1>17, <1>18, <1>19, <1>20, <1>21,
     <1>22, <1>23, <1>24 DEF Next, Done

(***************************************************************************)
(* A server that is up is reached over a network whose answers take no more *)
(* than the time that is left when a candidate fits the path, each of those *)
(* before it having had its even share of the timeout                       *)
(* (conn.rs:549-553, 592-593).  The code does not see to the share: Floor   *)
(* makes an attempt last 500 ms whatever the timeout is, and Room says that *)
(* it does not matter.  RoomForAll gives a condition that is easily         *)
(* checked, and that the default configuration meets: three candidates of   *)
(* three attempts, and 10 s.                                                *)
(***************************************************************************)
THEOREM SmoothConnects ==
  ASSUME Room
  PROVE  Spec => []SmoothRunsConnect
<1>1. Init => TypeInv /\ Smooth
  BY TypeInit, SmoothInit DEF Room
<1>2. TypeInv /\ Smooth /\ [Next]_vars => (TypeInv /\ Smooth)'
  BY TypeNext, SmoothNext
<1>3. Smooth => SmoothRunsConnect
  BY DEF Smooth, OnCourse, SmoothRunsConnect, Punctual
<1>4. QED
  BY <1>1, <1>2, <1>3, PTL DEF Spec
=============================================================================
