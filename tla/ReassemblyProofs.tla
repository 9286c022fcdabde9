-------------------------- MODULE ReassemblyProofs --------------------------
(***************************************************************************)
(* Theorems about Reassembly, for every number of payloads below a turn of  *)
(* the order indices, every length and every behaviour of the network.      *)
(***************************************************************************)
EXTENDS Reassembly, DatagramLemmas, FiniteSetTheorems, SequenceTheorems

Templates == [kind : {"Reliable", "ReliableOrdered"}, order_index : Int]
Sendings  == [template : Templates, length : Nat \ {0}, id : Ids \cup {NoIndex}]
Bodies    == Seq(Nat \X Nat)

IsOrdered(t) == t.kind = "ReliableOrdered"

\* Ordered payloads have order indices of their own, and only split payloads
\* have a split id.
SentShape ==
    /\ sent \in Seq(Sendings) /\ Len(sent) <= MaxSend
    /\ next_datagram_seq \in SeqNums
    /\ next_order_index \in 0 .. Len(sent)
    /\ \A p \in DOMAIN sent :
         /\ IF IsOrdered(sent[p].template)
            THEN sent[p].template.order_index \in 0 .. next_order_index - 1
            ELSE sent[p].template.order_index = NoIndex
         /\ sent[p].length = 1 <=> sent[p].id = NoIndex
    /\ \A p, q \in DOMAIN sent :
         /\ IsOrdered(sent[p].template)
         /\ sent[p].template.order_index = sent[q].template.order_index
         => p = q

\* The frames there are: of payload p the i-th.
FrameOf(p, i) ==
    [ template |-> sent[p].template, is_split |-> sent[p].length # 1,
      count |-> IF sent[p].length = 1 THEN 0 ELSE sent[p].length,
      id |-> IF sent[p].length = 1 THEN 0 ELSE sent[p].id,
      index |-> i - 1, body |-> << <<p, i>> >> ]

Frames == UNION { { FrameOf(p, i) : i \in 1 .. sent[p].length } : p \in DOMAIN sent }

FramesTrue ==
    /\ outbox \in Seq(Frames)
    /\ \A d \in datagrams : d.frames \in Seq(Frames)
    /\ current.frames \in Seq(Frames)
    /\ next_frame \in Nat \ {0}

\* A group holds fragments of payloads with its split id, under indices below
\* its count, and the template of one of these payloads.
GroupTrue(id, g) ==
    /\ g.count \in Nat
    /\ DOMAIN g.fragments \subseteq 0 .. g.count - 1
    /\ DOMAIN g.fragments # {}
    /\ \E q \in DOMAIN sent : sent[q].id = id /\ g.template = sent[q].template
    /\ \A i \in DOMAIN g.fragments :
         \E q \in DOMAIN sent : /\ sent[q].id = id /\ sent[q].length = g.count
                                /\ g.fragments[i] = <<q, i + 1>>

GroupsTrue ==
    \A id \in DOMAIN reassemblers :
        /\ id \in Ids
        /\ GroupTrue(id, reassemblers[id])
        /\ ~Complete(reassemblers[id])

\* A body is a payload, or holds a chunk of one whose split id was used twice.
BodyTrue(body) ==
    \/ \E p \in DOMAIN sent : body = Whole(p)
    \/ \E i \in DOMAIN body : body[i][1] \in DOMAIN sent /\ ~OwnId(body[i][1])

\* The body under order index i.
OrderedTrue(i, body) ==
    \A p \in DOMAIN sent :
        OwnId(p) /\ sent[p].template.order_index = i => body = Whole(p)

BodiesTrue ==
    /\ delivered \in Seq(Bodies)
    /\ \A i \in DOMAIN delivered : BodyTrue(delivered[i])
    /\ \A body \in returned : BodyTrue(body)
    /\ \A i \in DOMAIN order_queue : /\ i \in 0 .. next_order_index - 1
                                     /\ order_queue[i] \in Bodies
                                     /\ OrderedTrue(i, order_queue[i])
    /\ released \in Seq(Bodies)
    /\ Len(released) = next_delivery_order_index
    /\ Len(released) <= next_order_index
    /\ \A n \in DOMAIN released : OrderedTrue(n - 1, released[n])

Inv == SentShape /\ FramesTrue /\ GroupsTrue /\ BodiesTrue

-----------------------------------------------------------------------------
LEMMA InitInv == Init => Inv
<1> SUFFICES ASSUME Init PROVE Inv
  OBVIOUS
<1> USE DEF Init
<1>1. SentShape
  BY ReassemblyAssumption, ModType DEF SentShape, Sendings
<1>2. FramesTrue
  BY DEF FramesTrue, NoDatagram
<1>3. GroupsTrue
  BY DEF GroupsTrue
<1>4. BodiesTrue
  BY DEF BodiesTrue
<1>5. QED
  BY <1>1, <1>2, <1>3, <1>4 DEF Inv

(***************************************************************************)
(* A new payload: nothing that was true of the old ones changes.            *)
(***************************************************************************)
LEMMA SubmitShape ==
  ASSUME MaxSend < Mod, SentShape, NEW kind \in Kinds, NEW length \in Lengths,
         Submit(kind, length), next_datagram_seq' \in SeqNums
  PROVE  /\ SentShape'
         /\ Len(sent') = Len(sent) + 1
         /\ DOMAIN sent' = DOMAIN sent \cup {Len(sent) + 1}
         /\ \A p \in DOMAIN sent : sent'[p] = sent[p]
         /\ sent'[Len(sent) + 1].template = Template(kind)
         /\ sent'[Len(sent) + 1].length = length
         /\ sent'[Len(sent) + 1].id = IF length > 1 THEN SplitId ELSE NoIndex
         /\ next_order_index' \in next_order_index .. Len(sent')
<1> DEFINE new == [ template |-> Template(kind), length |-> length,
                    id |-> IF length > 1 THEN SplitId ELSE NoIndex ]
           P   == Len(sent) + 1
<1>1. /\ sent \in Seq(Sendings) /\ Len(sent) \in Nat
      /\ DOMAIN sent = 1 .. Len(sent)
      /\ Len(sent) < MaxSend
  BY DEF SentShape, Submit
<1>2. SplitId \in Ids /\ length \in Nat \ {0}
  BY <1>1, ReassemblyAssumption, ModType DEF SplitId, Ids, SentShape, SeqNums
<1>3. Template(kind) \in Templates
  BY <1>1, ReassemblyAssumption DEF Template, Templates, SentShape, NoIndex
<1>4. new \in Sendings
  BY <1>2, <1>3 DEF Sendings
<1>5. sent' = Append(sent, new)
  BY DEF Submit
<1>6. /\ sent' \in Seq(Sendings)
      /\ Len(sent') = P
      /\ DOMAIN sent' = DOMAIN sent \cup {P}
      /\ \A p \in DOMAIN sent : sent'[p] = sent[p]
      /\ sent'[P] = new
  <2> HIDE DEF new
  <2>1. QED
    BY <1>1, <1>4, <1>5
<1>7. /\ next_order_index \in Nat /\ next_order_index <= Len(sent)
      /\ next_order_index' = IF kind = "ReliableOrdered"
                             THEN next_order_index + 1 ELSE next_order_index
  <2>1. next_order_index \in Nat /\ next_order_index <= Len(sent)
    BY <1>1 DEF SentShape
  <2>2. SeqInc(next_order_index) = next_order_index + 1
    BY <1>1, <2>1, ReassemblyAssumption, ModType DEF SeqInc
  <2>3. next_order_index' = IF kind = "ReliableOrdered"
                            THEN SeqInc(next_order_index) ELSE next_order_index
    BY DEF Submit
  <2>4. QED
    BY <2>1, <2>2, <2>3
<1>8. next_order_index' \in next_order_index .. P
  BY <1>1, <1>7
<1>9. /\ new.template.kind = kind
      /\ new.template.order_index = IF kind = "ReliableOrdered"
                                    THEN next_order_index ELSE NoIndex
      /\ new.length = 1 <=> new.id = NoIndex
  BY <1>2 DEF Template, NoIndex, Ids
<1> HIDE DEF new
<1>10. \A p \in DOMAIN sent' :
         /\ IF IsOrdered(sent'[p].template)
            THEN sent'[p].template.order_index \in 0 .. next_order_index' - 1
            ELSE sent'[p].template.order_index = NoIndex
         /\ sent'[p].length = 1 <=> sent'[p].id = NoIndex
  <2> SUFFICES ASSUME NEW p \in DOMAIN sent'
               PROVE  /\ IF IsOrdered(sent'[p].template)
                         THEN sent'[p].template.order_index
                                \in 0 .. next_order_index' - 1
                         ELSE sent'[p].template.order_index = NoIndex
                      /\ sent'[p].length = 1 <=> sent'[p].id = NoIndex
    OBVIOUS
  <2>1. CASE p = P
    <3>1. sent'[p].length = 1 <=> sent'[p].id = NoIndex
      BY <2>1, <1>6, <1>9
    <3>2. QED
      BY <2>1, <3>1, <1>6, <1>7, <1>9 DEF IsOrdered
  <2>2. CASE p \in DOMAIN sent
    <3>1. sent[p].length = 1 <=> sent[p].id = NoIndex
      BY <2>2 DEF SentShape
    <3>2. IF IsOrdered(sent[p].template)
          THEN sent[p].template.order_index \in 0 .. next_order_index - 1
          ELSE sent[p].template.order_index = NoIndex
      BY <2>2 DEF SentShape
    <3>3. QED
      BY <2>2, <3>1, <3>2, <1>6, <1>7
  <2>3. QED
    BY <2>1, <2>2, <1>6
<1>11. \A p, q \in DOMAIN sent' :
         /\ IsOrdered(sent'[p].template)
         /\ sent'[p].template.order_index = sent'[q].template.order_index
         => p = q
  <2> SUFFICES ASSUME NEW p \in DOMAIN sent', NEW q \in DOMAIN sent',
                      IsOrdered(sent'[p].template),
                      sent'[p].template.order_index = sent'[q].template.order_index,
                      p # q
               PROVE  FALSE
    OBVIOUS
  <2>1. CASE p \in DOMAIN sent /\ q \in DOMAIN sent
    BY <2>1, <1>6 DEF SentShape
  <2>2. CASE p = P /\ q \in DOMAIN sent
    <3>1. sent'[p].template.order_index = next_order_index
      BY <2>2, <1>6, <1>9 DEF IsOrdered
    <3>2. \/ sent[q].template.order_index \in 0 .. next_order_index - 1
          \/ sent[q].template.order_index = NoIndex
      BY <2>2 DEF SentShape
    <3>3. QED
      BY <2>2, <3>1, <3>2, <1>6, <1>7 DEF NoIndex
  <2>3. CASE p \in DOMAIN sent /\ q = P
    <3>1. sent[p].template.order_index \in 0 .. next_order_index - 1
      BY <2>3, <1>6 DEF SentShape
    <3>2. sent'[q].template.order_index \in {next_order_index, NoIndex}
      BY <2>3, <1>6, <1>9
    <3>3. QED
      BY <2>3, <3>1, <3>2, <1>6, <1>7 DEF NoIndex
  <2>4. QED
    BY <2>1, <2>2, <2>3, <1>6
<1>12. next_order_index' \in 0 .. Len(sent') /\ Len(sent') <= MaxSend
  BY <1>1, <1>6, <1>7, <1>8, ReassemblyAssumption
<1>13. SentShape'
  BY <1>6, <1>10, <1>11, <1>12 DEF SentShape
<1>14. QED
  BY <1>6, <1>8, <1>9, <1>13 DEF new

LEMMA OldPayloads ==
  ASSUME SentShape, NEW P,
         DOMAIN sent' = DOMAIN sent \cup {P},
         \A p \in DOMAIN sent : sent'[p] = sent[p]
  PROVE  /\ Frames \subseteq Frames'
         /\ \A p \in DOMAIN sent : Whole(p)' = Whole(p)
         /\ \A p \in DOMAIN sent : OwnId(p)' => OwnId(p)
         /\ \A body : BodyTrue(body) => BodyTrue(body)'
         /\ \A id, g : GroupTrue(id, g) => GroupTrue(id, g)'
<1>1. \A p \in DOMAIN sent : \A i : FrameOf(p, i)' = FrameOf(p, i)
  BY DEF FrameOf
<1>2. Frames \subseteq Frames'
  <2> SUFFICES ASSUME NEW p \in DOMAIN sent, NEW i \in 1 .. sent[p].length
               PROVE  FrameOf(p, i) \in Frames'
    BY DEF Frames
  <2>1. p \in DOMAIN sent' /\ i \in 1 .. sent'[p].length
    OBVIOUS
  <2>2. FrameOf(p, i)' \in Frames'
    BY <2>1 DEF Frames
  <2>3. QED
    BY <1>1, <2>2
<1>3. \A p \in DOMAIN sent : Whole(p)' = Whole(p)
  BY DEF Whole
<1>4. \A p \in DOMAIN sent : OwnId(p)' => OwnId(p)
  BY DEF OwnId
<1>5. ASSUME NEW body, BodyTrue(body) PROVE BodyTrue(body)'
  BY <1>3, <1>4, <1>5 DEF BodyTrue
<1>6. ASSUME NEW id, NEW g, GroupTrue(id, g) PROVE GroupTrue(id, g)'
  <2>1. \E q \in DOMAIN sent' : /\ sent'[q].id = id
                                /\ g.template = sent'[q].template
    BY <1>6 DEF GroupTrue
  <2>2. ASSUME NEW i \in DOMAIN g.fragments
        PROVE  \E q \in DOMAIN sent' : /\ sent'[q].id = id
                                       /\ sent'[q].length = g.count
                                       /\ g.fragments[i] = <<q, i + 1>>
    <3>1. PICK q \in DOMAIN sent : /\ sent[q].id = id
                                   /\ sent[q].length = g.count
                                   /\ g.fragments[i] = <<q, i + 1>>
      BY <1>6 DEF GroupTrue
    <3>2. QED
      BY <3>1
  <2>3. QED
    BY <1>6, <2>1, <2>2 DEF GroupTrue
<1>7. QED
  BY <1>2, <1>3, <1>4, <1>5, <1>6

(* The order index of an ordered body names a payload sent before it.       *)
LEMMA OldIndices ==
  ASSUME SentShape,
         DOMAIN sent' = DOMAIN sent \cup {Len(sent) + 1},
         \A p \in DOMAIN sent : sent'[p] = sent[p],
         NEW kind, sent'[Len(sent) + 1].template = Template(kind),
         NEW i \in 0 .. next_order_index - 1, NEW body, OrderedTrue(i, body)
  PROVE  OrderedTrue(i, body)'
<1> SUFFICES ASSUME NEW p \in DOMAIN sent', OwnId(p)',
                    sent'[p].template.order_index = i
             PROVE  body = Whole(p)'
  BY DEF OrderedTrue
<1>1. next_order_index \in Nat
  BY DEF SentShape
<1>2. p # Len(sent) + 1
  BY <1>1 DEF Template, NoIndex
<1>3. p \in DOMAIN sent
  BY <1>2
<1>4. QED
  BY <1>3, OldPayloads DEF OrderedTrue

(* What split_into makes of a payload are its frames.                       *)
LEMMA NewFramesTrue ==
  ASSUME MaxSend < Mod, SentShape, NEW kind \in Kinds, NEW length \in Lengths,
         Submit(kind, length), next_datagram_seq' \in SeqNums
  PROVE  NewFrames(kind, length) \in Seq(Frames')
<1>0. PICK P \in Nat : P = Len(sent) + 1
  BY DEF SentShape
<1> DEFINE body == [ i \in 1 .. length |-> <<P, i>> ]
<1>1. /\ length \in Nat \ {0}
      /\ Len(body) = length
      /\ \A i \in 1 .. length : body[i] = <<P, i>>
      /\ NewFrames(kind, length) = SplitInto(Template(kind), body, SplitId)
  BY <1>0, ReassemblyAssumption DEF NewFrames
<1>2. /\ P \in DOMAIN sent'
      /\ sent'[P].template = Template(kind)
      /\ sent'[P].length = length
      /\ sent'[P].id = IF length > 1 THEN SplitId ELSE NoIndex
  BY <1>0, SubmitShape
<1>3. \A i \in 1 .. length : FrameOf(P, i)' \in Frames'
  BY <1>2 DEF Frames
<1>4. ASSUME NEW i
      PROVE  FrameOf(P, i)' =
        [ template |-> Template(kind), is_split |-> length # 1,
          count |-> IF length = 1 THEN 0 ELSE length,
          id |-> IF length = 1 THEN 0
                 ELSE IF length > 1 THEN SplitId ELSE NoIndex,
          index |-> i - 1, body |-> << <<P, i>> >> ]
  BY <1>2, Zenon DEF FrameOf
<1>5. CASE length = 1
  <2>1. body = << <<P, 1>> >>
    BY <1>5
  <2> HIDE DEF body
  <2>2. SplitInto(Template(kind), body, SplitId) =
          << [template |-> Template(kind), is_split |-> FALSE, count |-> 0,
              id |-> 0, index |-> 0, body |-> body] >>
    BY <1>1, <1>5 DEF SplitInto
  <2>3. (length # 1) = FALSE /\ 1 - 1 = 0
    BY <1>5
  <2>4. FrameOf(P, 1)' =
          [template |-> Template(kind), is_split |-> FALSE, count |-> 0,
           id |-> 0, index |-> 0, body |-> body]
    BY <1>4, <1>5, <2>1, <2>3, Zenon
  <2>5. FrameOf(P, 1)' \in Frames'
    BY <1>3, <1>5
  <2>6. NewFrames(kind, length) = << FrameOf(P, 1)' >>
    BY <1>1, <2>2, <2>4, Zenon
  <2>7. QED
    BY <2>5, <2>6
<1>6. CASE length # 1
  <2> HIDE DEF body
  <2>1. (length # 1) = TRUE /\ length > 1 /\ ~(Len(body) <= 1)
    BY <1>1, <1>6
  <2>2. SplitInto(Template(kind), body, SplitId) =
          [ i \in 1 .. Len(body) |->
              [template |-> Template(kind), is_split |-> TRUE,
               count |-> Len(body), id |-> SplitId, index |-> i - 1,
               body |-> << body[i] >>] ]
    BY <2>1, Zenon DEF SplitInto
  <2>3. ASSUME NEW i \in 1 .. length
        PROVE  FrameOf(P, i)' =
          [template |-> Template(kind), is_split |-> TRUE,
           count |-> Len(body), id |-> SplitId, index |-> i - 1,
           body |-> << body[i] >>]
    <3>1. body[i] = <<P, i>>
      BY <1>1
    <3>2. QED
      BY <1>1, <1>4, <1>6, <2>1, <3>1, Zenon
  <2>4. NewFrames(kind, length) = [ i \in 1 .. length |-> FrameOf(P, i)' ]
    BY <1>1, <2>2, <2>3, Zenon
  <2>5. QED
    BY <1>1, <1>3, <2>4
<1>7. QED
  BY <1>5, <1>6


(* Everything but the new frames themselves is untouched by a Submit.       *)
LEMMA SubmitKeeps ==
  ASSUME MaxSend < Mod, Inv, NEW kind \in Kinds, NEW length \in Lengths,
         Submit(kind, length), next_datagram_seq' \in SeqNums,
         UNCHANGED <<engine, call, given>>
  PROVE  /\ SentShape' /\ GroupsTrue' /\ BodiesTrue'
         /\ Frames \subseteq Frames'
         /\ current'.frames \in Seq(Frames') /\ next_frame' \in Nat \ {0}
<1> USE DEF engine, call, given
<1>1. /\ SentShape'
      /\ DOMAIN sent' = DOMAIN sent \cup {Len(sent) + 1}
      /\ \A p \in DOMAIN sent : sent'[p] = sent[p]
      /\ sent'[Len(sent) + 1].template = Template(kind)
      /\ next_order_index' \in next_order_index .. Len(sent')
  BY SubmitShape DEF Inv
<1>2. /\ Frames \subseteq Frames'
      /\ \A body : BodyTrue(body) => BodyTrue(body)'
      /\ \A id, g : GroupTrue(id, g) => GroupTrue(id, g)'
  BY <1>1, OldPayloads DEF Inv
<1>3. \A i \in 0 .. next_order_index - 1 : \A body :
        OrderedTrue(i, body) => OrderedTrue(i, body)'
  BY <1>1, OldIndices DEF Inv
<1>4. GroupsTrue'
  BY <1>2 DEF Inv, GroupsTrue
<1>5. /\ next_order_index \in Nat /\ next_order_index' \in Nat
      /\ next_order_index <= next_order_index'
  BY <1>1 DEF Inv, SentShape
<1>6. BodiesTrue'
  <2>1. /\ \A i \in DOMAIN delivered : BodyTrue(delivered[i])'
        /\ \A body \in returned : BodyTrue(body)'
    BY <1>2 DEF Inv, BodiesTrue
  <2>2. \A i \in DOMAIN order_queue : /\ i \in 0 .. next_order_index' - 1
                                      /\ order_queue[i] \in Bodies
                                      /\ OrderedTrue(i, order_queue[i])'
    BY <1>3, <1>5 DEF Inv, BodiesTrue
  <2>3. ASSUME NEW n \in DOMAIN released
        PROVE  OrderedTrue(n - 1, released[n])'
    <3>1. n - 1 \in 0 .. next_order_index - 1
      BY <1>5 DEF Inv, BodiesTrue
    <3>2. OrderedTrue(n - 1, released[n])
      BY DEF Inv, BodiesTrue
    <3>3. QED
      BY <1>3, <3>1, <3>2
  <2>4. Len(released') <= next_order_index'
    BY <1>5 DEF Inv, BodiesTrue
  <2>5. QED
    BY <2>1, <2>2, <2>3, <2>4 DEF Inv, BodiesTrue
<1>7. current'.frames \in Seq(Frames') /\ next_frame' \in Nat \ {0}
  <2>1. current.frames \in Seq(Frames) /\ next_frame \in Nat \ {0}
    BY DEF Inv, FramesTrue
  <2>2. current.frames \in Seq(Frames')
    BY <1>2, <2>1, SeqMonotonic
  <2>3. QED
    BY <2>1, <2>2
<1>8. QED
  BY <1>1, <1>2, <1>4, <1>6, <1>7

LEMMA PrepareSendKeeps ==
  ASSUME MaxSend < Mod, Inv, NEW kind \in Kinds, NEW length \in Lengths,
         PrepareSend(kind, length)
  PROVE  Inv'
<1>1. next_datagram_seq' \in SeqNums
  BY SeqIncType DEF PrepareSend, Transmit, Inv, SentShape
<1>2. Submit(kind, length) /\ UNCHANGED <<engine, call, given>>
  BY DEF PrepareSend
<1>3. /\ SentShape' /\ GroupsTrue' /\ BodiesTrue' /\ Frames \subseteq Frames'
      /\ current'.frames \in Seq(Frames') /\ next_frame' \in Nat \ {0}
  BY <1>1, <1>2, SubmitKeeps
<1>4. NewFrames(kind, length) \in Seq(Frames')
  BY <1>1, <1>2, NewFramesTrue DEF Inv
<1>5. outbox' \in Seq(Frames')
  <2>1. outbox' = outbox
    BY DEF PrepareSend
  <2>2. QED
    BY <1>3, <2>1, SeqMonotonic DEF Inv, FramesTrue
<1>6. ASSUME NEW d \in datagrams' PROVE d.frames \in Seq(Frames')
  <2>1. d \in datagrams \/ d.frames = NewFrames(kind, length)
    BY DEF PrepareSend, Transmit
  <2>2. CASE d \in datagrams
    BY <2>2, <1>3, SeqMonotonic DEF Inv, FramesTrue
  <2>3. QED
    BY <1>4, <2>1, <2>2
<1>7. QED
  BY <1>3, <1>5, <1>6 DEF Inv, FramesTrue

LEMMA ServerTakesKeeps ==
  ASSUME MaxSend < Mod, Inv, NEW kind \in Kinds, NEW length \in Lengths,
         ServerTakes(kind, length)
  PROVE  Inv'
<1>1. next_datagram_seq' \in SeqNums
  BY DEF ServerTakes, Inv, SentShape
<1>2. Submit(kind, length) /\ UNCHANGED <<engine, call, given>>
  BY DEF ServerTakes
<1>3. /\ SentShape' /\ GroupsTrue' /\ BodiesTrue' /\ Frames \subseteq Frames'
      /\ current'.frames \in Seq(Frames') /\ next_frame' \in Nat \ {0}
  BY <1>1, <1>2, SubmitKeeps
<1>4. NewFrames(kind, length) \in Seq(Frames')
  BY <1>1, <1>2, NewFramesTrue DEF Inv
<1>5. outbox' \in Seq(Frames')
  <2>1. outbox' = outbox \o NewFrames(kind, length)
    BY DEF ServerTakes
  <2>2. outbox \in Seq(Frames')
    BY <1>3, SeqMonotonic DEF Inv, FramesTrue
  <2>3. QED
    BY <1>4, <2>1, <2>2
<1>6. ASSUME NEW d \in datagrams' PROVE d.frames \in Seq(Frames')
  <2>1. d \in datagrams
    BY DEF ServerTakes
  <2>2. QED
    BY <2>1, <1>3, SeqMonotonic DEF Inv, FramesTrue
<1>7. QED
  BY <1>3, <1>5, <1>6 DEF Inv, FramesTrue

LEMMA SameSent ==
  ASSUME UNCHANGED sent
  PROVE  /\ Frames' = Frames
         /\ \A p : Whole(p)' = Whole(p)
         /\ \A p : OwnId(p)' <=> OwnId(p)
         /\ \A body : BodyTrue(body)' <=> BodyTrue(body)
         /\ \A i, body : OrderedTrue(i, body)' <=> OrderedTrue(i, body)
         /\ \A id, g : GroupTrue(id, g)' <=> GroupTrue(id, g)
<1>1. Frames' = Frames
  <2>1. sent' = sent
    OBVIOUS
  <2>2. QED
    BY <2>1 DEF Frames, FrameOf
<1>2. \A p : Whole(p)' = Whole(p)
  BY DEF Whole
<1>3. \A p : OwnId(p)' <=> OwnId(p)
  BY DEF OwnId
<1>4. \A body : BodyTrue(body)' <=> BodyTrue(body)
  BY <1>2, <1>3 DEF BodyTrue
<1>5. \A i, body : OrderedTrue(i, body)' <=> OrderedTrue(i, body)
  BY <1>2, <1>3 DEF OrderedTrue
<1>6. \A id, g : GroupTrue(id, g)' <=> GroupTrue(id, g)
  BY DEF GroupTrue
<1>7. QED
  BY <1>1, <1>2, <1>3, <1>4, <1>5, <1>6

LEMMA ServerSendsKeeps ==
  ASSUME Inv, NEW n \in 1 .. MaxFrames, ServerSends(n)
  PROVE  Inv'
<1> USE DEF ServerSends, Transmit, engine, call, given
<1>1. SentShape'
  BY SeqIncType DEF Inv, SentShape
<1>2. GroupsTrue' /\ BodiesTrue'
  BY SameSent DEF Inv, GroupsTrue, BodiesTrue
<1>3. /\ n \in Nat /\ n <= Len(outbox) /\ outbox \in Seq(Frames)
      /\ Frames' = Frames
  BY SameSent, ReassemblyAssumption DEF Inv, FramesTrue
<1>4. /\ SubSeq(outbox, 1, n) \in Seq(Frames)
      /\ SubSeq(outbox, n + 1, Len(outbox)) \in Seq(Frames)
  BY <1>3
<1>5. FramesTrue'
  BY <1>3, <1>4 DEF Inv, FramesTrue
<1>6. QED
  BY <1>1, <1>2, <1>5 DEF Inv

LEMMA StartReceiveKeeps ==
  ASSUME Inv, NEW d \in datagrams, StartReceive(d)
  PROVE  Inv'
<1> USE DEF StartReceive, sender
<1>1. SentShape'
  BY DEF Inv, SentShape
<1>2. GroupsTrue' /\ BodiesTrue'
  BY SameSent DEF Inv, GroupsTrue, BodiesTrue
<1>3. FramesTrue'
  BY SameSent DEF Inv, FramesTrue
<1>4. QED
  BY <1>1, <1>2, <1>3 DEF Inv
-----------------------------------------------------------------------------
(***************************************************************************)
(* The receiving call.                                                      *)
(***************************************************************************)

(* The frame in hand is a payload's.                                        *)
LEMMA FrameInHand ==
  ASSUME Inv, InCall
  PROVE  /\ NextFrame \in Frames
         /\ \E p \in DOMAIN sent : \E i \in 1 .. sent[p].length :
               NextFrame = FrameOf(p, i)
<1>1. current.frames \in Seq(Frames) /\ next_frame \in 1 .. Len(current.frames)
  BY DEF Inv, FramesTrue, InCall
<1>2. NextFrame \in Frames
  BY <1>1 DEF NextFrame
<1>3. QED
  BY <1>2 DEF Frames

(* route_frame, of a body that is what it should be.                        *)
LEMMA RouteKeeps ==
  ASSUME Inv, NEW q \in DOMAIN sent, NEW body \in Bodies,
         BodyTrue(body),
         IsOrdered(sent[q].template)
           => OrderedTrue(sent[q].template.order_index, body),
         Route(sent[q].template, body), Proceed
  PROVE  SentShape' /\ FramesTrue' /\ BodiesTrue'
<1> USE DEF Proceed, sender, given
<1>1. SentShape'
  BY DEF Inv, SentShape
<1>2. FramesTrue'
  BY SameSent DEF Inv, FramesTrue
<1> DEFINE t == sent[q].template
<1>3. CASE IsOrdered(t)
  <2>1. t.order_index \in 0 .. next_order_index - 1
    BY <1>3 DEF Inv, SentShape
  <2>2. /\ delivered' = delivered
        /\ order_queue' = [ i \in DOMAIN order_queue \cup {t.order_index} |->
                              IF i = t.order_index THEN body
                              ELSE order_queue[i] ]
    BY <1>3 DEF Route, IsOrdered
  <2> HIDE DEF t
  <2>3. ASSUME NEW i \in DOMAIN order_queue'
        PROVE  /\ i \in 0 .. next_order_index - 1
               /\ order_queue'[i] \in Bodies
               /\ OrderedTrue(i, order_queue'[i])
    <3>1. CASE i = t.order_index
      BY <3>1, <1>3, <2>1, <2>2 DEF t
    <3>2. CASE i # t.order_index
      BY <3>2, <2>2 DEF Inv, BodiesTrue
    <3>3. QED
      BY <3>1, <3>2
  <2>4. QED
    BY <1>1, <1>2, <2>2, <2>3, SameSent DEF Inv, BodiesTrue
<1>4. CASE ~IsOrdered(t)
  <2>1. /\ delivered' = Append(delivered, body)
        /\ order_queue' = order_queue
    BY <1>4 DEF Route, IsOrdered
  <2>2. /\ delivered' \in Seq(Bodies)
        /\ \A i \in DOMAIN delivered' : BodyTrue(delivered'[i])
    <3>1. /\ delivered \in Seq(Bodies)
          /\ \A i \in DOMAIN delivered : BodyTrue(delivered[i])
      BY DEF Inv, BodiesTrue
    <3>2. QED
      BY <2>1, <3>1
  <2>3. QED
    BY <1>1, <1>2, <2>1, <2>2, SameSent DEF Inv, BodiesTrue
<1>5. QED
  BY <1>3, <1>4

LEMMA HandleWholeFrameKeeps ==
  ASSUME Inv, HandleWholeFrame
  PROVE  Inv'
<1>0. PICK p \in DOMAIN sent :
        \E i \in 1 .. sent[p].length : NextFrame = FrameOf(p, i)
  BY FrameInHand DEF HandleWholeFrame
<1>1. PICK i \in 1 .. sent[p].length : NextFrame = FrameOf(p, i)
  BY <1>0
<1>2. sent[p].length = 1
  BY <1>1 DEF HandleWholeFrame, FrameOf
<1>3. /\ NextFrame.template = sent[p].template
      /\ NextFrame.body = << <<p, 1>> >>
  BY <1>1, <1>2 DEF FrameOf
<1>4. Whole(p) = << <<p, 1>> >>
  BY <1>2 DEF Whole
<1>5. Whole(p) \in Bodies /\ BodyTrue(Whole(p))
  BY <1>4 DEF Bodies, BodyTrue, Inv, SentShape
<1>6. IsOrdered(sent[p].template)
        => OrderedTrue(sent[p].template.order_index, Whole(p))
  BY DEF OrderedTrue, Inv, SentShape
<1>7. Route(sent[p].template, Whole(p)) /\ Proceed /\ UNCHANGED reassemblers
  BY <1>3, <1>4 DEF HandleWholeFrame
<1>8. SentShape' /\ FramesTrue' /\ BodiesTrue'
  BY <1>5, <1>6, <1>7, RouteKeeps
<1>9. GroupsTrue'
  BY <1>7, SameSent DEF Proceed, Inv, GroupsTrue
<1>10. QED
  BY <1>8, <1>9 DEF Inv

(* A fragment in hand that add takes: its group with it added.              *)
LEMMA AddedTrue ==
  ASSUME Inv, InCall, NextFrame.is_split,
         ~AddFails(Group(NextFrame), NextFrame)
  PROVE  /\ NextFrame.id \in Ids
         /\ GroupTrue(NextFrame.id, Added(Group(NextFrame), NextFrame))
<1>1. PICK p \in DOMAIN sent :
        \E i \in 1 .. sent[p].length : NextFrame = FrameOf(p, i)
  BY FrameInHand
<1>2. PICK i \in 1 .. sent[p].length : NextFrame = FrameOf(p, i)
  BY <1>1
<1>3. PICK f : f = NextFrame
  OBVIOUS
<1>4. sent[p].length # 1
  BY <1>2 DEF FrameOf
<1>5. /\ f.template = sent[p].template /\ f.count = sent[p].length
      /\ f.id = sent[p].id /\ f.index = i - 1 /\ f.body[1] = <<p, i>>
  BY <1>2, <1>3, <1>4 DEF FrameOf
<1>6. /\ sent[p].length \in Nat \ {0} /\ i \in Nat
      /\ sent[p].id \in Ids
  <2>1. sent[p] \in Sendings /\ (sent[p].length = 1 <=> sent[p].id = NoIndex)
    BY DEF Inv, SentShape
  <2>2. QED
    BY <2>1, <1>4 DEF Sendings
<1>7. PICK g : g = Group(f)
  OBVIOUS
<1>8. ~AddFails(g, f)
  BY <1>3, <1>7
<1>9. PICK h : h = Added(g, f)
  OBVIOUS
<1>10. /\ h.template = g.template /\ h.count = f.count
       /\ DOMAIN h.fragments = DOMAIN g.fragments \cup {f.index}
       /\ h.fragments[f.index] = f.body[1]
       /\ \A j \in DOMAIN g.fragments : j # f.index
            => h.fragments[j] = g.fragments[j]
  BY <1>9 DEF Added
<1>11. CASE f.id \in DOMAIN reassemblers
  <2>1. g = reassemblers[f.id] /\ GroupTrue(f.id, g)
    BY <1>7, <1>11 DEF Group, Inv, GroupsTrue
  <2>2. DOMAIN g.fragments # {}
    BY <2>1 DEF GroupTrue
  <2>3. g.fragments # << >>
    BY <2>2
  <2>4. g.count = f.count
    BY <1>8, <2>3 DEF AddFails
  <2>5. DOMAIN h.fragments \subseteq 0 .. h.count - 1
    <3>1. DOMAIN g.fragments \subseteq 0 .. g.count - 1
      BY <2>1 DEF GroupTrue
    <3>2. f.index \in 0 .. f.count - 1
      BY <1>5, <1>6
    <3>3. QED
      BY <1>10, <2>4, <3>1, <3>2
  <2>6. \E q \in DOMAIN sent : sent[q].id = f.id /\ h.template = sent[q].template
    BY <1>10, <2>1 DEF GroupTrue
  <2>7. ASSUME NEW j \in DOMAIN h.fragments
        PROVE  \E q \in DOMAIN sent : /\ sent[q].id = f.id
                                      /\ sent[q].length = h.count
                                      /\ h.fragments[j] = <<q, j + 1>>
    <3>1. CASE j = f.index
      <4>1. h.fragments[j] = <<p, j + 1>>
        BY <3>1, <1>5, <1>6, <1>10
      <4>2. sent[p].id = f.id /\ sent[p].length = h.count
        BY <1>5, <1>10
      <4>3. QED
        BY <4>1, <4>2
    <3>2. CASE j # f.index
      <4>1. j \in DOMAIN g.fragments /\ h.fragments[j] = g.fragments[j]
        BY <3>2, <1>10
      <4>2. \E q \in DOMAIN sent : /\ sent[q].id = f.id
                                   /\ sent[q].length = g.count
                                   /\ g.fragments[j] = <<q, j + 1>>
        BY <2>1, <4>1 DEF GroupTrue
      <4>3. QED
        BY <1>10, <2>4, <4>1, <4>2
    <3>3. QED
      BY <3>1, <3>2
  <2>8. h.count \in Nat /\ DOMAIN h.fragments # {}
    BY <1>5, <1>6, <1>10
  <2>9. GroupTrue(f.id, h)
    BY <2>5, <2>6, <2>7, <2>8 DEF GroupTrue
  <2>10. QED
    BY <2>9, <1>3, <1>5, <1>6, <1>7, <1>9
<1>12. CASE f.id \notin DOMAIN reassemblers
  <2>1. g = [template |-> f.template, count |-> 0, fragments |-> << >>]
    BY <1>7, <1>12 DEF Group
  <2>2. g.template = f.template /\ DOMAIN g.fragments = {}
    BY <2>1
  <2>3. DOMAIN h.fragments = {i - 1} /\ h.fragments[i - 1] = <<p, i>>
    BY <1>5, <1>10, <2>2
  <2>4. /\ h.count = sent[p].length /\ h.template = sent[p].template
        /\ sent[p].id = f.id
    BY <1>5, <1>10, <2>2
  <2>5. /\ h.count \in Nat /\ DOMAIN h.fragments # {}
        /\ DOMAIN h.fragments \subseteq 0 .. h.count - 1
    BY <1>6, <2>3, <2>4
  <2>6. ASSUME NEW j \in DOMAIN h.fragments
        PROVE  \E q \in DOMAIN sent : /\ sent[q].id = f.id
                                      /\ sent[q].length = h.count
                                      /\ h.fragments[j] = <<q, j + 1>>
    <3>1. j = i - 1 /\ j + 1 = i
      BY <1>6, <2>3
    <3>2. h.fragments[j] = <<p, j + 1>>
      BY <2>3, <3>1
    <3>3. QED
      BY <2>4, <3>2
  <2>7. GroupTrue(f.id, h)
    BY <2>4, <2>5, <2>6 DEF GroupTrue
  <2>8. QED
    BY <2>7, <1>3, <1>5, <1>6, <1>7, <1>9
<1>13. QED
  BY <1>11, <1>12

LEMMA KeepFragmentKeeps ==
  ASSUME Inv, KeepFragment
  PROVE  Inv'
<1> USE DEF Proceed, sender, given
<1>1. PICK f, g : /\ f = NextFrame /\ g = Added(Group(NextFrame), NextFrame)
  OBVIOUS
<1>2. /\ InCall /\ NextFrame.is_split
      /\ ~AddFails(Group(NextFrame), NextFrame)
      /\ ~Complete(g)
      /\ reassemblers' = [ i \in DOMAIN reassemblers \cup {f.id} |->
                             IF i = f.id THEN g ELSE reassemblers[i] ]
      /\ UNCHANGED <<order_queue, delivered>> /\ Proceed
  BY <1>1 DEF KeepFragment
<1>3. f.id \in Ids /\ GroupTrue(f.id, g)
  BY <1>1, <1>2, AddedTrue
<1>4. SentShape'
  BY <1>2 DEF Inv, SentShape
<1>5. FramesTrue'
  BY <1>2, SameSent DEF Inv, FramesTrue
<1>6. BodiesTrue'
  BY <1>2, SameSent DEF Inv, BodiesTrue
<1>7. GroupsTrue'
  <2>1. \A id, h : GroupTrue(id, h)' <=> GroupTrue(id, h)
    BY <1>2, SameSent
  <2>2. ASSUME NEW id \in DOMAIN reassemblers'
        PROVE  /\ id \in Ids /\ GroupTrue(id, reassemblers'[id])
               /\ ~Complete(reassemblers'[id])
    <3>1. CASE id = f.id
      BY <3>1, <1>2, <1>3
    <3>2. CASE id # f.id
      <4>1. id \in DOMAIN reassemblers /\ reassemblers'[id] = reassemblers[id]
        BY <3>2, <1>2
      <4>2. QED
        BY <4>1 DEF Inv, GroupsTrue
    <3>3. QED
      BY <3>1, <3>2
  <2>3. QED
    BY <2>1, <2>2 DEF GroupsTrue, Complete
<1>8. QED
  BY <1>4, <1>5, <1>6, <1>7 DEF Inv

(* A complete group has all its fragments.                                  *)
LEMMA CompleteHasAll ==
  ASSUME NEW id, NEW g, GroupTrue(id, g), Complete(g)
  PROVE  DOMAIN g.fragments = 0 .. g.count - 1 /\ g.count \in Nat \ {0}
<1>1. /\ g.count \in Nat /\ DOMAIN g.fragments \subseteq 0 .. g.count - 1
      /\ DOMAIN g.fragments # {}
  BY DEF GroupTrue
<1>2. /\ IsFiniteSet(0 .. g.count - 1)
      /\ Cardinality(0 .. g.count - 1) = g.count
  <2>1. PICK b \in Int : b = g.count - 1
    BY <1>1
  <2>2. IsFiniteSet(0 .. b) /\ Cardinality(0 .. b) = IF 0 > b THEN 0 ELSE b - 0 + 1
    BY FS_Interval
  <2>3. QED
    BY <1>1, <2>1, <2>2
<1>3. DOMAIN g.fragments = 0 .. g.count - 1
  BY <1>1, <1>2, FS_Subset DEF Complete
<1>4. QED
  BY <1>1, <1>3

LEMMA AssembledTrue ==
  ASSUME SentShape, NEW id \in Ids, NEW g, GroupTrue(id, g), Complete(g)
  PROVE  /\ Assembled(g) \in Bodies
         /\ BodyTrue(Assembled(g))
         /\ \A q \in DOMAIN sent :
              sent[q].id = id /\ OwnId(q) => Assembled(g) = Whole(q)
         /\ \E q \in DOMAIN sent :
              /\ sent[q].id = id
              /\ g.template = sent[q].template
              /\ IsOrdered(sent[q].template)
                   => OrderedTrue(sent[q].template.order_index, Assembled(g))
<1>1. DOMAIN g.fragments = 0 .. g.count - 1 /\ g.count \in Nat \ {0}
  BY CompleteHasAll
<1>2. PICK body : body = Assembled(g)
  OBVIOUS
<1>3. /\ body = [ i \in 1 .. g.count |-> g.fragments[i - 1] ]
      /\ DOMAIN body = 1 .. g.count
  BY <1>2 DEF Assembled
<1>4. ASSUME NEW i \in 1 .. g.count
      PROVE  \E q \in DOMAIN sent : /\ sent[q].id = id
                                    /\ sent[q].length = g.count
                                    /\ body[i] = <<q, i>>
  <2>1. i - 1 \in DOMAIN g.fragments /\ i - 1 + 1 = i
    BY <1>1
  <2>2. body[i] = g.fragments[i - 1]
    BY <1>3
  <2>3. QED
    BY <2>1, <2>2 DEF GroupTrue
<1>5. DOMAIN sent \subseteq Nat /\ id # NoIndex
  BY DEF SentShape, Ids, NoIndex
<1>6. body \in Bodies
  <2>1. ASSUME NEW i \in 1 .. g.count PROVE body[i] \in Nat \X Nat
    <3>1. PICK q \in DOMAIN sent : body[i] = <<q, i>>
      BY <1>4
    <3>2. q \in Nat /\ i \in Nat
      BY <1>1, <1>5
    <3>3. QED
      BY <3>1, <3>2
  <2>2. PICK S : S = Nat \X Nat
    OBVIOUS
  <2>3. \A i \in 1 .. g.count : body[i] \in S
    BY <2>1, <2>2
  <2>4. PICK n \in Nat : n = g.count
    BY <1>1
  <2>5. DOMAIN body = 1 .. n /\ body = [i \in 1 .. n |-> body[i]]
    BY <1>3, <2>4
  <2>6. body \in [1 .. n -> S]
    BY <2>3, <2>4, <2>5
  <2>7. body \in Seq(S)
    BY <2>6, SeqDef
  <2>8. QED
    BY <2>2, <2>7 DEF Bodies
\* If one of the chunks is of a payload whose id is its own, all of them are.
<1>7. ASSUME NEW q \in DOMAIN sent, sent[q].id = id, OwnId(q)
      PROVE  body = Whole(q)
  <2>1. \A i \in 1 .. g.count : sent[q].length = g.count /\ body[i] = <<q, i>>
    <3> SUFFICES ASSUME NEW i \in 1 .. g.count
                 PROVE  sent[q].length = g.count /\ body[i] = <<q, i>>
      OBVIOUS
    <3>1. PICK r \in DOMAIN sent : /\ sent[r].id = id
                                   /\ sent[r].length = g.count
                                   /\ body[i] = <<r, i>>
      BY <1>4
    <3>2. r = q
      BY <1>5, <1>7, <3>1 DEF OwnId
    <3>3. QED
      BY <3>1, <3>2
  <2>2. sent[q].length = g.count
    BY <1>1, <2>1
  <2>3. QED
    BY <1>3, <2>1, <2>2 DEF Whole
<1>8. BodyTrue(body)
  <2>1. PICK q \in DOMAIN sent : sent[q].id = id /\ body[1] = <<q, 1>>
    BY <1>1, <1>4
  <2>2. CASE OwnId(q)
    BY <1>7, <2>1, <2>2 DEF BodyTrue
  <2>3. CASE ~OwnId(q)
    <3>1. body[1][1] = q
      BY <2>1
    <3>2. 1 \in DOMAIN body
      BY <1>1, <1>3
    <3>3. QED
      BY <2>3, <3>1, <3>2 DEF BodyTrue
  <2>4. QED
    BY <2>2, <2>3
<1>9. PICK q \in DOMAIN sent : sent[q].id = id /\ g.template = sent[q].template
  BY DEF GroupTrue
<1>10. ASSUME IsOrdered(sent[q].template)
       PROVE  OrderedTrue(sent[q].template.order_index, body)
  <2> SUFFICES ASSUME NEW p \in DOMAIN sent, OwnId(p),
                      sent[p].template.order_index = sent[q].template.order_index
               PROVE  body = Whole(p)
    BY DEF OrderedTrue
  <2>1. p = q
    BY <1>10 DEF SentShape
  <2>2. QED
    BY <1>7, <1>9, <2>1
<1>11. QED
  BY <1>2, <1>6, <1>7, <1>8, <1>9, <1>10

LEMMA WithoutGroupKeeps ==
  ASSUME Inv, NEW id, UNCHANGED sent, reassemblers' = WithoutGroup(id)
  PROVE  GroupsTrue'
<1>1. \A i, h : GroupTrue(i, h)' <=> GroupTrue(i, h)
  BY SameSent
<1>2. \A i \in DOMAIN reassemblers' :
         i \in DOMAIN reassemblers /\ reassemblers'[i] = reassemblers[i]
  BY DEF WithoutGroup
<1>3. QED
  BY <1>1, <1>2 DEF Inv, GroupsTrue, Complete

LEMMA CompleteGroupKeeps ==
  ASSUME Inv, CompleteGroup
  PROVE  Inv'
<1>1. PICK f, g : /\ f = NextFrame /\ g = Added(Group(NextFrame), NextFrame)
  OBVIOUS
<1>2. /\ InCall /\ NextFrame.is_split
      /\ ~AddFails(Group(NextFrame), NextFrame)
      /\ Complete(g)
      /\ reassemblers' = WithoutGroup(f.id)
      /\ Route(g.template, Assembled(g))
      /\ Proceed
  BY <1>1 DEF CompleteGroup
<1>3. f.id \in Ids /\ GroupTrue(f.id, g)
  BY <1>1, <1>2, AddedTrue
<1>4. /\ Assembled(g) \in Bodies
      /\ BodyTrue(Assembled(g))
      /\ \E q \in DOMAIN sent :
           /\ g.template = sent[q].template
           /\ IsOrdered(sent[q].template)
                => OrderedTrue(sent[q].template.order_index, Assembled(g))
  BY <1>2, <1>3, AssembledTrue DEF Inv
<1>5. SentShape' /\ FramesTrue' /\ BodiesTrue'
  BY <1>2, <1>4, RouteKeeps
<1>6. GroupsTrue'
  BY <1>2, WithoutGroupKeeps DEF Proceed
<1>7. QED
  BY <1>5, <1>6 DEF Inv

LEMMA FailReceiveKeeps ==
  ASSUME Inv, FailReceive
  PROVE  Inv'
<1> USE DEF FailReceive, sender
<1>1. SentShape'
  BY DEF Inv, SentShape
<1>2. FramesTrue'
  BY SameSent DEF Inv, FramesTrue, NoDatagram
<1>3. GroupsTrue'
  BY WithoutGroupKeeps
<1>4. BodiesTrue'
  BY SameSent DEF Inv, BodiesTrue
<1>5. QED
  BY <1>1, <1>2, <1>3, <1>4 DEF Inv

(* drain_ordered: what leaves the queue has the next indices.  The indices  *)
(* in use end below a turn of the circle, so the loop never wraps.          *)
LEMMA DrainIs ==
  ASSUME MaxSend < Mod, Inv,
         NEW run, run = RunLength(DOMAIN order_queue, next_delivery_order_index)
  PROVE  /\ run \in Nat
         /\ next_delivery_order_index + run <= next_order_index
         /\ next_delivery_order_index \in Nat
         /\ SeqAdd(next_delivery_order_index, run)
              = next_delivery_order_index + run
         /\ \A i \in 1 .. run :
              /\ SeqAdd(next_delivery_order_index, i - 1)
                   = next_delivery_order_index + i - 1
              /\ next_delivery_order_index + i - 1 \in DOMAIN order_queue
<1> DEFINE next == next_delivery_order_index
           N    == next_order_index
<1>1. /\ N \in Nat /\ N < Mod /\ Mod \in Nat
      /\ next \in Nat /\ next <= N
  BY ModType, ReassemblyAssumption DEF Inv, SentShape, BodiesTrue
<1>2. \A i \in DOMAIN order_queue : i \in 0 .. N - 1
  BY DEF Inv, BodiesTrue
<1>3. /\ run \in 0 .. Mod
      /\ \A i \in 0 .. run - 1 : SeqAdd(next, i) \in DOMAIN order_queue
  BY RunLengthIs DEF IsRunLength
<1> HIDE DEF next, N
<1>4. next + run <= N
  <2> SUFFICES ASSUME next + run > N PROVE FALSE
    BY <1>1, <1>3
  <2>1. N - next \in 0 .. run - 1
    BY <1>1, <1>3
  <2>2. SeqAdd(next, N - next) = N
    BY <1>1 DEF SeqAdd
  <2>3. N \in DOMAIN order_queue
    BY <1>3, <2>1, <2>2
  <2>4. QED
    BY <1>1, <1>2, <2>3
<1>5. \A i \in 1 .. run : /\ SeqAdd(next, i - 1) = next + i - 1
                          /\ next + i - 1 \in DOMAIN order_queue
  <2> SUFFICES ASSUME NEW i \in 1 .. run
               PROVE  /\ SeqAdd(next, i - 1) = next + i - 1
                      /\ next + i - 1 \in DOMAIN order_queue
    OBVIOUS
  <2>1. SeqAdd(next, i - 1) = next + i - 1
    BY <1>1, <1>3, <1>4 DEF SeqAdd
  <2>2. SeqAdd(next, i - 1) \in DOMAIN order_queue
    BY <1>3
  <2>3. QED
    BY <2>1, <2>2
<1>6. SeqAdd(next, run) = next + run
  BY <1>1, <1>3, <1>4 DEF SeqAdd
<1>7. QED
  BY <1>1, <1>3, <1>4, <1>5, <1>6 DEF next, N

LEMMA FinishReceiveKeeps ==
  ASSUME MaxSend < Mod, Inv, FinishReceive
  PROVE  Inv'
<1>1. PICK run : run = RunLength(DOMAIN order_queue, next_delivery_order_index)
  OBVIOUS
<1>2. PICK next, new :
        /\ next = next_delivery_order_index
        /\ new = [ i \in 1 .. run |-> order_queue[SeqAdd(next, i - 1)] ]
  OBVIOUS
<1>3. /\ run \in Nat /\ next \in Nat /\ next + run <= next_order_index
      /\ SeqAdd(next, run) = next + run
      /\ \A i \in 1 .. run : /\ SeqAdd(next, i - 1) = next + i - 1
                             /\ next + i - 1 \in DOMAIN order_queue
  BY <1>1, <1>2, DrainIs
<1>4. /\ released' = released \o new
      /\ order_queue' =
           [ i \in DOMAIN order_queue \ RunOf(DOMAIN order_queue, next)
               |-> order_queue[i] ]
      /\ next_delivery_order_index' = next + run
      /\ returned' = returned \cup { delivered[i] : i \in DOMAIN delivered }
      /\ current' = NoDatagram /\ next_frame' = 1 /\ delivered' = << >>
      /\ UNCHANGED <<sender, recv_window, pending_acks, reassemblers,
                     datagrams, sent, arrived, repeats, failed>>
  BY <1>1, <1>2, <1>3, Zenon DEF FinishReceive
<1>5. /\ new \in Seq(Bodies) /\ Len(new) = run
      /\ \A i \in 1 .. run : OrderedTrue(next + i - 1, new[i])
  <2>1. \A i \in 1 .. run : /\ new[i] = order_queue[next + i - 1]
                            /\ next + i - 1 \in DOMAIN order_queue
    BY <1>2, <1>3
  <2>2. \A i \in 1 .. run : /\ new[i] \in Bodies
                            /\ OrderedTrue(next + i - 1, new[i])
    BY <2>1 DEF Inv, BodiesTrue
  <2>3. new \in [1 .. run -> Bodies]
    BY <1>2, <2>2
  <2>4. new \in Seq(Bodies)
    BY <1>3, <2>3, SeqDef
  <2>5. DOMAIN new = 1 .. run
    BY <1>2
  <2>6. Len(new) = run
    BY <1>3, <2>4, <2>5
  <2>7. QED
    BY <2>2, <2>4, <2>6
<1>6. SentShape'
  BY <1>4 DEF sender, Inv, SentShape
<1>7. FramesTrue'
  BY <1>4, SameSent DEF sender, Inv, FramesTrue, NoDatagram
<1>8. GroupsTrue'
  BY <1>4, SameSent DEF Inv, GroupsTrue, Complete
<1>9. /\ released' \in Seq(Bodies)
      /\ Len(released') = next_delivery_order_index'
      /\ \A n \in DOMAIN released' : OrderedTrue(n - 1, released'[n])
  <2>1. /\ released \in Seq(Bodies) /\ Len(released) = next
        /\ \A n \in DOMAIN released : OrderedTrue(n - 1, released[n])
    BY <1>2 DEF Inv, BodiesTrue
  <2>2. /\ released' \in Seq(Bodies)
        /\ Len(released') = next + run
        /\ DOMAIN released' = 1 .. next + run
        /\ \A n \in 1 .. next + run :
             released'[n] = IF n <= next THEN released[n] ELSE new[n - next]
    <3>1. PICK B : B = Bodies
      OBVIOUS
    <3>2. released \in Seq(B) /\ new \in Seq(B) /\ Len(new) = run
      BY <1>5, <2>1, <3>1
    <3>3. released' = released \o new
      BY <1>4
    <3>4. released' \in Seq(B) /\ Len(released') = next + run
      <4>1. released \o new \in Seq(B) /\ Len(released \o new) = Len(released) + Len(new)
        BY <3>2, ConcatProperties
      <4>2. QED
        BY <2>1, <3>2, <3>3, <4>1
    <3>5. \A n \in 1 .. next + run :
             released'[n] = IF n <= next THEN released[n] ELSE new[n - next]
      BY <2>1, <3>2, <3>3, ConcatProperties
    <3>6. DOMAIN released' = 1 .. next + run
      BY <3>4
    <3>7. QED
      BY <3>1, <3>4, <3>5, <3>6
  <2>3. ASSUME NEW n \in DOMAIN released'
        PROVE  OrderedTrue(n - 1, released'[n])
    <3>1. CASE n <= next
      <4>1. n \in DOMAIN released /\ released'[n] = released[n]
        BY <3>1, <1>3, <2>1, <2>2
      <4>2. QED
        BY <4>1, <2>1
    <3>2. CASE ~(n <= next)
      <4>1. /\ n - next \in 1 .. run /\ released'[n] = new[n - next]
            /\ next + (n - next) - 1 = n - 1
        BY <3>2, <1>3, <2>2
      <4>2. QED
        BY <4>1, <1>5
    <3>3. QED
      BY <3>1, <3>2
  <2>4. QED
    BY <1>4, <2>2, <2>3
<1>10. \A body \in returned' : BodyTrue(body)
  BY <1>4 DEF Inv, BodiesTrue
<1>11. \A i \in DOMAIN order_queue' : /\ i \in 0 .. next_order_index - 1
                                      /\ order_queue'[i] \in Bodies
                                      /\ OrderedTrue(i, order_queue'[i])
  BY <1>4 DEF Inv, BodiesTrue
<1>12. BodiesTrue'
  <2>1. next_order_index' = next_order_index
    BY <1>4 DEF sender
  <2>2. Len(released') <= next_order_index'
    BY <1>3, <1>4, <1>9, <2>1
  <2>3. delivered' \in Seq(Bodies) /\ DOMAIN delivered' = {}
    BY <1>4
  <2>4. /\ \A body : BodyTrue(body)' <=> BodyTrue(body)
        /\ \A i, body : OrderedTrue(i, body)' <=> OrderedTrue(i, body)
    BY <1>4, SameSent
  <2>5. QED
    BY <1>9, <1>10, <1>11, <2>1, <2>2, <2>3, <2>4 DEF BodiesTrue
<1>13. QED
  BY <1>6, <1>7, <1>8, <1>12 DEF Inv

LEMMA StutterKeeps ==
  ASSUME Inv, UNCHANGED vars
  PROVE  Inv'
<1> USE DEF vars, sender, engine, call, given
<1>1. SentShape'
  BY DEF Inv, SentShape
<1>2. FramesTrue'
  BY SameSent DEF Inv, FramesTrue
<1>3. GroupsTrue'
  BY SameSent DEF Inv, GroupsTrue, Complete
<1>4. BodiesTrue'
  BY SameSent DEF Inv, BodiesTrue
<1>5. QED
  BY <1>1, <1>2, <1>3, <1>4 DEF Inv

LEMMA InvHolds == ASSUME MaxSend < Mod PROVE Spec => []Inv
<1>1. ASSUME Inv, [Next]_vars PROVE Inv'
  <2>1. CASE Next
    BY <1>1, <2>1, PrepareSendKeeps, ServerTakesKeeps, ServerSendsKeeps,
       StartReceiveKeeps, HandleWholeFrameKeeps, KeepFragmentKeeps,
       CompleteGroupKeeps, FailReceiveKeeps, FinishReceiveKeeps DEF Next
  <2>2. QED
    BY <1>1, <2>1, StutterKeeps
<1>2. QED
  BY InitInv, <1>1, PTL DEF Spec
-----------------------------------------------------------------------------
(***************************************************************************)
(* Whatever is lost, repeated, reordered or broken off, and whatever the    *)
(* packing: an ordered payload that is returned is returned whole and at    *)
(* its place (Frame::split_into, Reassembler, drain_ordered), provided its  *)
(* split id was its own.  The order indices stay below a turn.              *)
(***************************************************************************)
THEOREM SplitOrdered == ASSUME MaxSend < Mod PROVE Spec => []WholeInOrder
<1>1. Inv => WholeInOrder
  <2> SUFFICES ASSUME Inv, NEW p \in DOMAIN sent, OwnId(p),
                      sent[p].template.order_index + 1 \in DOMAIN released
               PROVE  released[sent[p].template.order_index + 1] = Whole(p)
    BY DEF WholeInOrder
  <2>1. PICK n : n = sent[p].template.order_index + 1
    OBVIOUS
  <2>2. sent[p].template.order_index \in Int
    <3>1. sent[p] \in Sendings
      BY DEF Inv, SentShape
    <3>2. sent[p].template \in Templates
      BY <3>1 DEF Sendings
    <3>3. QED
      BY <3>2 DEF Templates
  <2>3. OrderedTrue(n - 1, released[n]) /\ n - 1 = sent[p].template.order_index
    BY <2>1, <2>2 DEF Inv, BodiesTrue
  <2>4. QED
    BY <2>1, <2>3 DEF OrderedTrue
<1>2. QED
  BY <1>1, InvHolds, PTL

(***************************************************************************)
(* An unordered payload that is returned was sent, or holds a chunk of a    *)
(* payload whose split id another one has too: the reassembler never mixes  *)
(* payloads with ids of their own.                                          *)
(***************************************************************************)
THEOREM SplitUnordered == ASSUME MaxSend < Mod PROVE Spec => []WholeUnordered
<1>1. Inv => WholeUnordered
  BY DEF Inv, BodiesTrue, BodyTrue, WholeUnordered
<1>2. QED
  BY <1>1, InvHolds, PTL
-----------------------------------------------------------------------------
(***************************************************************************)
(* What a failing call costs.  The chunks that have been handled, of a      *)
(* payload with an id of its own that no failed datagram carries, are in    *)
(* their group, until the whole payload has left the reassembler.           *)
(***************************************************************************)
Safe(p) == OwnId(p) /\ \A d \in failed : ~Carries(d, p)

ChunkIn(d, p, i) == \E f \in FramesOf(d) : f.body[1] = <<p, i>>

ChunkDone(p, i) == \E d \in arrived \ {current} : ChunkIn(d, p, i)

ChunkInHand(p, i) ==
    \E j \in DOMAIN current.frames :
        j < next_frame /\ current.frames[j].body[1] = <<p, i>>

InGroup(p, i) ==
    /\ sent[p].length # 1
    /\ sent[p].id \in DOMAIN reassemblers
    /\ i - 1 \in DOMAIN reassemblers[sent[p].id].fragments

\* Out of the reassembler for good.
Out(p) ==
    IF IsOrdered(sent[p].template)
    THEN \/ sent[p].template.order_index \in DOMAIN order_queue
         \/ sent[p].template.order_index < next_delivery_order_index
    ELSE Whole(p) \in returned

\* Out of it, but the call may still fail.
OutInHand(p) ==
    /\ ~IsOrdered(sent[p].template)
    /\ \E j \in DOMAIN delivered : delivered[j] = Whole(p)

Placed ==
    \A p \in DOMAIN sent : Safe(p) =>
        \A i \in 1 .. sent[p].length :
            ChunkDone(p, i) \/ ChunkInHand(p, i)
              => Out(p) \/ OutInHand(p) \/ InGroup(p, i)

DoneAreOut ==
    \A p \in DOMAIN sent :
        Safe(p) /\ (\A i \in 1 .. sent[p].length : ChunkDone(p, i)) => Out(p)

\* What the call is about to return came from a frame of its datagram.
InHandCarried ==
    \A j \in DOMAIN delivered :
        \E i \in DOMAIN delivered[j] : Carries(current, delivered[j][i][1])

CostInv == arrived \subseteq datagrams /\ Placed /\ DoneAreOut /\ InHandCarried

LEMMA InitCost == Init => CostInv
BY DEF Init, CostInv, Placed, DoneAreOut, InHandCarried, ChunkDone, ChunkInHand,
       NoDatagram

(* Every payload has a chunk.                                               *)
LEMMA LengthIs ==
  ASSUME SentShape, NEW p \in DOMAIN sent
  PROVE  /\ sent[p].length \in Nat \ {0} /\ 1 \in 1 .. sent[p].length
         /\ 1 .. sent[p].length \subseteq Nat
<1>1. sent[p] \in Sendings
  BY DEF SentShape
<1>2. sent[p].length \in Nat \ {0}
  BY <1>1 DEF Sendings
<1>3. QED
  BY <1>2

(* Frames that exist are frames of payloads that were sent.                 *)
LEMMA ChunksSent ==
  ASSUME Inv, CostInv, NEW p, NEW i, ChunkDone(p, i) \/ ChunkInHand(p, i)
  PROVE  p \in DOMAIN sent
<1>1. ASSUME NEW f \in Frames, f.body[1] = <<p, i>>
      PROVE  p \in DOMAIN sent
  <2>1. PICK q \in DOMAIN sent : \E k \in 1 .. sent[q].length : f = FrameOf(q, k)
    BY <1>1 DEF Frames
  <2>2. PICK k \in 1 .. sent[q].length : f = FrameOf(q, k)
    BY <2>1
  <2>3. f.body[1] = <<q, k>>
    BY <2>2 DEF FrameOf
  <2>4. QED
    BY <1>1, <2>3
<1>2. CASE ChunkInHand(p, i)
  <2>1. PICK j \in DOMAIN current.frames : current.frames[j].body[1] = <<p, i>>
    BY <1>2 DEF ChunkInHand
  <2>2. current.frames[j] \in Frames
    BY DEF Inv, FramesTrue
  <2>3. QED
    BY <1>1, <2>1, <2>2
<1>3. CASE ChunkDone(p, i)
  <2>1. PICK d \in arrived : ChunkIn(d, p, i)
    BY <1>3 DEF ChunkDone
  <2>2. PICK j \in DOMAIN d.frames : d.frames[j].body[1] = <<p, i>>
    BY <2>1 DEF ChunkIn, FramesOf
  <2>3. d.frames[j] \in Frames
    BY DEF Inv, FramesTrue, CostInv
  <2>4. QED
    BY <1>1, <2>2, <2>3
<1>4. QED
  BY <1>2, <1>3

(* A step of the sender.                                                    *)
LEMMA SenderKeepsCost ==
  ASSUME Inv, CostInv, UNCHANGED <<engine, call, given>>,
         DOMAIN sent \subseteq DOMAIN sent', DOMAIN sent' \subseteq Nat,
         \A p \in DOMAIN sent : sent'[p] = sent[p],
         \A p \in DOMAIN sent' : 1 \in 1 .. sent'[p].length,
         datagrams \subseteq datagrams'
  PROVE  CostInv'
<1> USE DEF engine, call, given
<1>1. /\ \A p \in DOMAIN sent : Safe(p)' => Safe(p)
      /\ \A p \in DOMAIN sent : Out(p) => Out(p)'
      /\ \A p \in DOMAIN sent : OutInHand(p) => OutInHand(p)'
      /\ \A p \in DOMAIN sent : \A i : InGroup(p, i) => InGroup(p, i)'
  <2>1. \A p \in DOMAIN sent : OwnId(p)' => OwnId(p)
    BY DEF OwnId
  <2>2. \A d, p : Carries(d, p)' <=> Carries(d, p)
    BY DEF Carries, FramesOf
  <2>3. \A p \in DOMAIN sent : Safe(p)' => Safe(p)
    BY <2>1, <2>2 DEF Safe
  <2>4. \A p \in DOMAIN sent : Whole(p)' = Whole(p)
    BY DEF Whole
  <2>5. \A p \in DOMAIN sent : Out(p) => Out(p)'
    BY <2>4 DEF Out
  <2>6. \A p \in DOMAIN sent : OutInHand(p) => OutInHand(p)'
    BY <2>4 DEF OutInHand
  <2>7. \A p \in DOMAIN sent : \A i : InGroup(p, i) => InGroup(p, i)'
    BY DEF InGroup
  <2>8. QED
    BY <2>3, <2>5, <2>6, <2>7
<1>2. \A p, i : /\ ChunkDone(p, i)' <=> ChunkDone(p, i)
                /\ ChunkInHand(p, i)' <=> ChunkInHand(p, i)
  BY DEF ChunkDone, ChunkInHand, ChunkIn, FramesOf
<1>3. Placed'
  <2> SUFFICES ASSUME NEW p \in DOMAIN sent', Safe(p)',
                      NEW i \in 1 .. sent'[p].length,
                      ChunkDone(p, i)' \/ ChunkInHand(p, i)'
               PROVE  Out(p)' \/ OutInHand(p)' \/ InGroup(p, i)'
    BY DEF Placed
  <2>1. p \in DOMAIN sent
    BY <1>2, ChunksSent
  <2>2. Out(p) \/ OutInHand(p) \/ InGroup(p, i)
    BY <1>1, <1>2, <2>1 DEF CostInv, Placed
  <2>3. QED
    BY <1>1, <2>1, <2>2
<1>4. DoneAreOut'
  <2> SUFFICES ASSUME NEW p \in DOMAIN sent', Safe(p)',
                      \A i \in 1 .. sent'[p].length : ChunkDone(p, i)'
               PROVE  Out(p)'
    BY DEF DoneAreOut
  <2>1. p \in DOMAIN sent
    BY <1>2, ChunksSent
  <2>2. Out(p)
    BY <1>1, <1>2, <2>1 DEF CostInv, DoneAreOut
  <2>3. QED
    BY <1>1, <2>1, <2>2
<1>5. InHandCarried'
  BY DEF CostInv, InHandCarried, Carries, FramesOf
<1>6. QED
  BY <1>3, <1>4, <1>5 DEF CostInv

LEMMA StartReceiveKeepsCost ==
  ASSUME Inv, CostInv, NEW d \in datagrams, StartReceive(d)
  PROVE  CostInv'
<1> USE DEF StartReceive
<1>1. \A p, i : ChunkDone(p, i)' \/ ChunkInHand(p, i)' => ChunkDone(p, i)
  <2>1. \A p, i : ~ChunkInHand(p, i)'
    <3>1. \A j \in DOMAIN d.frames : ~(j < 1)
      BY DEF Inv, FramesTrue
    <3>2. QED
      BY <3>1 DEF ChunkInHand
  <2>2. \A p, i : ~ChunkIn(NoDatagram, p, i)
    BY DEF ChunkIn, FramesOf, NoDatagram
  <2>3. QED
    BY <2>1, <2>2 DEF ChunkDone, ChunkIn, FramesOf
<1>2. \A p : /\ Safe(p)' <=> Safe(p)
             /\ Out(p)' <=> Out(p)
             /\ \A i : InGroup(p, i)' <=> InGroup(p, i)
  BY SameSent DEF Safe, Out, InGroup, Carries, FramesOf
<1>3. InHandCarried'
  BY DEF InHandCarried
<1>4. DoneAreOut'
  BY <1>1, <1>2 DEF CostInv, DoneAreOut
<1>5. \A p : ~OutInHand(p)
  BY DEF OutInHand, CostInv, InHandCarried, Carries, FramesOf, NoDatagram
<1>6. Placed'
  <2>1. sent' = sent
    OBVIOUS
  <2> SUFFICES ASSUME NEW p \in DOMAIN sent, Safe(p)',
                      NEW i \in 1 .. sent[p].length,
                      ChunkDone(p, i)' \/ ChunkInHand(p, i)'
               PROVE  Out(p)' \/ OutInHand(p)' \/ InGroup(p, i)'
    BY <2>1 DEF Placed
  <2>2. Out(p) \/ OutInHand(p) \/ InGroup(p, i)
    BY <1>1, <1>2 DEF CostInv, Placed
  <2>3. QED
    BY <1>2, <1>5, <2>2
<1>7. QED
  BY <1>3, <1>4, <1>6 DEF CostInv

(* The frame in hand goes where its payload's frames belong.                *)
LEMMA ProceedKeepsCost ==
  ASSUME Inv, CostInv, InCall, Proceed,
         NEW p \in DOMAIN sent, NEW i \in Nat, NextFrame = FrameOf(p, i),
         DOMAIN order_queue \subseteq DOMAIN order_queue',
         \/ delivered' = delivered
         \/ \E body : /\ delivered' = Append(delivered, body)
                      /\ \E k \in DOMAIN body : body[k][1] = p,
         \A q \in DOMAIN sent : \A k :
            OwnId(q) /\ InGroup(q, k)
              => Out(q)' \/ OutInHand(q)' \/ InGroup(q, k)',
         OwnId(p) => Out(p)' \/ OutInHand(p)' \/ InGroup(p, i)'
  PROVE  CostInv'
<1> USE DEF Proceed, sender, given
<1>1. /\ \A q : Safe(q)' <=> Safe(q)
      /\ \A q, k : ChunkDone(q, k)' <=> ChunkDone(q, k)
      /\ \A d, q : Carries(d, q)' <=> Carries(d, q)
  BY SameSent DEF Safe, Carries, ChunkDone, ChunkIn, FramesOf
<1>2. \A q : Out(q) => Out(q)'
  BY SameSent DEF Out
<1>3. \A j \in DOMAIN delivered :
        j \in DOMAIN delivered' /\ delivered'[j] = delivered[j]
  <2>1. delivered \in Seq(Bodies)
    BY DEF Inv, BodiesTrue
  <2>2. QED
    BY <2>1
<1>4. \A q : OutInHand(q) => OutInHand(q)'
  BY <1>3, SameSent DEF OutInHand
<1>5. NextFrame.body[1] = <<p, i>>
  BY DEF FrameOf
<1>6. \A q, k : ChunkInHand(q, k)' => ChunkInHand(q, k) \/ <<q, k>> = <<p, i>>
  <2> SUFFICES ASSUME NEW q, NEW k, NEW j \in DOMAIN current.frames,
                      j < next_frame + 1, current.frames[j].body[1] = <<q, k>>
               PROVE  ChunkInHand(q, k) \/ <<q, k>> = <<p, i>>
    BY DEF ChunkInHand
  <2>1. j \in Int /\ next_frame \in Int
    BY DEF Inv, FramesTrue
  <2>2. CASE j < next_frame
    BY <2>2 DEF ChunkInHand
  <2>3. CASE j = next_frame
    BY <2>3, <1>5 DEF NextFrame
  <2>4. QED
    BY <2>1, <2>2, <2>3
<1>7. Placed'
  <2>1. sent' = sent
    OBVIOUS
  <2> SUFFICES ASSUME NEW q \in DOMAIN sent, Safe(q)',
                      NEW k \in 1 .. sent[q].length,
                      ChunkDone(q, k)' \/ ChunkInHand(q, k)'
               PROVE  Out(q)' \/ OutInHand(q)' \/ InGroup(q, k)'
    BY <2>1 DEF Placed
  <2>2. Safe(q) /\ OwnId(q)
    BY <1>1 DEF Safe
  <2>3. CASE ChunkDone(q, k) \/ ChunkInHand(q, k)
    <3>1. Out(q) \/ OutInHand(q) \/ InGroup(q, k)
      BY <2>2, <2>3 DEF CostInv, Placed
    <3>2. QED
      BY <1>2, <1>4, <2>2, <3>1
  <2>4. CASE <<q, k>> = <<p, i>>
    <3>1. q = p /\ k = i
      BY <2>4
    <3>2. QED
      BY <2>2, <3>1
  <2>5. QED
    BY <1>1, <1>6, <2>3, <2>4
<1>8. DoneAreOut'
  BY <1>1, <1>2 DEF CostInv, DoneAreOut
<1>9. InHandCarried'
  <2>1. Carries(current, p)
    <3>1. next_frame \in DOMAIN current.frames
      BY DEF Inv, FramesTrue, InCall
    <3>2. NextFrame \in FramesOf(current)
      BY <3>1 DEF NextFrame, FramesOf
    <3>3. QED
      BY <1>5, <3>2 DEF Carries
  <2>2. \A j \in DOMAIN delivered' :
           \E k \in DOMAIN delivered'[j] : Carries(current, delivered'[j][k][1])
    <3>1. CASE delivered' = delivered
      BY <3>1 DEF CostInv, InHandCarried
    <3>2. ASSUME NEW body, delivered' = Append(delivered, body),
                 NEW m \in DOMAIN body, body[m][1] = p
          PROVE  \A j \in DOMAIN delivered' :
                   \E k \in DOMAIN delivered'[j] :
                      Carries(current, delivered'[j][k][1])
      <4> SUFFICES ASSUME NEW j \in DOMAIN delivered'
                   PROVE  \E k \in DOMAIN delivered'[j] :
                             Carries(current, delivered'[j][k][1])
        OBVIOUS
      <4>1. \/ j \in DOMAIN delivered /\ delivered'[j] = delivered[j]
            \/ delivered'[j] = body
        <5>1. delivered \in Seq(Bodies)
          BY DEF Inv, BodiesTrue
        <5>2. QED
          BY <3>2, <5>1
      <4>2. CASE j \in DOMAIN delivered /\ delivered'[j] = delivered[j]
        BY <4>2 DEF CostInv, InHandCarried
      <4>3. CASE delivered'[j] = body
        BY <2>1, <3>2, <4>3
      <4>4. QED
        BY <4>1, <4>2, <4>3
    <3>3. QED
      BY <3>1, <3>2
  <2>3. current' = current
    OBVIOUS
  <2>4. QED
    BY <1>1, <2>2, <2>3 DEF InHandCarried
<1>10. QED
  BY <1>7, <1>8, <1>9 DEF CostInv

LEMMA RouteOut ==
  ASSUME Inv, NEW q \in DOMAIN sent, NEW body, UNCHANGED sent,
         Route(sent[q].template, body)
  PROVE  /\ DOMAIN order_queue \subseteq DOMAIN order_queue'
         /\ delivered' = delivered \/ delivered' = Append(delivered, body)
         /\ body = Whole(q) => Out(q)' \/ OutInHand(q)'
<1> DEFINE t == sent[q].template
<1>1. CASE IsOrdered(t)
  <2>1. /\ delivered' = delivered
        /\ DOMAIN order_queue' = DOMAIN order_queue \cup {t.order_index}
    BY <1>1 DEF Route, IsOrdered
  <2>2. Out(q)'
    BY <1>1, <2>1 DEF Out
  <2>3. QED
    BY <2>1, <2>2
<1>2. CASE ~IsOrdered(t)
  <2>1. /\ delivered' = Append(delivered, body)
        /\ order_queue' = order_queue
    BY <1>2 DEF Route, IsOrdered
  <2>2. ASSUME body = Whole(q) PROVE OutInHand(q)'
    <3>1. delivered \in Seq(Bodies)
      BY DEF Inv, BodiesTrue
    <3>2. /\ Len(delivered) + 1 \in DOMAIN delivered'
          /\ delivered'[Len(delivered) + 1] = body
      BY <2>1, <3>1
    <3>3. Whole(q)' = Whole(q)
      BY SameSent
    <3>4. QED
      BY <1>2, <2>2, <3>2, <3>3 DEF OutInHand
  <2>3. QED
    BY <2>1, <2>2
<1>3. QED
  BY <1>1, <1>2

LEMMA HandleWholeFrameKeepsCost ==
  ASSUME Inv, CostInv, HandleWholeFrame
  PROVE  CostInv'
<1>1. PICK p \in DOMAIN sent :
        \E i \in 1 .. sent[p].length : NextFrame = FrameOf(p, i)
  BY FrameInHand DEF HandleWholeFrame
<1>2. PICK i \in 1 .. sent[p].length : NextFrame = FrameOf(p, i)
  BY <1>1
<1>3. sent[p].length = 1 /\ i \in Nat
  BY <1>2, LengthIs DEF HandleWholeFrame, FrameOf, Inv
<1>4. PICK body : body = << <<p, 1>> >>
  OBVIOUS
<1>5. /\ NextFrame.template = sent[p].template
      /\ NextFrame.body = body
  BY <1>2, <1>3, <1>4 DEF FrameOf
<1>6. Whole(p) = body
  BY <1>3, <1>4 DEF Whole
<1>7. 1 \in DOMAIN body /\ body[1][1] = p
  BY <1>4
<1>8. /\ Route(sent[p].template, body) /\ Proceed
      /\ UNCHANGED <<sent, reassemblers>> /\ InCall
  BY <1>5 DEF HandleWholeFrame, Proceed
<1>9. /\ DOMAIN order_queue \subseteq DOMAIN order_queue'
      /\ delivered' = delivered \/ delivered' = Append(delivered, body)
      /\ Out(p)' \/ OutInHand(p)'
  BY <1>6, <1>8, RouteOut
<1>10. \A q, k : InGroup(q, k)' <=> InGroup(q, k)
  BY <1>8 DEF InGroup
<1>11. QED
  BY <1>2, <1>3, <1>7, <1>8, <1>9, <1>10, ProceedKeepsCost

LEMMA KeepFragmentKeepsCost ==
  ASSUME Inv, CostInv, KeepFragment
  PROVE  CostInv'
<1>1. PICK p \in DOMAIN sent :
        \E i \in 1 .. sent[p].length : NextFrame = FrameOf(p, i)
  BY FrameInHand DEF KeepFragment
<1>2. PICK i \in 1 .. sent[p].length : NextFrame = FrameOf(p, i)
  BY <1>1
<1>3. PICK f, g : f = NextFrame /\ g = Added(Group(f), f)
  OBVIOUS
<1>4. /\ InCall /\ f.is_split /\ Proceed
      /\ reassemblers' = [ j \in DOMAIN reassemblers \cup {f.id} |->
                             IF j = f.id THEN g ELSE reassemblers[j] ]
      /\ UNCHANGED <<sent, order_queue, delivered>>
  BY <1>3 DEF KeepFragment, Proceed
<1>5. /\ sent[p].length # 1 /\ i \in Nat
      /\ f.id = sent[p].id /\ f.index = i - 1
  BY <1>2, <1>3, <1>4, LengthIs DEF FrameOf, Inv
<1>6. /\ DOMAIN Group(f).fragments \subseteq DOMAIN g.fragments
      /\ i - 1 \in DOMAIN g.fragments
  BY <1>3, <1>5 DEF Added
<1>7. InGroup(p, i)'
  <2>1. sent'[p] = sent[p] /\ reassemblers'[f.id] = g
    BY <1>4
  <2>2. f.id \in DOMAIN reassemblers'
    BY <1>4
  <2>3. QED
    BY <1>5, <1>6, <2>1, <2>2 DEF InGroup
<1>8. ASSUME NEW q \in DOMAIN sent, NEW k, InGroup(q, k)
      PROVE  InGroup(q, k)'
  <2>1. CASE sent[q].id = f.id
    <3>1. /\ Group(f) = reassemblers[f.id]
          /\ k - 1 \in DOMAIN reassemblers[f.id].fragments
          /\ reassemblers'[f.id] = g /\ f.id \in DOMAIN reassemblers'
      BY <1>4, <1>8, <2>1 DEF InGroup, Group
    <3>2. k - 1 \in DOMAIN g.fragments
      BY <1>6, <3>1
    <3>3. sent'[q].length # 1 /\ sent'[q].id = f.id
      BY <1>4, <1>8, <2>1 DEF InGroup
    <3>4. QED
      BY <3>1, <3>2, <3>3 DEF InGroup
  <2>2. CASE sent[q].id # f.id
    BY <1>4, <1>8, <2>2 DEF InGroup
  <2>3. QED
    BY <2>1, <2>2
<1>9. NextFrame = FrameOf(p, i)
  BY <1>2
<1>10. QED
  BY <1>4, <1>5, <1>7, <1>8, <1>9, ProceedKeepsCost

LEMMA CompleteGroupKeepsCost ==
  ASSUME Inv, CostInv, CompleteGroup
  PROVE  CostInv'
<1>1. PICK p \in DOMAIN sent :
        \E i \in 1 .. sent[p].length : NextFrame = FrameOf(p, i)
  BY FrameInHand DEF CompleteGroup
<1>2. PICK i \in 1 .. sent[p].length : NextFrame = FrameOf(p, i)
  BY <1>1
<1>3. PICK f, g : /\ f = NextFrame /\ g = Added(Group(NextFrame), NextFrame)
                  /\ g = Added(Group(f), f)
  OBVIOUS
<1>4. /\ InCall /\ NextFrame.is_split /\ Proceed
      /\ ~AddFails(Group(NextFrame), NextFrame)
      /\ Complete(g)
      /\ reassemblers' = WithoutGroup(f.id)
      /\ Route(g.template, Assembled(g))
      /\ UNCHANGED sent
  BY <1>3 DEF CompleteGroup, Proceed
<1>5. f.id \in Ids /\ GroupTrue(f.id, g)
  BY <1>3, <1>4, AddedTrue
<1>6. PICK body : body = Assembled(g)
  OBVIOUS
<1>7. PICK q \in DOMAIN sent : sent[q].id = f.id /\ g.template = sent[q].template
  BY <1>4, <1>5, AssembledTrue DEF Inv
<1>8. \A r \in DOMAIN sent : sent[r].id = f.id /\ OwnId(r) => body = Whole(r)
  BY <1>4, <1>5, <1>6, AssembledTrue DEF Inv
<1>9. /\ DOMAIN order_queue \subseteq DOMAIN order_queue'
      /\ delivered' = delivered \/ delivered' = Append(delivered, body)
      /\ body = Whole(q) => Out(q)' \/ OutInHand(q)'
  BY <1>4, <1>6, <1>7, RouteOut
<1>10. /\ f.id = sent[p].id /\ f.index = i - 1 /\ f.body[1] = <<p, i>>
       /\ f.count = sent[p].length /\ i \in 1 .. f.count /\ i \in Nat
       /\ sent[p].length # 1
  BY <1>2, <1>3, <1>4, LengthIs DEF FrameOf, Inv
<1>11. i \in DOMAIN body /\ body[i][1] = p
  <2>1. g.count = f.count /\ g.fragments[f.index] = f.body[1]
    BY <1>3 DEF Added
  <2>2. i \in DOMAIN body /\ body[i] = g.fragments[i - 1]
    BY <1>6, <1>10, <2>1 DEF Assembled
  <2>3. QED
    BY <1>10, <2>1, <2>2
\* The payload with this id as its own is the one that has left.
<1>12. ASSUME NEW r \in DOMAIN sent, OwnId(r), sent[r].id = f.id
       PROVE  Out(r)' \/ OutInHand(r)'
  <2>1. f.id # NoIndex
    BY <1>5 DEF Ids, NoIndex
  <2>2. q = r
    BY <1>7, <1>12, <2>1 DEF OwnId
  <2>3. QED
    BY <1>8, <1>9, <1>12, <2>2
<1>13. ASSUME NEW r \in DOMAIN sent, NEW k, OwnId(r), InGroup(r, k)
       PROVE  Out(r)' \/ OutInHand(r)' \/ InGroup(r, k)'
  <2>1. CASE sent[r].id = f.id
    BY <1>12, <1>13, <2>1
  <2>2. CASE sent[r].id # f.id
    BY <1>4, <1>13, <2>2 DEF InGroup, WithoutGroup
  <2>3. QED
    BY <2>1, <2>2
<1>14. OwnId(p) => Out(p)' \/ OutInHand(p)'
  BY <1>10, <1>12
<1>15. QED
  BY <1>2, <1>4, <1>9, <1>10, <1>11, <1>13, <1>14, ProceedKeepsCost

(* The failing call: what it loses, its datagram carries.                   *)
LEMMA FailReceiveKeepsCost ==
  ASSUME Inv, CostInv, FailReceive
  PROVE  CostInv'
<1> USE DEF FailReceive
<1>1. PICK p \in DOMAIN sent :
        \E i \in 1 .. sent[p].length : NextFrame = FrameOf(p, i)
  BY FrameInHand
<1>2. PICK i \in 1 .. sent[p].length : NextFrame = FrameOf(p, i)
  BY <1>1
<1>3. /\ sent[p].length # 1
      /\ NextFrame.id = sent[p].id /\ NextFrame.body[1] = <<p, i>>
  BY <1>2, LengthIs DEF FrameOf, Inv
<1>4. Carries(current, p)
  <2>1. next_frame \in DOMAIN current.frames
    BY DEF Inv, FramesTrue, InCall
  <2>2. NextFrame \in FramesOf(current)
    BY <2>1 DEF NextFrame, FramesOf
  <2>3. QED
    BY <1>3, <2>2 DEF Carries
<1>5. \A q : Safe(q)' => Safe(q) /\ ~Carries(current, q)
  BY SameSent DEF Safe, Carries, FramesOf
<1>6. \A q : Out(q)' <=> Out(q)
  BY SameSent DEF Out
<1>7. ASSUME NEW q, NEW k, ChunkDone(q, k)' \/ ChunkInHand(q, k)', Safe(q)'
      PROVE  ChunkDone(q, k)
  <2>1. ~ChunkInHand(q, k)'
    BY DEF ChunkInHand, NoDatagram
  <2>2. PICK d \in arrived : ChunkIn(d, q, k)
    BY <1>7, <2>1 DEF ChunkDone, ChunkIn, FramesOf
  <2>3. Carries(d, q)
    BY <2>2 DEF ChunkIn, Carries
  <2>4. d # current
    BY <1>5, <1>7, <2>3
  <2>5. QED
    BY <2>2, <2>4 DEF ChunkDone
<1>8. DoneAreOut'
  BY <1>5, <1>6, <1>7 DEF CostInv, DoneAreOut
<1>9. InHandCarried'
  BY DEF InHandCarried
<1>10. ASSUME NEW q \in DOMAIN sent, Safe(q)', OutInHand(q)
       PROVE  FALSE
  <2>1. PICK j \in DOMAIN delivered : delivered[j] = Whole(q)
    BY <1>10 DEF OutInHand
  <2>2. PICK k \in DOMAIN Whole(q) : Carries(current, Whole(q)[k][1])
    BY <2>1 DEF CostInv, InHandCarried
  <2>3. Whole(q)[k][1] = q
    BY <2>2 DEF Whole
  <2>4. QED
    BY <1>5, <1>10, <2>2, <2>3
<1>11. ASSUME NEW q \in DOMAIN sent, NEW k, Safe(q)', InGroup(q, k)
       PROVE  InGroup(q, k)'
  <2>1. q # p
    BY <1>4, <1>5, <1>11
  <2>2. sent[q].id # NextFrame.id
    <3>1. OwnId(q) /\ sent[p].id # NoIndex
      BY <1>3, <1>5, <1>11 DEF Safe, Inv, SentShape
    <3>2. QED
      BY <1>3, <2>1, <3>1 DEF OwnId
  <2>3. QED
    BY <1>11, <2>2 DEF InGroup, WithoutGroup
<1>12. Placed'
  <2>1. sent' = sent
    OBVIOUS
  <2> SUFFICES ASSUME NEW q \in DOMAIN sent, Safe(q)',
                      NEW k \in 1 .. sent[q].length,
                      ChunkDone(q, k)' \/ ChunkInHand(q, k)'
               PROVE  Out(q)' \/ OutInHand(q)' \/ InGroup(q, k)'
    BY <2>1 DEF Placed
  <2>2. Out(q) \/ OutInHand(q) \/ InGroup(q, k)
    BY <1>5, <1>7 DEF CostInv, Placed
  <2>3. QED
    BY <1>6, <1>10, <1>11, <2>2
<1>13. arrived' \subseteq datagrams'
  BY DEF CostInv
<1>14. QED
  BY <1>8, <1>9, <1>12, <1>13 DEF CostInv

(* A payload all of whose chunks have been handled is not in a group.       *)
LEMMA AllHandledIsOut ==
  ASSUME Inv, CostInv, NEW p \in DOMAIN sent, Safe(p),
         \A i \in 1 .. sent[p].length : ChunkDone(p, i) \/ ChunkInHand(p, i)
  PROVE  Out(p) \/ OutInHand(p)
<1> SUFFICES ASSUME ~Out(p), ~OutInHand(p) PROVE FALSE
  OBVIOUS
<1>1. \A i \in 1 .. sent[p].length : InGroup(p, i)
  BY DEF CostInv, Placed
<1>2. sent[p].length \in Nat \ {0} /\ 1 \in 1 .. sent[p].length
  BY LengthIs DEF Inv
<1>3. PICK g : g = reassemblers[sent[p].id]
  OBVIOUS
<1>4. GroupTrue(sent[p].id, g) /\ ~Complete(g) /\ sent[p].id \in Ids
  BY <1>1, <1>2, <1>3 DEF InGroup, Inv, GroupsTrue
<1>5. 0 \in DOMAIN g.fragments
  BY <1>1, <1>2, <1>3 DEF InGroup
<1>6. PICK q \in DOMAIN sent : /\ sent[q].id = sent[p].id
                               /\ sent[q].length = g.count
  BY <1>4, <1>5 DEF GroupTrue
<1>7. q = p
  BY <1>4, <1>6 DEF Safe, OwnId, Ids, NoIndex
<1>8. 0 .. g.count - 1 \subseteq DOMAIN g.fragments
  <2> SUFFICES ASSUME NEW j \in 0 .. g.count - 1 PROVE j \in DOMAIN g.fragments
    OBVIOUS
  <2>1. j + 1 \in 1 .. sent[p].length /\ j + 1 - 1 = j
    BY <1>2, <1>6, <1>7
  <2>2. QED
    BY <1>1, <1>3, <2>1 DEF InGroup
<1>9. DOMAIN g.fragments = 0 .. g.count - 1
  BY <1>4, <1>8 DEF GroupTrue
<1>10. PICK b \in Int : b = g.count - 1 /\ b >= 0
  BY <1>2, <1>6, <1>7
<1>11. Cardinality(0 .. b) = IF 0 > b THEN 0 ELSE b - 0 + 1
  BY FS_Interval
<1>12. Cardinality(DOMAIN g.fragments) = g.count
  BY <1>2, <1>6, <1>7, <1>9, <1>10, <1>11
<1>13. QED
  BY <1>4, <1>12 DEF Complete

LEMMA FinishReceiveKeepsCost ==
  ASSUME MaxSend < Mod, Inv, CostInv, FinishReceive
  PROVE  CostInv'
<1>1. PICK run, next :
        /\ run = RunLength(DOMAIN order_queue, next_delivery_order_index)
        /\ next = next_delivery_order_index
  OBVIOUS
<1>2. /\ run \in Nat /\ next \in Nat
      /\ SeqAdd(next, run) = next + run
      /\ \A i \in 1 .. run : SeqAdd(next, i - 1) = next + i - 1
  BY <1>1, DrainIs
<1>3. /\ DOMAIN order_queue'
           = DOMAIN order_queue \ RunOf(DOMAIN order_queue, next)
      /\ next_delivery_order_index' = next + run
      /\ returned' = returned \cup { delivered[i] : i \in DOMAIN delivered }
      /\ current' = NoDatagram /\ next_frame' = 1 /\ delivered' = << >>
      /\ next_frame > Len(current.frames)
      /\ UNCHANGED <<sent, reassemblers, arrived, failed, datagrams>>
  BY <1>1, <1>2 DEF FinishReceive
<1>4. /\ \A q : Safe(q)' <=> Safe(q)
      /\ \A q, k : InGroup(q, k)' <=> InGroup(q, k)
      /\ \A q : Whole(q)' = Whole(q)
  BY <1>3, SameSent DEF Safe, InGroup, Carries, FramesOf
<1>5. ASSUME NEW q \in DOMAIN sent, Out(q) \/ OutInHand(q)
      PROVE  Out(q)'
  <2>1. CASE IsOrdered(sent[q].template)
    <3>1. PICK n : n = sent[q].template.order_index
      OBVIOUS
    <3>2. n \in DOMAIN order_queue \/ n < next
      BY <1>1, <1>5, <2>1, <3>1 DEF Out, OutInHand
    <3>3. n \in Nat
      BY <2>1, <3>1 DEF Inv, SentShape
    <3>4. n \in RunOf(DOMAIN order_queue, next) => n < next + run
      <4> SUFFICES ASSUME NEW j \in 0 .. run - 1, n = SeqAdd(next, j)
                   PROVE  n < next + run
        BY <1>1 DEF RunOf
      <4>1. j + 1 \in 1 .. run /\ j + 1 - 1 = j
        BY <1>2
      <4>2. SeqAdd(next, j) = next + (j + 1) - 1
        BY <1>2, <4>1
      <4>3. QED
        BY <1>2, <4>1, <4>2
    <3>5. n \in DOMAIN order_queue' \/ n < next + run
      BY <1>2, <1>3, <3>2, <3>3, <3>4
    <3>6. QED
      BY <1>3, <2>1, <3>1, <3>5 DEF Out
  <2>2. CASE ~IsOrdered(sent[q].template)
    BY <1>3, <1>4, <1>5, <2>2 DEF Out, OutInHand
  <2>3. QED
    BY <2>1, <2>2
<1>6. ASSUME NEW q, NEW k, ChunkDone(q, k)' \/ ChunkInHand(q, k)'
      PROVE  ChunkDone(q, k) \/ ChunkInHand(q, k)
  <2>1. ~ChunkInHand(q, k)'
    BY <1>3 DEF ChunkInHand, NoDatagram
  <2>2. PICK d \in arrived : ChunkIn(d, q, k)
    BY <1>3, <1>6, <2>1 DEF ChunkDone, ChunkIn, FramesOf
  <2>3. CASE d = current
    <3>1. PICK j \in DOMAIN current.frames : current.frames[j].body[1] = <<q, k>>
      BY <2>2, <2>3 DEF ChunkIn, FramesOf
    <3>2. j < next_frame
      BY <1>3 DEF Inv, FramesTrue
    <3>3. QED
      BY <3>1, <3>2 DEF ChunkInHand
  <2>4. CASE d # current
    BY <2>2, <2>4 DEF ChunkDone
  <2>5. QED
    BY <2>3, <2>4
<1>7. Placed'
  <2> SUFFICES ASSUME NEW q \in DOMAIN sent, Safe(q)',
                      NEW k \in 1 .. sent[q].length,
                      ChunkDone(q, k)' \/ ChunkInHand(q, k)'
               PROVE  Out(q)' \/ OutInHand(q)' \/ InGroup(q, k)'
    BY <1>3 DEF Placed
  <2>1. Out(q) \/ OutInHand(q) \/ InGroup(q, k)
    BY <1>4, <1>6 DEF CostInv, Placed
  <2>2. QED
    BY <1>4, <1>5, <2>1
<1>8. DoneAreOut'
  <2> SUFFICES ASSUME NEW q \in DOMAIN sent, Safe(q)',
                      \A k \in 1 .. sent[q].length : ChunkDone(q, k)'
               PROVE  Out(q)'
    BY <1>3 DEF DoneAreOut
  <2>1. Out(q) \/ OutInHand(q)
    BY <1>4, <1>6, AllHandledIsOut
  <2>2. QED
    BY <1>5, <2>1
<1>9. InHandCarried'
  BY <1>3 DEF InHandCarried
<1>10. arrived' \subseteq datagrams'
  BY <1>3 DEF CostInv
<1>11. QED
  BY <1>7, <1>8, <1>9, <1>10 DEF CostInv

LEMMA SenderStepsKeepCost ==
  ASSUME MaxSend < Mod, Inv, CostInv,
         \/ \E kind \in Kinds, length \in Lengths :
              PrepareSend(kind, length) \/ ServerTakes(kind, length)
         \/ \E n \in 1 .. MaxFrames : ServerSends(n)
         \/ UNCHANGED vars
  PROVE  CostInv'
<1>1. ASSUME NEW kind \in Kinds, NEW length \in Lengths,
             PrepareSend(kind, length) \/ ServerTakes(kind, length)
      PROVE  CostInv'
  <2>1. next_datagram_seq' \in SeqNums
    BY <1>1, SeqIncType
       DEF PrepareSend, ServerTakes, Transmit, Inv, SentShape
  <2>2. Submit(kind, length)
    BY <1>1 DEF PrepareSend, ServerTakes
  <2>3. /\ SentShape'
        /\ DOMAIN sent \subseteq DOMAIN sent'
        /\ \A p \in DOMAIN sent : sent'[p] = sent[p]
    BY <2>1, <2>2, SubmitShape DEF Inv
  <2>4. DOMAIN sent' \subseteq Nat
    BY <2>3 DEF SentShape
  <2>5. \A p \in DOMAIN sent' : 1 \in 1 .. sent'[p].length
    <3>1. \A p \in DOMAIN sent' : sent'[p] \in Sendings
      BY <2>3 DEF SentShape
    <3>2. QED
      BY <3>1 DEF Sendings
  <2>6. datagrams \subseteq datagrams' /\ UNCHANGED <<engine, call, given>>
    BY <1>1 DEF PrepareSend, ServerTakes, Transmit
  <2>7. QED
    BY <2>3, <2>4, <2>5, <2>6, SenderKeepsCost
<1>2. ASSUME \/ \E n \in 1 .. MaxFrames : ServerSends(n)
             \/ UNCHANGED vars
      PROVE  CostInv'
  <2>1. UNCHANGED <<engine, call, given, sent>> /\ datagrams \subseteq datagrams'
    BY <1>2 DEF ServerSends, Transmit, vars
  <2>2. DOMAIN sent \subseteq Nat
    BY DEF Inv, SentShape
  <2>3. \A p \in DOMAIN sent : 1 \in 1 .. sent[p].length
    BY LengthIs DEF Inv
  <2>4. QED
    BY <2>1, <2>2, <2>3, SenderKeepsCost
<1>3. QED
  BY <1>1, <1>2

(* What has left the reassembler for good is with the caller or in the      *)
(* queue, whole.                                                            *)
LEMMA OutIsKept ==
  ASSUME Inv, NEW p \in DOMAIN sent, OwnId(p), Out(p)
  PROVE  Kept(p)
<1>1. CASE ~IsOrdered(sent[p].template)
  BY <1>1 DEF Out, Kept
<1>2. CASE IsOrdered(sent[p].template)
  <2>1. PICK n : n = sent[p].template.order_index
    OBVIOUS
  <2>2. n \in Nat
    BY <1>2, <2>1 DEF Inv, SentShape
  <2>3. CASE n \in DOMAIN order_queue
    BY <2>1, <2>3 DEF Inv, BodiesTrue, OrderedTrue, Kept
  <2>4. CASE n < next_delivery_order_index
    <3>1. n + 1 \in DOMAIN released /\ n + 1 - 1 = n
      <4>1. /\ released \in Seq(Bodies)
            /\ Len(released) = next_delivery_order_index
        BY DEF Inv, BodiesTrue
      <4>2. QED
        BY <2>2, <2>4, <4>1
    <3>2. OrderedTrue(n, released[n + 1])
      <4>1. \A m \in DOMAIN released : OrderedTrue(m - 1, released[m])
        BY DEF Inv, BodiesTrue
      <4>2. PICK m : m = n + 1
        OBVIOUS
      <4>3. m \in DOMAIN released /\ m - 1 = n
        BY <2>2, <3>1, <4>2
      <4>4. OrderedTrue(m - 1, released[m])
        BY <4>1, <4>3
      <4>5. QED
        BY <4>2, <4>3, <4>4
    <3>3. released[n + 1] = Whole(p)
      BY <2>1, <3>2 DEF OrderedTrue
    <3>4. QED
      BY <3>1, <3>3 DEF Kept
  <2>5. QED
    BY <1>2, <2>1, <2>3, <2>4 DEF Out
<1>3. QED
  BY <1>1, <1>2

(***************************************************************************)
(* What the error path of on_datagram_received costs (reliability.rs:338),  *)
(* in every interleaving of payloads: a payload with a split id of its own, *)
(* all of whose chunks have arrived and that no failed datagram carries, is *)
(* returned or waits for its turn.                                          *)
(***************************************************************************)
THEOREM FailureConfined == ASSUME MaxSend < Mod PROVE Spec => []DamageConfined
<1>1. ASSUME Inv, CostInv, [Next]_vars PROVE CostInv'
  <2>1. CASE Next
    BY <1>1, <2>1, SenderStepsKeepCost, StartReceiveKeepsCost,
       HandleWholeFrameKeepsCost, KeepFragmentKeepsCost,
       CompleteGroupKeepsCost, FailReceiveKeepsCost, FinishReceiveKeepsCost
       DEF Next
  <2>2. CASE UNCHANGED vars
    BY <1>1, <2>2, SenderStepsKeepCost
  <2>3. QED
    BY <1>1, <2>1, <2>2
<1>2. Inv /\ CostInv => DamageConfined
  <2> SUFFICES ASSUME Inv, CostInv, NEW p \in DOMAIN sent, AllArrived(p),
                      OwnId(p), \A d \in failed : ~Carries(d, p)
               PROVE  Kept(p)
    BY DEF DamageConfined
  <2>1. Safe(p) /\ \A i \in 1 .. sent[p].length : ChunkDone(p, i)
    BY DEF Safe, AllArrived, ChunkDone, ChunkIn
  <2>2. Out(p)
    BY <2>1 DEF CostInv, DoneAreOut
  <2>3. QED
    BY <2>2, OutIsKept
<1>3. QED
  BY InitCost, InvHolds, <1>1, <1>2, PTL DEF Spec
-----------------------------------------------------------------------------
(***************************************************************************)
(* The types, for any number of payloads.  Ordered frames have an order     *)
(* index (prepare_send sets it, a group takes it over from its first        *)
(* fragment), which is what keeps the order queue's keys numbers.           *)
(***************************************************************************)
IndexedTemplates ==
    { t \in TemplateType : IsOrdered(t) => t.order_index \in SeqNums }

IndexedFrames ==
    [ template : IndexedTemplates, is_split : BOOLEAN, count : Nat,
      id : Ids, index : Nat, body : Seq(Chunk) ]

IndexedDatagrams == [seq : SeqNums, frames : Seq(IndexedFrames)]

SentType == [ template : TemplateType, length : Lengths,
              id : Ids \cup {NoIndex} ]

SenderOK ==
    /\ mcget_sends \in BOOLEAN
    /\ next_datagram_seq \in SeqNums
    /\ next_order_index \in SeqNums
    /\ outbox \in Seq(IndexedFrames)
    /\ datagrams \subseteq IndexedDatagrams
    /\ sent \in Seq(SentType)
    /\ Len(sent) <= MaxSend

EngineOK ==
    /\ recv_window \in Window
    /\ pending_acks \subseteq SeqNums
    /\ DOMAIN reassemblers \subseteq Ids
    /\ \A i \in DOMAIN reassemblers :
          /\ reassemblers[i].template \in IndexedTemplates
          /\ reassemblers[i].count \in Nat
          /\ DOMAIN reassemblers[i].fragments \subseteq Nat
    /\ DOMAIN order_queue \subseteq SeqNums
    /\ next_delivery_order_index \in SeqNums

\* The datagram in hand is one that has arrived.
CallOK ==
    /\ current \in arrived \cup {NoDatagram}
    /\ next_frame \in Nat \ {0}
    /\ arrived \subseteq datagrams
    /\ failed \subseteq arrived
    /\ repeats \in 0 .. MaxRepeats

TypeInv == SenderOK /\ EngineOK /\ CallOK

LEMMA IndexedAreFrames ==
  /\ Seq(IndexedFrames) \subseteq Seq(FrameType)
  /\ IndexedDatagrams \subseteq DatagramType
<1>1. IndexedTemplates \subseteq TemplateType
  BY DEF IndexedTemplates
<1>2. IndexedFrames \subseteq FrameType
  BY <1>1 DEF IndexedFrames, FrameType
<1>3. Seq(IndexedFrames) \subseteq Seq(FrameType)
  <2>1. \A s \in Seq(IndexedFrames) : s \in Seq(FrameType)
    BY <1>2
  <2>2. QED
    BY <2>1
<1>4. IndexedDatagrams \subseteq DatagramType
  BY <1>3 DEF IndexedDatagrams, DatagramType
<1>5. QED
  BY <1>3, <1>4

LEMMA TypeInvTypes == TypeInv => TypeOK
<1> SUFFICES ASSUME TypeInv PROVE TypeOK
  OBVIOUS
<1>1. current \in DatagramType \cup {NoDatagram}
  BY IndexedAreFrames DEF TypeInv, CallOK, SenderOK
<1>2. outbox \in Seq(FrameType) /\ datagrams \subseteq DatagramType
  BY IndexedAreFrames DEF TypeInv, SenderOK
<1>3. \A i \in DOMAIN reassemblers : reassemblers[i].template \in TemplateType
  BY DEF TypeInv, EngineOK, IndexedTemplates
<1>4. QED
  BY <1>1, <1>2, <1>3 DEF TypeInv, SenderOK, EngineOK, CallOK, SentType, TypeOK

LEMMA InitTypes == Init => TypeInv
<1> SUFFICES ASSUME Init PROVE TypeInv
  OBVIOUS
<1> USE DEF Init
<1>1. NewWindow \in Window
  BY ModType DEF NewWindow, Window
<1>2. SenderOK
  BY ModType, ReassemblyAssumption DEF SenderOK
<1>3. EngineOK
  BY ModType, <1>1 DEF EngineOK
<1>4. CallOK
  BY ReassemblyAssumption DEF CallOK
<1>5. QED
  BY <1>2, <1>3, <1>4 DEF TypeInv

(* A new payload: its entry in sent, and its frames.                        *)
LEMMA SubmitTypes ==
  ASSUME SenderOK, NEW kind \in Kinds, NEW length \in Lengths,
         Submit(kind, length)
  PROVE  /\ sent' \in Seq(SentType) /\ Len(sent') <= MaxSend
         /\ next_order_index' \in SeqNums
         /\ NewFrames(kind, length) \in Seq(IndexedFrames)
<1>1. /\ sent \in Seq(SentType) /\ Len(sent) \in Nat
      /\ Len(sent) + 1 \in Payload
      /\ length \in Nat \ {0}
  BY ReassemblyAssumption DEF SenderOK, Submit, Payload
<1>2. SplitId \in Ids
  BY <1>1, ReassemblyAssumption, ModType DEF SplitId, Ids, SenderOK, SeqNums
<1>3. Template(kind) \in IndexedTemplates
  <2>1. Template(kind) \in TemplateType
    BY DEF Template, TemplateType, SenderOK
  <2>2. IsOrdered(Template(kind)) => Template(kind).order_index \in SeqNums
    BY DEF Template, IsOrdered, SenderOK
  <2>3. QED
    BY <2>1, <2>2 DEF IndexedTemplates
<1>4. sent' \in Seq(SentType) /\ Len(sent') <= MaxSend
  <2> DEFINE new == [ template |-> Template(kind), length |-> length,
                      id |-> IF length > 1 THEN SplitId ELSE NoIndex ]
  <2>1. new \in SentType
    BY <1>2, <1>3 DEF SentType, IndexedTemplates
  <2>2. sent' = Append(sent, new) /\ Len(sent) < MaxSend
    BY DEF Submit
  <2> HIDE DEF new
  <2>3. QED
    BY <1>1, <2>1, <2>2, ReassemblyAssumption
<1>5. next_order_index' \in SeqNums
  BY SeqIncType DEF Submit, SenderOK
<1>6. NewFrames(kind, length) \in Seq(IndexedFrames)
  <2> DEFINE body  == [i \in 1 .. length |-> <<Len(sent) + 1, i>>]
             t     == Template(kind)
             whole == [template |-> t, is_split |-> FALSE, count |-> 0,
                       id |-> 0, index |-> 0, body |-> body]
             Part(i) == [template |-> t, is_split |-> TRUE, count |-> length,
                         id |-> SplitId, index |-> i - 1, body |-> <<body[i]>>]
  <2>1. body \in Seq(Chunk) /\ Len(body) = length
    <3>1. \A i \in 1 .. length : <<Len(sent) + 1, i>> \in Chunk
      BY <1>1 DEF Chunk
    <3>2. QED
      BY <1>1, <3>1
  <2>2. NewFrames(kind, length)
          = IF length <= 1 THEN <<whole>> ELSE [i \in 1 .. length |-> Part(i)]
    BY <2>1 DEF NewFrames, SplitInto
  <2>3. 0 \in Ids
    BY ReassemblyAssumption DEF Ids
  <2>4. whole \in IndexedFrames
    BY <2>1, <2>3, <1>3 DEF IndexedFrames
  <2>5. ASSUME NEW i \in 1 .. length PROVE Part(i) \in IndexedFrames
    <3>1. <<body[i]>> \in Seq(Chunk)
      BY <1>1 DEF Chunk
    <3>2. i - 1 \in Nat /\ length \in Nat
      BY <1>1
    <3>3. QED
      BY <3>1, <3>2, <1>2, <1>3 DEF IndexedFrames
  <2> HIDE DEF whole, Part, body
  <2>6. <<whole>> \in Seq(IndexedFrames)
    BY <2>4
  <2>7. [i \in 1 .. length |-> Part(i)] \in Seq(IndexedFrames)
    BY <2>5, <1>1
  <2>8. QED
    BY <2>2, <2>6, <2>7
<1>7. QED
  BY <1>4, <1>5, <1>6

LEMMA TransmitTypes ==
  ASSUME SenderOK, NEW frames \in Seq(IndexedFrames), Transmit(frames)
  PROVE  /\ datagrams' \subseteq IndexedDatagrams /\ datagrams \subseteq datagrams'
         /\ next_datagram_seq' \in SeqNums
BY SeqIncType DEF SenderOK, Transmit, IndexedDatagrams

LEMMA SenderTypes ==
  ASSUME TypeInv,
         \/ \E k \in Kinds, n \in Lengths : PrepareSend(k, n) \/ ServerTakes(k, n)
         \/ \E n \in 1 .. MaxFrames : ServerSends(n)
  PROVE  TypeInv'
<1> USE DEF TypeInv, engine, call, given
<1>1. ASSUME NEW k \in Kinds, NEW n \in Lengths, PrepareSend(k, n)
      PROVE  TypeInv'
  <2>1. SenderOK'
    BY <1>1, SubmitTypes, TransmitTypes DEF PrepareSend, SenderOK
  <2>2. EngineOK'
    BY <1>1 DEF PrepareSend, EngineOK
  <2>3. CallOK'
    BY <1>1 DEF PrepareSend, Transmit, CallOK
  <2>4. QED
    BY <2>1, <2>2, <2>3
<1>2. ASSUME NEW k \in Kinds, NEW n \in Lengths, ServerTakes(k, n)
      PROVE  TypeInv'
  <2>1. outbox' \in Seq(IndexedFrames)
    <3>1. PICK new \in Seq(IndexedFrames) : outbox' = outbox \o new
      BY <1>2, SubmitTypes DEF ServerTakes
    <3>2. QED
      BY <3>1 DEF SenderOK
  <2>2. SenderOK'
    BY <1>2, <2>1, SubmitTypes DEF ServerTakes, SenderOK
  <2>3. EngineOK' /\ CallOK'
    BY <1>2 DEF ServerTakes, EngineOK, CallOK
  <2>4. QED
    BY <2>2, <2>3
<1>3. ASSUME NEW n \in 1 .. MaxFrames, ServerSends(n) PROVE TypeInv'
  <2>1. /\ SubSeq(outbox, 1, n) \in Seq(IndexedFrames)
        /\ SubSeq(outbox, n + 1, Len(outbox)) \in Seq(IndexedFrames)
    <3>1. n \in Nat /\ n <= Len(outbox) /\ outbox \in Seq(IndexedFrames)
      BY <1>3, ReassemblyAssumption DEF ServerSends, SenderOK
    <3>2. QED
      BY <3>1
  <2>2. SenderOK'
    BY <1>3, <2>1, TransmitTypes DEF ServerSends, SenderOK
  <2>3. EngineOK'
    BY <1>3 DEF ServerSends, EngineOK
  <2>4. CallOK'
    BY <1>3 DEF ServerSends, Transmit, CallOK
  <2>5. QED
    BY <2>2, <2>3, <2>4
<1>4. QED
  BY <1>1, <1>2, <1>3

LEMMA StartReceiveTypes ==
  ASSUME TypeInv, NEW d \in datagrams, StartReceive(d)
  PROVE  TypeInv'
<1> USE DEF TypeInv, StartReceive, sender
<1>1. d.seq \in SeqNums
  BY DEF SenderOK, IndexedDatagrams
<1>2. SenderOK'
  BY DEF SenderOK
<1>3. EngineOK'
  BY <1>1, RecordType DEF EngineOK
<1>4. CallOK'
  BY ReassemblyAssumption DEF CallOK
<1>5. QED
  BY <1>2, <1>3, <1>4

LEMMA FrameTypeInHand ==
  ASSUME TypeInv, InCall
  PROVE  NextFrame \in IndexedFrames
<1>1. current \in IndexedDatagrams
  BY DEF TypeInv, CallOK, SenderOK, InCall
<1>2. /\ current.frames \in Seq(IndexedFrames)
      /\ next_frame \in 1 .. Len(current.frames)
  BY <1>1 DEF TypeInv, CallOK, InCall, IndexedDatagrams
<1>3. QED
  BY <1>2 DEF NextFrame

(* route_frame puts a body under its own order index.                       *)
LEMMA RouteTypes ==
  ASSUME TypeInv, NEW t \in IndexedTemplates, NEW body, Route(t, body)
  PROVE  DOMAIN order_queue' \subseteq SeqNums
<1>1. CASE IsOrdered(t)
  BY <1>1 DEF IsOrdered, IndexedTemplates, Route, TypeInv, EngineOK
<1>2. CASE ~IsOrdered(t)
  BY <1>2 DEF IsOrdered, Route, TypeInv, EngineOK
<1>3. QED
  BY <1>1, <1>2

LEMMA ProceedTypes ==
  ASSUME TypeInv, Proceed
  PROVE  /\ SenderOK' /\ CallOK'
         /\ recv_window' \in Window /\ pending_acks' \subseteq SeqNums
         /\ next_delivery_order_index' \in SeqNums
<1> USE DEF TypeInv, Proceed, sender, given
<1>1. SenderOK'
  BY DEF SenderOK
<1>2. CallOK'
  BY DEF CallOK
<1>3. QED
  BY <1>1, <1>2 DEF EngineOK

(* The group of a fragment, and the group with the fragment in it.          *)
LEMMA GroupTypes ==
  ASSUME TypeInv, NEW f \in IndexedFrames
  PROVE  /\ f.id \in Ids
         /\ Added(Group(f), f).template \in IndexedTemplates
         /\ Added(Group(f), f).count \in Nat
         /\ DOMAIN Added(Group(f), f).fragments \subseteq Nat
<1>1. f.id \in Ids /\ f.index \in Nat /\ f.count \in Nat
      /\ f.template \in IndexedTemplates
  BY DEF IndexedFrames
<1>2. /\ Group(f).template \in IndexedTemplates
      /\ DOMAIN Group(f).fragments \subseteq Nat
  <2>1. CASE f.id \in DOMAIN reassemblers
    BY <2>1 DEF Group, TypeInv, EngineOK
  <2>2. CASE f.id \notin DOMAIN reassemblers
    BY <2>2, <1>1 DEF Group
  <2>3. QED
    BY <2>1, <2>2
<1>3. QED
  BY <1>1, <1>2 DEF Added

LEMMA ReceiveTypes ==
  ASSUME TypeInv, HandleWholeFrame \/ KeepFragment \/ CompleteGroup
  PROVE  TypeInv'
<1>1. InCall /\ Proceed
  BY DEF HandleWholeFrame, KeepFragment, CompleteGroup
<1>2. NextFrame \in IndexedFrames
  BY <1>1, FrameTypeInHand
<1>3. PICK f \in IndexedFrames : f = NextFrame
  BY <1>2
<1>4. PICK g : g = Added(Group(f), f)
  OBVIOUS
<1>5. /\ f.id \in Ids /\ f.template \in IndexedTemplates
      /\ g.template \in IndexedTemplates /\ g.count \in Nat
      /\ DOMAIN g.fragments \subseteq Nat
  BY <1>4, GroupTypes DEF IndexedFrames
<1>6. CASE HandleWholeFrame
  <2>1. Route(f.template, f.body) /\ UNCHANGED reassemblers
    BY <1>3, <1>6 DEF HandleWholeFrame
  <2>2. DOMAIN order_queue' \subseteq SeqNums
    BY <2>1, <1>5, RouteTypes
  <2>3. EngineOK'
    BY <2>1, <2>2, <1>1, ProceedTypes DEF TypeInv, EngineOK
  <2>4. QED
    BY <2>3, <1>1, ProceedTypes DEF TypeInv
<1>7. CASE KeepFragment
  <2>1. /\ reassemblers' = [ i \in DOMAIN reassemblers \cup {f.id} |->
                               IF i = f.id THEN g ELSE reassemblers[i] ]
        /\ UNCHANGED order_queue
    BY <1>3, <1>4, <1>7 DEF KeepFragment
  <2>2. DOMAIN reassemblers' \subseteq Ids
    BY <2>1, <1>5 DEF TypeInv, EngineOK
  <2>3. \A i \in DOMAIN reassemblers' :
          /\ reassemblers'[i].template \in IndexedTemplates
          /\ reassemblers'[i].count \in Nat
          /\ DOMAIN reassemblers'[i].fragments \subseteq Nat
    BY <2>1, <1>5 DEF TypeInv, EngineOK
  <2>4. EngineOK'
    BY <2>1, <2>2, <2>3, <1>1, ProceedTypes DEF TypeInv, EngineOK
  <2>5. QED
    BY <2>4, <1>1, ProceedTypes DEF TypeInv
<1>8. CASE CompleteGroup
  <2>1. /\ reassemblers' = WithoutGroup(f.id)
        /\ Route(g.template, Assembled(g))
    BY <1>3, <1>4, <1>8 DEF CompleteGroup
  <2>2. DOMAIN order_queue' \subseteq SeqNums
    BY <2>1, <1>5, RouteTypes
  <2>3. EngineOK'
    BY <2>1, <2>2, <1>1, ProceedTypes DEF TypeInv, EngineOK, WithoutGroup
  <2>4. QED
    BY <2>3, <1>1, ProceedTypes DEF TypeInv
<1>9. QED
  BY <1>6, <1>7, <1>8

LEMMA FailReceiveTypes ==
  ASSUME TypeInv, FailReceive
  PROVE  TypeInv'
<1> USE DEF TypeInv, FailReceive, sender
<1>1. SenderOK'
  BY DEF SenderOK
<1>2. EngineOK'
  BY DEF EngineOK, WithoutGroup
<1>3. CallOK'
  BY DEF CallOK, InCall
<1>4. QED
  BY <1>1, <1>2, <1>3

LEMMA FinishReceiveTypes ==
  ASSUME TypeInv, FinishReceive
  PROVE  TypeInv'
<1> USE DEF TypeInv, FinishReceive, sender
<1>1. SenderOK'
  BY DEF SenderOK
<1>2. next_delivery_order_index' \in SeqNums
  BY RunLengthIs, SeqAddType DEF EngineOK
<1>3. DOMAIN order_queue' \subseteq SeqNums
  BY DEF EngineOK
<1>4. EngineOK'
  BY <1>2, <1>3 DEF EngineOK
<1>5. CallOK'
  BY DEF CallOK
<1>6. QED
  BY <1>1, <1>4, <1>5

LEMMA StutterTypes ==
  ASSUME TypeInv, UNCHANGED vars
  PROVE  TypeInv'
BY DEF TypeInv, SenderOK, EngineOK, CallOK, vars, sender, engine, call, given

(***************************************************************************)
(* The engine's and the sender's state keep their types, whatever the       *)
(* network does and however many payloads are sent: in particular the order *)
(* queue is keyed by order indices and the datagram in hand, the failed ones*)
(* and those that arrived were sent (on_datagram_received).                 *)
(***************************************************************************)
THEOREM TypesHold == Spec => []TypeOK
<1>1. ASSUME TypeInv, [Next]_vars PROVE TypeInv'
  <2>1. CASE Next
    BY <1>1, <2>1, SenderTypes, StartReceiveTypes, ReceiveTypes,
       FailReceiveTypes, FinishReceiveTypes DEF Next
  <2>2. QED
    BY <1>1, <2>1, StutterTypes
<1>2. QED
  BY InitTypes, <1>1, TypeInvTypes, PTL DEF Spec
=============================================================================
