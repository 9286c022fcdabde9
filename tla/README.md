# A TLA+ verification of mcget

mcget (`src/`) is a Rust library and command-line tool that asks Minecraft
servers who they are: over TCP (Java edition), over one UDP exchange (Bedrock
ping), and over a full RakNet session with ordered, acknowledged delivery, a
login and encryption (Bedrock connect). This directory holds TLA+ modules
translated from its source, the TLC configurations that check them, and theorems
about them that TLAPS checks.

Line numbers refer to files of `src/src/`; those of `src/src/bedrock/` are named
without their directory.

## 1. Inventory

### Reliability engine (`reliability.rs`)

*State.* `ReliabilityEngine`: four counters for what is sent
(`next_datagram_seq`, `next_message_index`, `next_order_index`,
`next_sequence_index`, all modulo 2^24), the map `unacked` of datagrams kept for
retransmission, the receive window (`DatagramWindow`: `lowest_unseen`,
`highest_seen`, `received`, `started`), the set `pending_acks`, the
`order_queue` with `next_delivery_order_index`, the reassemblers, the round-trip
time and the time of the last reception.

*Operations.* `prepare_send` (number, split, encode, remember),
`on_datagram_received` (record, schedule an ACK, reassemble, route),
`drain_ordered`, `on_ack`, `on_nack`, `drain_acks`, `build_nack`, `resend_due`,
`is_alive`.

*Interaction.* It does no I/O. `ReliableConnection` owns it behind a mutex; the
calls of the application and the tick task take turns on it.

*Hard.* Circular arithmetic; reordering, loss and duplication; resends that race
their ACKs; a step of `prepare_send` that fails after the indices are taken; one
ACK packet that stands for many datagrams.

*Correct if* ordered messages come out in order, none twice and none left out,
and all of them in the end; a datagram is remembered until it has arrived; no
ACK names what has not arrived; a NACK names the gaps exactly; duplicates are
recognised, and nothing else is taken for one, across the wrap too.

### ACK/NACK records, datagram codec, reassembly (`datagram.rs`)

*State.* None but `Reassembler` (fragments of one split payload, by index).
*Operations.* encode and decode of datagrams, frames and acknowledgements,
`Incoming::classify`, `split_into`, `Reassembler::add`. *Hard.* Records of
coalesced numbers; fragments that arrive twice, or of two payloads with one
`split_id`; sizes at the MTU. *Correct if* a record names the numbers it was
made of, decoding undoes encoding, and reassembly undoes splitting in whatever
order the fragments come.

### Reliable session (`reliable_conn.rs`)

*State.* The engine, `SessionState` (online, disconnected, ping times), the
optional encryption, all three behind mutexes of their own; the delivery queue
(frames for `recv`) and the outgoing queue (packets of the tick task), both of
bounded size.

*Operations.* `recv`, `send`, `connect_online`, `ping`, `disconnect`, the game
packet and login calls; `handle_incoming` inside `recv` and `connect_online`;
`tick_loop` in a task of its own; `Drop`.

*Interaction.* The application calls; `recv` and `connect_online` pump the
socket; the tick task puts ACKs, NACKs and resends into the outgoing queue; any
call that sends, and every turn of the pump, empties that queue into the socket.

*Hard.* Every await is a point where other tasks come between or the caller
drops the call; a lock is given up before what it protected is used; the queues
are finite; the tick task may end by itself.
No code path waits for a mutex while it holds another one, so the locks cannot
deadlock; what can block is the queues, and both are used without waiting
(`try_send`, `try_recv`).

*Correct if* `recv` returns the application's frames in order and without holes
unless a call has failed; no released frame is left lying somewhere; the session
is online only after both halves of the online handshake; ACKs go out also on an
idle network; a dead session is reported.

### RakNet offline handshake (`conn.rs`)

*State.* The position in the list of MTU candidates, attempts used, Reply 1's
parameters, and two timeouts, one per attempt and one for the whole exchange.
*Operations.* `ConnectBuilder::send` with `stage1` and `stage2`, then raw
`send_datagram` and `recv_raw`. *Interaction.* A UDP socket connected to the
server; packets that this exchange leaves in the socket are met by the reliable
session. *Hard.* Late replies to earlier attempts, stray packets, ICMP errors
that surface at a later call, servers that restart between the stages.
*Correct if* the parameters it returns were offered and confirmed by one
server, the MTU fits the path, and a healthy server is reached.

### System messages (`message.rs`), login (`login.rs`), encryption (`encryption.rs`), game packets (`protocol.rs`)

*State.* Messages and packets are pure data with a classifier. The session keeps
`network_settings` (how batches are compressed) and `encryption`, an
`EncryptionSession` with two counters that must stay in step with the peer's.

*Operations.* `send_game_packet`, `recv_game_packet`, `login_offline`,
`establish_encryption`; encode and decode of packets and batches; `encrypt` and
`decrypt`. *Interaction.* Game packets travel in batches, batches in frames of
the reliable session; any task may send one during a login.

*Hard.* A frame is classified before it is decrypted
(`reliable_conn.rs:533`); counters move when decryption fails; the settings' and
the encryption's locks are given up before the packet is sent
(`reliable_conn.rs:370`); only the first packet of a batch is looked at. A batch
does not say in which of its three shapes it is written.

*Correct if* no key and nonce are used twice, what reaches the server counts without
a gap, a login that returns `Ok` was accepted and not one the server wanted
encrypted, and every login returns; decoding undoes encoding.

### Pings (`java.rs`, `ping.rs`), codecs (`varint.rs`, `raknet.rs`, `addr.rs`), command line (`bin/mcget.rs`)

The pings are sequential request/response exchanges. The codecs are pure
functions. `mcget` starts a task per host and protocol, each under a timeout of
its own, and collects the results from a channel as they come, in a map from
hosts to what is still missing. *Hard:* the order of the results, a host that is
given twice, a query that panics and sends no result, the end of the channel.
*Correct if* decoding undoes encoding at every limit and a packet that was cut
short is not taken for another; the exit code says what the screen shows, a
failure is only shown if nothing succeeded, and the program stops.

Locales, error types, the crate root and the examples have no behaviour of their
own. `PROJECT.json` lists all components with their status, and under "hazards"
what in this code is hard to test, each at its line.

## 2. Modules

| Module | Models | Source |
|---|---|---|
| `SeqArith` | the 24-bit circular numbers, and the loop that takes a run of consecutive numbers from a set | `reliability.rs:41-58, 125-131, 172-183, 369-380` |
| `AckRanges` | ACK/NACK records: how they are built, what they mean, what the walk of `on_ack` and `on_nack` visits | `reliability.rs:190-198, 382-426, 493-518`, `datagram.rs:552-583` |
| `DatagramWindow` | the receive window | `reliability.rs:71-169` |
| `WindowTracking` | a window fed by a network, beside unbounded logical numbers | composes `DatagramWindow` |
| `OrderedChannel` | what ordered delivery promises: a first-in first-out channel | abstract |
| `ReliableLink` | one direction of a session: a sending engine, a receiving engine, a lossy, duplicating, reordering network both ways | `reliability.rs:200-473`, composes `DatagramWindow` |
| `Handshake` | the offline handshake, a server that may crash and restart, the network, time | `conn.rs` |
| `Session` | the reliable session around the engine: calling tasks, the tick task, both queues | `reliable_conn.rs` |
| `Reassembly` | split payloads: `split_into`, the groups of fragments and the order queue, frame by frame | `datagram.rs:755-873`, `reliability.rs:255-380`, composes `DatagramWindow` |
| `Login` | `login_offline`, game packets sent and received, the encryption's keys and counters | `reliable_conn.rs:324-501`, `encryption.rs` |
| `CliRun` | the command: query tasks, their timeouts, the channel and the map of results | `bin/mcget.rs`, with the steps of `java.rs` and `ping.rs` |
| `PacketBuf` | the cursor every RakNet parser reads through, and the number formats | `raknet.rs` |
| `DatagramCodec` | frames, datagrams, ACK and NACK packets, their dispatch | `datagram.rs` |
| `MessageCodec` | the connected system messages | `message.rs` |
| `GamePackets` | varuint32, zig-zag, packets, batches, the payloads of the login | `protocol.rs`, `login.rs` |
| `OfflineCodec` | ping, pong, the requests and replies of the offline handshake | `ping.rs`, `conn.rs:620-739` |
| `JavaCodec` | VarInt and the packets of the Java ping | `varint.rs`, `java.rs` |
| `HostPort` | a typed target, split into host and port | `addr.rs` |
| `Wire` | everything that is written or read: encoded, perhaps cut short, read | composes the codecs |
| `MC...` | the values TLC needs: kinds, streams, candidate lists; `MCWire` sets `WindowTracking` beside `Wire`, since the window is fed with what has been read | |
| `DatagramLemmas` | facts about the datagram layer: the arithmetic, the window, the records | |
| `DatagramProofs` | theorems on a datagram's number in the window and on its bytes on the wire | |
| `LoginProofs` | theorems on the login, and on the bytes of the packets it consists of | |
| `ReliableLinkProofs`, `ReassemblyProofs`, `HandshakeProofs`, `SessionProofs`, `CliRunProofs` | the theorems | |

Definitions keep the names of the source, in the form TLA+ gives to operators.
`PROJECT.json` maps every definition to its lines. A definition whose comment
begins with "Mutant of" is a deliberately wrong variant of the one after it; no
specification uses it. TLC finds the property that goes with it violated when it
takes the place of the right one, which shows that the property depends on the
code it is about.

### How states and actions correspond to code

**`ReliableLink`.** The sender's variables are the fields of one engine, the
receiver's those of the other; the two halves of one engine share nothing
that the model separates. `PrepareSend` is `prepare_send` and the socket send
after it. `PrepareSendFails` is `prepare_send` with an error: the indices are
taken by then (`reliability.rs:269`), the datagram number only if `encode`
failed. `ReceiveDatagram` is
`on_datagram_received` and `drain_ordered`, which `handle_incoming` runs under
one lock. `ReceiveAck` and `ReceiveNack` are `on_ack` and `on_nack`, `FlushAcks`
is the receiver's tick (`drain_acks`, `build_nack`) and `ResendDue` the
sender's. The abstractions: a payload is its number; a datagram carries one
frame (the engine puts all the fragments of a payload into one datagram, so they
arrive together); which datagrams are due for a resend is any subset of the
unacknowledged ones, in place of the clock. A lone number in an ACK or NACK is
written as a single record, as mcget does, or as a span from the number to itself,
as another implementation may: `FlushAcks` leaves it open.

**`Session`.** The engine is taken from `OrderedChannel`: a datagram releases
some next frames of the peer's ordered stream. That is what `ReliableLink`
implements, so `Session` can ask the next question: what becomes of released
frames. Each receiver has a place (`pc`), the call it is in, and the frames
that `handle_incoming` still holds in its local vector (`hand`). One step is
what a task does between two points where others may run: taking from the
delivery queue, receiving a datagram under the engine's lock, forwarding or
answering one frame, `on_request_accepted` in its two halves, and the flush.
`Cancel` is the caller dropping the call at an await, `Broken` a failing send or
receive. A flush gives each packet to the socket, and one that the socket refuses
is gone, as the error is ignored (`reliable_conn.rs:582-584`). `Tick` is one turn of
`tick_loop`, with an ACK that does not encode left out (`:616-618`) and the packets
that find no room dropped after `pending_acks` has been emptied (`:638`). A datagram
may release frames whether the window calls it new or old, and whether or not the
first send of the `ConnectionRequest` succeeded: it is resent.

**`Handshake`.** `pc` follows `send` through resolution and the two stages;
`candidate` and `tries` are its loop variables. Time is counted in units and
passes only while the client waits; `waited` adds up how much of it had a packet
on its way. A lost packet is one that stays in flight. The
server answers, crashes, and restarts with another identity; while it is down,
its host may refuse a request, and the error waits on the client's socket until
the next call, a send or a receive, meets it.

**`WindowTracking`.** The network hands over logical numbers, at most `Lag`
before and `Ahead` after the first gap; the window sees them modulo the circle.

**`Reassembly`.** A payload is a sequence of chunks, a chunk what one frame
carries. The other end is an mcget (`PrepareSend`: all frames in one datagram) or
a server (`ServerTakes`, `ServerSends`: fragments apart, payloads mixed).
`StartReceive`, one action for each way a frame can go (`HandleWholeFrame`,
`KeepFragment`, `CompleteGroup`) and `FinishReceive` are one call of
`on_datagram_received` with the `drain_ordered` after it. The call holds the
engine's lock, so nothing of the receiver comes in between; it is cut into frames
because of `FailReceive`: an error of `Reassembler::add` leaves the call with the
number recorded, the group gone and the frames routed so far forgotten, but for
those in the order queue. `released` and `returned` record what the caller gets.

**`Login`.** `phase` is the position of `login_offline`, `sending[t]` that of task
`t` in `send_game_packet`: `ChooseFormat` under the settings' lock, `Seal` under
the encryption's, `Transmit` under the engine's. `TakeFrame` is `recv`;
`DecryptFails` and the `Got...` actions are what comes of the frame, with the
handler of `login_offline` up to its next await. `Deadline` is
`recv_game_packet_with_deadline` giving up, with or without a frame in hand,
`LoginDrops` the caller dropping `login_offline` while it sends (a new session before
its answer is out for one, `reliable_conn.rs:347-348`), and `Retry` the caller's next
attempt on the same connection. The two directions are
queues, which is what `ReliableLink` and `Session` establish. A ciphertext is
named by its key and counter; `looks` says what its first byte happens to be
taken for. `Opens` asks for three things: the server has the client's public key,
both have the same handshake, and the counters agree. The first never holds:
`PublicKeys` lists what a packet carries of them, and no packet carries any. The
server is external: it answers with any batches, encrypted or in clear behind a
handshake, but accepts only a login that has reached it.

**`CliRun`.** `Main` is the thread of `main`: `Start`, `Spawn` for each host,
`Receive` for each result, the pass over what is left in the map, the exit. A task
goes through the steps of `query_java` or `query_bedrock` (resolve, connect, send,
wait, and for Java the second exchange) and ends with a result in the channel, or
in a panic without one. `TimeOut` ends any step but the resolution, which blocks.

**`Wire`.** One item is encoded, perhaps cut short, and read. The codecs'
loops are recursive functions and folds; a cursor that has failed stays failed
in place of the code's `?`.

## 3. Runs

Passing runs:

| Run | Checks | What it shows |
|---|---|---|
| `wire` | `NewOnceFromFirstOn`, `NackNamesTheGaps`, `FramesReadBack`, `BatchesReadBack`, `OfflineReadBack`, `JavaReadBack`, `NeverMisread`, `TypeOK` | what one end writes the other reads back, at the limits of every field, and what was cut short is not taken for something else. The window, across two wraps of the circle: each number from the first arrival on is called new once, and a NACK names the gaps exactly |
| `link` | `OrderedPrefix`, `ImplementsChannel`, `AcksNameArrivals`, `SpansForgetNothing`, `OrderedEventuallyReleased`, `TypeOK` | ordered delivery, honest ACKs and the refinement of `OrderedChannel` with a failing `prepare_send`, single records and spans, loss, duplication and reordering; ACKs made of spans forget nothing early; every ordered message is released in the end where no single record comes and no call fails |
| `handshake` | `NegotiatedByOneServer`, `UsableMtu`, `SmoothRunsConnect`, `TypeOK` | the handshake with retries, late, slow and stray packets, crashes, and paths that swallow the largest candidate |
| `session` | `ReturnedInOrder`, `EveryFrameHandled`, `AcksFlushed` | one receiving task, full queues, and a failing send, a refusing socket or a dropped call at any point: the frames come in order, every released one gets somewhere, and a due ACK reaches the socket |
| `session_tasks` | `ReleasedOnce`, `OnlineConfirmed`, `AcksKept`, `TypeOK` | two tasks that pump one session at once, with the same faults: every released frame is at one place, and an ACK that is due is forgotten in five named ways only |
| `reassembly` | `WholeInOrder`, `WholeUnordered`, `DamageConfined`, `TypeOK` | payloads come out whole and in order whatever is lost, repeated or reordered; a failing call costs only payloads of its own datagram; a mixture only comes from a split id used twice |
| `login` | `NonceOnce`, `LoginEarned`, `OkOnlyInClear`, `HandshakeFirst`, `LoginReturns`, `TypeOK` | the login, retried and dropped half way, beside a task that sends and drops game packets and a server that encrypts, goes on in clear or answers out of order |
| `cli` | `ExitCodeTruthful`, `FailuresSuppressed`, `EverySuccessPrinted`, `CommandEnds`, `TypeOK` | every command line of up to two hosts in every mode, with every order of results, timeouts, bad answers and panics |

Runs that end in a violation. Each checks one statement that a doc or comment of
the repository makes, and TLC shows how the code departs from it.

| Run | Statement | What the code does |
|---|---|---|
| `wire_cut` | `CutIsAnError`: a field that is cut short is an error, "need 2 bytes, got {}" (`message.rs:343-347`) | the slice that is handed to that check is taken first: a `ConnectionRequestAccepted` that ends before or inside its system index panics in the task that called `recv` (`message.rs:219`) |
| `link_single_ack` | `KeptUntilArrived`: a datagram is kept "so it can be retransmitted until acknowledged" (`reliability.rs:14-15`) | the walk over a single record has no end to stop at but a whole turn of the circle: an ACK for one datagram removes all (`reliability.rs:392`) |
| `link_lost_ack` | `EventuallyAcknowledged`: "generate ACKs for what arrived" (`reliability.rs:17`) | only a new datagram is put into `pending_acks`; if its one ACK is lost, copies are never acknowledged and are resent for ever (`reliability.rs:319`) |
| `session_dead` | `DeadSessionFails`: in a dead session "`recv` returns an error" (`reliable_conn.rs:31-33`) | the tick task ends, nothing closes the delivery queue, and `recv` polls for ever (`reliable_conn.rs:630`) |

### Bounds, and why they are enough

- The circle has 8 numbers (`Half = 4`) in place of 2^24. It is the smallest on
  which "behind", "ahead", and the half-way point of `seq_greater` are
  distinct with room to reorder. The window in `wire` goes twice round it
  (`MaxNumber = 17`), with arrivals up to 3 behind and 2 ahead of the first gap: the
  widest for which the window can agree with unbounded numbers, one less than half
  the circle behind and two less ahead. With `Ahead = 3`, two numbers in flight can
  be half a circle apart, and `seq_greater` no longer orders them.
- `link` sends three payloads. Two reorderings among three
  datagrams reach every path through the order queue: in order, waiting, a gap
  filled with a run released behind it. Fewer payloads than numbers
  means that indices do not wrap in this run; the window's run covers the wrap of
  datagram numbers. Order indices that wrap are excluded on purpose, see section 4.
  Two control packets in flight let an ACK and a NACK of different ticks cross.
  One `prepare_send` may fail, enough to leave a gap before,
  between or after successful ones. Frames behind such a gap are held back for good,
  which the model shows (they are never released) and `OrderedPrefix` permits. The
  kinds are an ordered and an unordered one; the sequenced kinds are left out, as what
  the engine does with them is not what their doc says (section 5).
- `handshake` has three candidates, one of them below `MIN_MTU`, two attempts
  for each, twelve units of time, and one fault (crash, stray or duplicated
  packet): a second candidate, a second attempt in each stage and every
  timeout are reached, and the fault falls at every point. An attempt of stage 1 lasts
  two units, one of stage 2 six, so that Reply 2 may be slower than an attempt of
  stage 1. The path carries either all or all but the largest candidate.
- `session` and `session_tasks` have an outgoing queue of one packet and a delivery
  queue of two frames or one, so both overflow; a datagram may release four frames or
  three. Two datagrams are enough for one to find what another has left behind, and for
  two tasks to have frames in hand at once. One fault (an error
  from outside or a dropped call) falls at every await, also between the queue
  and the socket, where it takes a packet along. The streams of the two
  hold every kind of frame, a malformed one included, but a pong, which the
  session notes as it does a disconnect.
- `session` has one receiving task, as its properties need: with two, frames of two
  datagrams can overtake each other between the engine's lock and the delivery
  queue (`reliable_conn.rs:527`), and `ReturnedInOrder` does not hold.
- `reassembly` sends three payloads of one or two chunks, ordered and unordered,
  with two split ids for three payloads, so that ids meet; a server puts up to two
  frames into a datagram, so that fragments travel alone, together, and with those
  of another payload; two repetitions are enough to bring back a fragment to a
  waiting group and to one that is complete. The circle has 16 numbers, more
  than there are datagrams. 2.2 million states.
- `login` has one task beside the login, which sends one packet: it may fall between
  any two steps of a send of the login. Two attempts renew nothing but the waiting:
  once a session is installed no frame opens, so no second one replaces it. Nonces
  have 16 values, more than are used (past that they repeat, in the code after 2^32
  packets). Three batches of the server are a whole login and not more. The batches are
  one for each branch of the client and one with a handshake behind another packet.
- `cli` has two hosts and up to two arguments, so a host is given twice, once, or not
  at all; the resolver gives nothing, an IPv4 address, or one of each family.
- `wire` sends some 450 items: each field at zero, at the largest value and
  around the ends of its bytes, lists of zero to two entries, all optional
  fields absent and present, frames that `encode` refuses. Packets up to
  400 bytes are cut everywhere, longer ones near their ends. The properties are per
  item, so one item at a time is enough.

### Fairness, and why the code justifies it

- *Link.* Both tick tasks run every 10 ms, so flushes and resends of what
  stays unacknowledged happen again and again (weak fairness of `FlushAcks` and of
  `ResendDue` on everything outstanding). A packet sent over and over
  is received some time (strong fairness of receiving each payload's datagram, and of
  receiving an ACK): the least any
  retransmitting protocol needs. Nothing rests on a NACK. Nothing obliges the
  application to send or the network to be reliable at any given moment.
- *Session.* A task of the executor that can go on does so, the tick task
  too (weak fairness). The application calls `recv` again when a call has
  returned. `connect_online`'s deadline stays past once it is past, so the check
  at the top of its loop finds it some time (strong fairness of
  `ConnectTimesOut`). No datagram need ever come. Errors from outside and dropped
  calls are finitely many; a caller who cancels every `recv` before its 50 ms
  poll ends would starve the flush, and is listed as a hazard.
- *Login.* The executor runs the task of the login when it can go on, the locks it
  waits for are given up after every step, and the clock reaches the deadline (weak
  fairness of `LoginStep`). Nothing is assumed of the server or of other tasks.
- *Command.* The main thread runs, `getaddrinfo` returns, and timers fire (weak
  fairness of `Main`, `Resolve` and `TimeOut`). No server need ever answer.
- *Handshake, window, reassembly and wire.* Safety only.

`EveryFrameHandled` and `AcksFlushed` say what the code can promise: a frame
counts as handled when the failing call that held it is one the caller is told
of, and an ACK is owed only while the tick task lives, has not met a full
queue, and no packet was lost between the engine and the socket: one that does not
encode, one that the socket refuses, or one that a dropped call held.
`AcksKept` says that there is no other way to forget one. The exceptions are
listed as hazards. `OrderedEventuallyReleased` says that the tick tasks' resends bring
every ordered payload through, as long as no `prepare_send` fails and no ACK with a
single record is on its way: either may block the stream for good, which the
hazards at `reliability.rs:269` and `:392` are about.

## 4. Theorems

Every theorem holds for all values of the constants that meet the assumptions
named in the modules (`HalfAssumption`, `BoundsAssumption`, `LinkAssumption`,
`ReassemblyAssumption`, `HandshakeAssumption`, `SessionAssumption`,
`LoginAssumption`, `CommandsAssumption`, `ResolutionsAssumption`, `ItemsAssumption`: constants have
their types and the values that stand for "none" are not among them, nothing more) and
the ones listed here.

| Theorem | States | Beyond the named assumptions |
|---|---|---|
| `DatagramProofs!NewOnce` | `Spec => []NewOnceFromFirstOn` | `Lag < Half`, `Ahead < Half` |
| `DatagramProofs!NackIsExact` | `Spec => []NackNamesTheGaps` | `Lag < Half`, `Ahead + 1 < Half` |
| `DatagramProofs!TypesHold` | `Spec => []TypeOK` | `Lag < Half`, `Ahead < Half` |
| `ReliableLinkProofs!TypeCorrect` | `Spec => []TypeOK` | none |
| `ReliableLinkProofs!OrderedDelivery` | `Spec => []OrderedPrefix` | `MaxSend < Mod` |
| `ReliableLinkProofs!Implements` | `Spec => ImplementsChannel` | `MaxSend < Mod` |
| `ReliableLinkProofs!AcksAreTrue` | `Spec => []AcksNameArrivals` | none |
| `ReliableLinkProofs!SpansAreSafe` | `Spec => SpansForgetNothing` | `MaxSend < Mod` |
| `ReassemblyProofs!SplitOrdered` | `Spec => []WholeInOrder` | `MaxSend < Mod` |
| `ReassemblyProofs!SplitUnordered` | `Spec => []WholeUnordered` | `MaxSend < Mod` |
| `ReassemblyProofs!FailureConfined` | `Spec => []DamageConfined` | `MaxSend < Mod` |
| `ReassemblyProofs!TypesHold` | `Spec => []TypeOK` | none |
| `DatagramLemmas!CoalesceExact` | `NamedBy(CoalesceRanges(seqs)) = seqs` for every set of numbers | none |
| `DatagramProofs!FrameReadsBack` | `DecodeFrame` undoes `EncodeFrame`, anywhere in a packet | none |
| `DatagramProofs!DatagramReadsBack` | `Classify` undoes `EncodeDatagram`, for any number of frames | none |
| `DatagramProofs!CutDatagramNotMisread` | of a datagram cut short, whole frames are left or nothing | none |
| `DatagramProofs!AckReadsBack` | `Classify` undoes `EncodeAck`, for up to 65535 records | none |
| `DatagramProofs!CutAckRefused` | an ACK or NACK cut short is refused | none |
| `DatagramProofs!MessageReadsBack` | `ClassifyMessage` undoes `EncodeMessage` | none |
| `DatagramProofs!OpenSessionReadsBack` | `WireSpec => []FramesReadBack` | none |
| `HandshakeProofs!OneServer` | `Spec => []NegotiatedByOneServer` | none |
| `HandshakeProofs!MtuFits` | `Spec => []UsableMtu` | none |
| `HandshakeProofs!SmoothConnects` | `Spec => []SmoothRunsConnect` | `Room` |
| `HandshakeProofs!TypesHold` | `Spec => []TypeOK` | none |
| `SessionProofs!InOrder` | `Spec => []ReturnedInOrder` | one receiver |
| `SessionProofs!OnlineOnlyConfirmed` | `Spec => []OnlineConfirmed` | none |
| `SessionProofs!EveryFrameOnce` | `Spec => []ReleasedOnce` | none |
| `SessionProofs!AcksAreKept` | `Spec => AcksKept` | none |
| `SessionProofs!TypesHold` | `Spec => []TypeOK` | none |
| `LoginProofs!NoncesOnce` | `Spec => []NonceOnce` | none |
| `LoginProofs!HandshakeComesFirst` | `Spec => []HandshakeFirst` | none |
| `LoginProofs!LoginIsEarned` | `Spec => []LoginEarned` | none |
| `LoginProofs!OkInClear` | `Spec => []OkOnlyInClear` | none |
| `LoginProofs!TypesHold` | `Spec => []TypeOK` | none |
| `LoginProofs!VaruintReads` | `ReadVaruint32` undoes `WriteVaruint32`, for every 32-bit number, whatever follows | none |
| `LoginProofs!BodyReads` | `DecodeBatchBody` undoes `BatchBody`, for any number of packets | none |
| `LoginProofs!BatchBack` | `DecodeBatch` undoes `EncodeBatch`, in each of the three shapes | none |
| `LoginProofs!GameLayerReadsBack` | `WireSpec => []BatchesReadBack` | none |
| `CliRunProofs!ExitCode` | `Spec => []ExitCodeTruthful` | none |
| `CliRunProofs!Suppressed` | `Spec => []FailuresSuppressed` | none |
| `CliRunProofs!SuccessesPrinted` | `Spec => []EverySuccessPrinted` | none |
| `CliRunProofs!TypesHold` | `Spec => []TypeOK` | none |

The arguments:

- **The window.** `Agrees` is the refinement: `lowest_unseen` is the first gap
  modulo the circle, and `received` holds the arrivals beyond it. Everything then
  rests on one fact, `WireDiffers`: two numbers less than a turn apart differ on the
  circle. Arrivals in reach and the buffered ones lie within `Lag + Ahead + 1`
  numbers, less than a turn; `Lag < Half` makes a late copy look older than the
  gap, `Ahead < Half` makes the comparisons of `is_new` come out right. For
  the NACK, `highest_seen` has to be the highest arrival too (`HighestAgrees`), whose
  comparison may span one number more: hence `Ahead + 1 < Half`.
- **Ordered delivery.** `OrderedPrefix` alone is not inductive: draining keeps
  it only if the queue holds at each index the payload sent with that index,
  and the queue is filled from datagrams in flight, which are also refilled from
  `unacked`. `LinkInv` says of all of them that index and payload match the
  history of sends. It needs each order index to be used once: hence fewer
  sends than the circle has numbers. The assumption cannot be dropped: a late
  copy of a frame already released is put back into the queue
  (`reliability.rs:361`) and would be released again one turn later.
  `Implements` uses the same invariant: a receive releases the next stretch of
  `ordered`, every other step is a request or a stutter.
- **Honest ACKs.** `AckInv` says of `pending_acks` and of every ACK in flight
  that they name arrived numbers only; the step that builds an ACK needs the
  lemma that coalescing names nothing outside its set
  (`CoalesceNamesOnly`, in `DatagramLemmas`).
- **Spans are safe.** `KeptInv` adds that each number belongs to one datagram.
  The walk over a span visits exactly the numbers it names, those have arrived by
  `AckInv`, and so have their datagrams. A single record is walked round the whole
  circle, and of the ACKs that hold one nothing is said: they take away what has not
  arrived (`link_single_ack`).
- **Reassembly.** `Inv` says that every frame, on its way or in hand, is a fragment of
  a payload that was sent (`FramesTrue`), that a group's chunks stand at their
  indices and come from payloads with its split id (`GroupsTrue`), and that a body is
  the whole payload unless its chunks share an id with others (`BodiesTrue`). For
  the cost of a failing call, `CostInv` looks at payloads with an id of their own
  that no failed datagram carries: every chunk of one that has arrived, or that
  the call has been through, is in its group, unless the payload is out of the
  reassembler (`Placed`); and if all have arrived it is out for good (`DoneAreOut`).
- **Records.** `CoalesceExact` is the other half of honest ACKs: a number that is
  drained is named. Every member of a set lies in one of its maximal runs
  (`RunsCover`, from the least member of what is above the nearest gap below:
  `Least`, `Greatest`), and each run becomes one record that covers it, whether
  or not it ends at the wrap.
- **Frames on the wire.** The fields of an encoded frame stand one behind another
  (`HoldsParts`, seven times), each reader returns what its writer put
  (`ReadsU16`, `ReadsU24`, `ReadsSplit`, ...), and every optional field moves the
  cursor by its length or not at all. `data` is any packet that holds the frame at
  `pos`, so what stands before and behind does not matter, and the cursor ends
  where the next frame begins. `FrameValues` are the frames `encode` accepts; the
  channel of a frame without an order index is 0, as it is not sent.
- **Rows of frames and records.** The decoders' loops are recursive functions over
  cursor positions. What they do is proved by induction over sets of positions
  (`Upwards`, `Downwards`): from the end of the packet backwards, the loop at the
  start of frame `i` returns frames `i` and later. In a packet that is cut,
  the cursor of the frame that the cut falls into fails wherever it falls
  (each reader either returns what it returned in the whole packet, or fails, and
  never recovers), and with it the datagram; only a cut between two frames
  leaves a datagram, of the frames before it. An ACK says how many records it has,
  so any cut refuses it.
- **Messages.** Their fields stand at fixed offsets behind an id of their own. The
  list of addresses is twenty slots long in every packet; slots behind the last
  address hold zeros, addresses behind the twentieth are not sent.
- **An open session's packets.** `Underway` says that an item not yet cut is on the
  wire as encoded, and that what was received is what is read from it; with the
  theorems above, one for each family, `FramesReadBack` follows.
  `ItemsAssumption` gives the fields the types of their structs; a body that an application
  sends is not empty and does not begin with the id of a system message, since
  `classify` then takes it for that message or refuses it.
- **Varuint32.** Writer and reader are stated by the place value of each byte
  (`Place`). A number is the sum of its groups of seven bits; the writer ends at the
  highest that is not zero, which is the first unmarked byte, so the reader stops
  there (`MinIs`) and adds up the same groups. Of the bytes behind it nothing is
  read.
- **Batches.** The loop of `decode_batch_body` is a recursive function over the
  length of what is left, and each turn leaves less (`PacketShrinks`). `BatchLoop`
  unfolds it once; by induction over the packets still to come, the loop at the
  start of packet `i` returns packets `i` and later (`BodyReads`). `BatchBack`
  follows the reader's attempts in turn: behind the algorithm's zero a stream is
  found at once, a legacy batch begins with the stream's first byte and so not with
  a zero. One assumption is needed and is part of `AnyBatch`: the bytes of an
  uncompressed batch do not form a stream of the compressor, with or without the
  prefix (`LooksCompressed`), since the reader would take the batch for a compressed
  one (`protocol.rs:249-284`).
- **The login's payloads.** Fixed fields stand at fixed offsets (`SettingsBack`),
  lengths are varuint32 (`CountedReads`), and the protocol number is a varuint32
  whose lowest bit is the sign (`ZigZag`).
- **Types of the reassembly.** `TypeInv` adds what the types depend on: a frame of an
  ordered kind carries an order index, at the sender, in the network and in a
  group (`IndexedFrames` and the like), since the order queue is keyed by it; and
  the datagram in hand is one that has arrived.
- **Handshake.** `HandshakeInv` says that what is on its way to the client was
  said by a server, that only offers that fit reach a server, and that the
  candidate under trial is one large enough to be tried. `NextCandidateIs`
  shows that the search for the next candidate ends.
- **Smooth runs.** In a run in which nothing but the path has lost anything, and
  Reply 1 has come within its attempt, at most one kind of packet is on its way: the
  request of the attempt under way or its answer, or, in stage 2, requests
  for the same parameters and answers to them. Time passes with a packet
  on its way, and then counts as `waited`, or for a candidate that the path swallows,
  and those use up their attempts and no more (`Spent`). `Room` says that the attempts
  for one candidate fit into its even share of the timeout. So when the overall
  timeout fires, `waited` is at least what the candidates before the fitting one have
  left. `RoomForAll` derives `Room` from `Len(Candidates) * MaxRetries * Floor <=
  Timeout`, which the defaults meet (nine attempts of 500 ms, and 10 s). It cannot be
  dropped, as an attempt is never shorter than 500 ms however short the timeout is
  (`conn.rs:549-553`): with a timeout of 3 s the six attempts for two
  swallowed candidates use it up before the one that fits is tried.
- **Order in the session.** `OrderInv` says where every released frame is:
  returned, before the delivery queue, before the receiver's hand, each
  increasing (`InLine`), or lost to a call that failed (`Accounted`). A frame
  that is returned is then the least of those still to come. With two receivers
  both may have frames in hand, and `InLine` fails.
- **Every frame once.** `OnceInv` adds to `ReleasedOnce` that what is anywhere has been
  released (`Bounded`), so that the frames of the next datagram are nowhere yet:
  `next` moves under the engine's lock. Every later step takes one frame from a
  hand to a store, or from the delivery queue to the application, or a whole hand
  to `lost`. It holds for any number of receivers; only the order needs one.
- **ACKs.** `AcksKept` follows step by step from the types: `drain_acks` moves the
  list into a packet of the queue unless it is full or the packet does not encode, a
  flush moves packets to the socket and loses those that the socket refuses, a call
  dropped in a flush loses the one packet it held.
- **Online.** Between the reply and the state's update the receiver may be
  dropped and other tasks may run; `OnlineInv` says of every task that while it
  is about to mark the session online, the reply has been sent and the frame in
  its hand is an acceptance the engine has released. Whether the request's own first
  send succeeded does not matter, and the code does not ask.
- **Nonces.** `NoncesApart` says that the session's counter is ahead of everything
  encrypted with its key, that no key is newer than the newest session, and that no
  counter is larger than the number of encryptions before it, so that within one run of
  the nonce's 32 bits different counters are different nonces. Counters are advanced
  under the lock they are read under, and each session has a key pair of its own; the order
  of the sends does not matter.
- **Order of the login.** `OrderInv` says that as long as no two sends have
  overlapped, the newest packet sent is the newest one encrypted (`Steady`), or the newest one
  encrypted is about to be sent (`Sealed`), or the session is new and its
  handshake still to be encrypted (`Fresh`). `EarnedInv` adds that behind the
  settings the Login packet is on its way or sent, in a format of theirs.
- **Ok in clear.** A frame opens under a session only if some packet to the server
  carried the client's public key; none does (`PublicKeys`). So once a session is
  installed every frame fails, and `Ok` can only come of a frame read without one. The
  session never goes away, in later calls either.
- **The command.** `Genuine` ties the screen to the queries: a host shown as a success
  has answered. `AnswersShown` is the converse for a host given once, at the end; the
  exit code and the failures are proved over what is shown (`ExitCodeShown`) and carried
  over to what was answered by these two. `Remembered` says that the map and `any_failed` know what the
  screen shows, and `Shapes` that an entry in the map waits for at least one
  result: it leaves the map at zero, so the counter never runs below, also
  for a host given twice, whose last results find no entry.
  `Ledger` follows the results themselves: every one in the channel is its
  task's and the only one of it; what was answered is on the screen or waits in
  the channel; and a host given once stays in the map until the results of both
  its tasks have been taken, a counter of one meaning that at most one is still
  to come. The channel is empty when the loop ends, so nothing is left on its
  way.

Only model-checked:

- the liveness properties (`OrderedEventuallyReleased`, `EveryFrameHandled`,
  `AcksFlushed`, `LoginReturns`, `CommandEnds`): fairness is outside the prover's
  reach;
- `OfflineReadBack` and `JavaReadBack`. Their formats hold texts that end at a
  delimiter, numbers in decimal digits and UTF-8, which are read by going over the text
  itself, where the other layers' loops go over positions;
- `NeverMisread`, but for datagrams and ACKs, of which `CutDatagramNotMisread` and
  `CutAckRefused` say it for every value.

## 5. Not modelled

- The round-trip average, the resend deadline and the inactivity clock: any
  unacknowledged datagram may be due at any tick, and `FallSilent` may happen at
  any time. The order of events stays; when they happen is left open.
- Sizes in bytes of whole datagrams. All fragments of a payload go into one
  datagram, which no code compares with the MTU, and `FRAME_HEADER_MAX_OVERHEAD` is
  20 where a split `ReliableSequenced` frame needs 23.
- `Drop` of a connection (it aborts the tick task), and `send_datagram`, `recv_raw` and `close` of a raw `Connection`,
  which have no state of their own.
- JSON and JWT contents and their signatures; the ciphers, the key agreement and zlib
  (third-party code: of zlib only that a stream gives back what was put in).
- `VarLong`, which is the macro of `VarInt` with ten bytes and used nowhere;
  argument parsing, the choice of the locale, the layout of the output, name
  resolution (an input), locales, error types, examples.

What the modelling showed besides the findings, where the code departs from a doc
or leaves one open, without a run of its own:

- A datagram that is older than the first one to arrive is called old for good. The
  window begins at the first arrival (`reliability.rs:97-103`), so a first datagram that
  others overtook is no duplicate and yet `record` is false of it, where its doc says
  "new (i.e. not a duplicate or already-acked)" (`:93-94`). It is never ACKed, against
  "generate ACKs for what arrived" (`:17`), and its sender resends it for ever; its
  frames are processed. `NewOnceFromFirstOn` leaves such numbers out.
- The sequenced kinds are documented as "drop-if-stale" and "latest-only"
  (`datagram.rs:104-111`). The engine gives them an order index and queues them like
  ordered ones: a late one is never dropped, and a missing one holds back all behind
  it (`reliability.rs:356-380`). `OrderedPrefix` and the refinement describe that
  treatment for every kind that takes an order index; the run uses only
  `ReliableOrdered` and `Reliable`.
- A failing send of a queued packet is ignored since "the tick task will retry on the next
  resend window" (`reliable_conn.rs:582-584`). That is so for a datagram. An ACK is in
  no resend window: its numbers have left `pending_acks`, and it is lost. A NACK is
  built anew.
- The session is installed and used, but its public key (`client_public_b64`, "for the
  ClientToServerHandshake response / JWT header `x5u`", `encryption.rs:101-102`) is
  never sent: the login chain carries a placeholder (`login.rs:303-305`), and the answer
  to the handshake an encrypted empty payload. No server can derive the key, so the
  "PlayStatus (which now arrives encrypted)" (`reliable_conn.rs:483-484`) cannot be
  read, and a login that meets a handshake fails. `login_offline` is documented to
  fail then ("Fails if the server requires encryption", `:411`): `OkOnlyInClear`. The
  connection is of no use for game packets after that, as nothing takes the session
  away again.
- A host that is given twice has one entry for both. With `mcget h h` and a host that
  runs Bedrock only, the two Java queries are refused at once, their failures settle the
  entry and are printed, and both Bedrock answers are dropped (`bin/mcget.rs:329`): exit
  code 1 and two error lines for a host that answered, against `:237-240`.
  `ExitCodeTruthful` and `FailuresSuppressed` are stated over the answers and
  exempt such a host (`GivenOnce`).
- Slow answers in the offline handshake. Each attempt has its time, but what
  swallowed candidates leave of the overall one is less than the attempts of stage 2
  promise: with the defaults two candidates that are swallowed take 6.67 s, and Reply 1 after
  1.0 s with Reply 2 after 2.5 s, each within its attempt (1.1 s and 3.3 s), come too
  late. `SmoothRunsConnect` asks for answers within what is left.
- A late copy of Reply 1 uses up an attempt of stage 2 (`conn.rs:606`), where an
  unrecognized packet should mean "keep waiting" (`conn.rs:711-712`). The last
  resolved address is used, and refused if it is IPv6 (`conn.rs:467`). An ICMP error
  that waits on the socket ends the handshake at its next send (`conn.rs:547`).
- An unordered payload of a repeated datagram is returned twice
  (`reliability.rs:326`), where "duplicates are ignored" (`reliability.rs:72-73`).
- A handshake that comes after the login is never answered, and
  `establish_encryption` is private (`reliable_conn.rs:330`). Settings that ask for
  snappy make every later `send_game_packet` fail, the Login packet's included.
- `disconnect` leaves the session usable and the tick task running
  (`reliable_conn.rs:316-318`).
- The body of `RequestNetworkSettings` is a zig-zag varint (`login.rs:87`), its struct's
  doc has four bytes, big-endian (`login.rs:47`).
- `normalize_locale_tag` splits at hyphens only, so the "ZH_cn" of its doc is not
  recognized (`bin/mcget.rs:215-218`).

## 6. Plan

The order follows the weight of what can go wrong. All but the last step are done.

1. `SeqArith`, `AckRanges`, `DatagramWindow` with `WindowTracking`: the pure
   parts everything else is built from; theorems.
2. `ReliableLink` with `OrderedChannel`: safety, refinement, delivery; theorems.
3. `Handshake`: safety; theorems.
4. `Session` on top of `OrderedChannel`; theorems.
5. `Reassembly`: splitting, loss and repetition of fragments, reused split
   ids; theorems.
6. `Login` with the encryption's counters; theorems.
7. `CliRun`, theorems; the codecs and `Wire`.
8. The type invariants of all components, smooth handshakes, frames and ACKs of
   a session with any number of receivers, exact records; theorems. Runs with two
   receivers.
9. Whatever an open session sends read back, datagrams and ACKs cut short, and the
   batches and packets of the game layer; theorems.
10. Left: the sizes of datagrams against the MTU; the order of delivery that remains
   with two receivers; the texts of the offline and the Java formats, as theorems.

## 7. Running

In this directory: `tlc -config session.cfg MCSession` checks one run (the
module of each run is in `PROJECT.json`), `tlapm SessionProofs.tla` the proofs of
one module. The longest run (`link`) takes about two minutes with two workers, the
others about one or less.
