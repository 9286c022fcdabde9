---------------------------- MODULE CliRunProofs ----------------------------
(***************************************************************************)
(* Theorems about CliRun, for every set of command lines, any number of    *)
(* hosts (the same one given several times among them) and every answer of *)
(* the resolver.                                                           *)
(***************************************************************************)
EXTENDS CliRun, FiniteSetTheorems, TLAPS

\* Where the loops of the main thread are, and what they have registered.
Progress ==
  /\ phase \in {"start", "spawning", "receiving", "exited"}
  /\ spawned \in Nat
  /\ phase = "start" => spawned = 0
  /\ phase = "spawning" => spawned < Len(command.hosts)
  /\ phase = "receiving" => spawned = Len(command.hosts)
  /\ phase = "spawning" =>
       \A i \in 1 .. spawned : command.hosts[i] \in DOMAIN pending

\* The types of the entries, the results under way and the tasks.
Shapes ==
  /\ command \in Commands
  /\ pending \in [DOMAIN pending -> Entry]
  /\ DOMAIN pending \subseteq HostsGiven
  /\ \A h \in DOMAIN pending : pending[h].remaining \in 1 .. Count(command.mode)
  /\ channel \in Seq(Message)
  /\ \A t \in DOMAIN tasks : /\ t \in Task /\ t.arg <= spawned
                             /\ tasks[t] \in Active \cup Ended
  /\ spawned <= Len(command.hosts)
  /\ anyFailed \in BOOLEAN
  /\ exitCode \in 0 .. 2

\* A host has an answer on the screen.
Shown(h) == \E line \in printed : line.host = h /\ line.ok

\* What is on the screen and what the main thread remembers of it: an entry
\* knows whether its host was answered, and any_failed whether one of the
\* hosts that are settled was not.
Remembered ==
  /\ phase \in {"start", "spawning"} => printed = {} /\ ~anyFailed
  /\ phase # "exited" =>
       \A h \in DOMAIN pending : pending[h].hadSuccess <=> Shown(h)
  /\ phase = "receiving" =>
       (anyFailed <=> \E h \in HostsGiven \ DOMAIN pending : ~Shown(h))
  /\ \A line \in printed : ~line.ok => /\ line.host \notin DOMAIN pending
                                       /\ ~Shown(line.host)

\* The exit code tells the truth about the screen.
ExitCodeShown ==
  phase = "exited" /\ command.hosts # <<>> =>
    /\ exitCode \in {0, 1}
    /\ (exitCode = 0) <=> \A h \in HostsGiven : Shown(h)

Inv == Progress /\ Shapes /\ Remembered /\ ExitCodeShown

-----------------------------------------------------------------------------
\* A command line and its arguments.
LEMMA CommandLine ==
  ASSUME command \in Commands
  PROVE  /\ command.hosts \in Seq(Hosts)
         /\ command.mode \in Modes
         /\ Len(command.hosts) \in Nat
         /\ DOMAIN command.hosts = 1 .. Len(command.hosts)
         /\ \A i \in 1 .. Len(command.hosts) : command.hosts[i] \in Hosts
         /\ \A i \in 1 .. Len(command.hosts) : command.hosts[i] \in HostsGiven
         /\ \A h \in HostsGiven :
              \E i \in 1 .. Len(command.hosts) : command.hosts[i] = h
<1>1. /\ command.hosts \in Seq(Hosts)
      /\ command.mode \in Modes
  BY CommandsAssumption DEF Command
<1>2. /\ Len(command.hosts) \in Nat
      /\ DOMAIN command.hosts = 1 .. Len(command.hosts)
      /\ \A i \in 1 .. Len(command.hosts) : command.hosts[i] \in Hosts
  BY <1>1
<1>3. QED
  BY <1>1, <1>2 DEF HostsGiven, Range

\* A query's step: it moves on, or ends and appends its result.
QueryStep ==
  /\ UNCHANGED <<command, mainVars>>
  /\ \E t \in DOMAIN tasks, s \in Active \cup Ended :
       /\ tasks' = [tasks EXCEPT ![t] = s]
       /\ \/ channel' = channel
          \/ \E ok \in BOOLEAN :
               channel' = Append(channel, [host |-> HostOf(t), edition |-> t.edition,
                                           ok |-> ok])

LEMMA QueriesStep ==
  ASSUME NEW t \in DOMAIN tasks, Query(t)
  PROVE  QueryStep
<1> USE DEF Active, Awaiting, Ended
<1>1. ASSUME NEW s \in Active \cup Ended, Ends(t, s), UNCHANGED <<command, mainVars>>
      PROVE  QueryStep
  <2>1. (s = "answered") \in BOOLEAN
    OBVIOUS
  <2>2. QED
    BY <1>1, <2>1 DEF Ends, QueryStep
<1>2. ASSUME NEW s \in Active \cup Ended, Goes(t, s), UNCHANGED <<command, mainVars>>
      PROVE  QueryStep
  BY <1>2 DEF Goes, QueryStep
<1>3. CASE Resolve(t)
  BY <1>1, <1>2, <1>3 DEF Resolve
<1>4. CASE Connect(t)
  BY <1>2, <1>4 DEF Connect
<1>5. CASE StatusResponse(t)
  BY <1>1, <1>2, <1>5 DEF StatusResponse
<1>6. CASE PongArrives(t)
  BY <1>1, <1>6 DEF PongArrives
<1>7. CASE Breaks(t) \/ TimeOut(t)
  BY <1>1, <1>7 DEF Breaks, TimeOut
<1>8. CASE Panic(t)
  BY <1>2, <1>8 DEF Panic
<1>9. QED
  BY <1>3, <1>4, <1>5, <1>6, <1>7, <1>8 DEF Query

-----------------------------------------------------------------------------
LEMMA InitInv == Init => Inv
<1> SUFFICES ASSUME Init PROVE Inv
  OBVIOUS
<1> USE DEF Init
<1>1. Progress
  BY DEF Progress
<1>2. Shapes
  <2>1. DOMAIN pending = {} /\ DOMAIN tasks = {}
    OBVIOUS
  <2>2. pending \in [DOMAIN pending -> Entry]
    BY <2>1
  <2>3. channel \in Seq(Message) /\ spawned <= Len(command.hosts)
    BY CommandLine
  <2>4. anyFailed \in BOOLEAN
    BY Zenon
  <2>5. exitCode \in 0 .. 2
    OBVIOUS
  <2>6. QED
    BY <2>1, <2>2, <2>3, <2>4, <2>5, Zenon DEF Shapes
<1>3. Remembered
  BY DEF Remembered
<1>4. ExitCodeShown
  BY DEF ExitCodeShown
<1>5. QED
  BY <1>1, <1>2, <1>3, <1>4 DEF Inv

LEMMA StartKeeps ==
  ASSUME Inv, Start
  PROVE  Inv'
<1> USE DEF Inv, Start
<1>1. Progress'
  BY CommandLine DEF Progress, Shapes
<1>2. Shapes'
  BY DEF Shapes, HostsGiven, Shown
<1>3. Remembered'
  BY DEF Remembered, Shown, HostsGiven
<1>4. ExitCodeShown'
  BY DEF ExitCodeShown, Shown, HostsGiven
<1>5. QED
  BY <1>1, <1>2, <1>3, <1>4

LEMMA SpawnKeeps ==
  ASSUME Inv, Spawn
  PROVE  Inv'
<1> DEFINE arg == spawned + 1
           host == command.hosts[arg]
           entry == [remaining |-> Count(command.mode), hadSuccess |-> FALSE,
                     failures |-> <<>>]
           new == [arg : {arg}, edition : Editions(command.mode)]
<1>1. /\ phase = "spawning" /\ arg \in 1 .. Len(command.hosts)
      /\ host \in HostsGiven
      /\ command.mode \in Modes
      /\ Count(command.mode) \in {1, 2}
  BY CommandLine DEF Inv, Progress, Shapes, Spawn, Count
<1>2. /\ DOMAIN pending' = DOMAIN pending \cup {host}
      /\ pending' = [h \in DOMAIN pending' |-> IF h = host THEN entry ELSE pending[h]]
      /\ tasks' = [t \in DOMAIN tasks \cup new |->
                     IF t \in new THEN "resolving" ELSE tasks[t]]
      /\ spawned' = arg
      /\ phase' = IF arg = Len(command.hosts) THEN "receiving" ELSE phase
      /\ UNCHANGED <<command, channel, printed, anyFailed, exitCode>>
  BY DEF Spawn
<1>3. entry \in Entry
  BY <1>1 DEF Entry
<1>4. Progress'
  <2>1. \A i \in 1 .. arg : i = arg \/ i \in 1 .. spawned
    BY DEF Inv, Progress
  <2>2. QED
    BY <1>1, <1>2, <2>1, CommandLine DEF Inv, Progress, Shapes
<1>5. Shapes'
  <2>1. \A t \in new : t \in Task /\ t.arg = arg
    BY <1>1 DEF Task, Editions, Protocols, Modes, Inv, Progress
  <2>2. \A t \in DOMAIN tasks' : /\ t \in Task /\ t.arg <= spawned'
                                 /\ tasks'[t] \in Active \cup Ended
    BY <1>2, <2>1 DEF Inv, Shapes, Progress, Task, Active
  <2>3. pending' \in [DOMAIN pending' -> Entry]
    BY <1>2, <1>3 DEF Inv, Shapes
  <2>4. \A h \in DOMAIN pending' : pending'[h].remaining \in 1 .. Count(command.mode)
    BY <1>1, <1>2 DEF Inv, Shapes
  <2>5. HostsGiven' = HostsGiven
    BY <1>2 DEF HostsGiven
  <2>6. /\ command' \in Commands
        /\ DOMAIN pending' \subseteq HostsGiven'
        /\ channel' \in Seq(Message)
        /\ anyFailed' \in BOOLEAN /\ exitCode' \in 0 .. 2
    BY <1>1, <1>2, <2>5 DEF Inv, Shapes
  <2>7. spawned' <= Len(command'.hosts) /\ Count(command.mode)' = Count(command.mode)
    BY <1>1, <1>2, CommandLine DEF Inv, Shapes, Progress, Count
  <2>8. QED
    BY <2>2, <2>3, <2>4, <2>6, <2>7, Zenon DEF Shapes
<1>6. Remembered'
  <2>1. printed' = {} /\ ~anyFailed' /\ (\A h : ~Shown(h)') /\ (\A h : ~Shown(h))
    BY <1>1, <1>2 DEF Inv, Remembered, Shown
  <2>2. \A h \in DOMAIN pending' : ~pending'[h].hadSuccess
    BY <1>1, <1>2, <2>1 DEF Inv, Remembered
  <2>3. HostsGiven' = HostsGiven
    BY <1>2 DEF HostsGiven
  <2>4. ASSUME phase' = "receiving" PROVE HostsGiven \subseteq DOMAIN pending'
    <3>1. arg = Len(command.hosts)
      BY <1>1, <1>2, <2>4
    <3>2. \A i \in 1 .. Len(command.hosts) : i = arg \/ i \in 1 .. spawned
      BY <3>1 DEF Inv, Progress
    <3>3. \A i \in 1 .. Len(command.hosts) : command.hosts[i] \in DOMAIN pending'
      BY <1>1, <1>2, <3>2 DEF Inv, Progress
    <3>4. QED
      BY <3>3, CommandLine DEF Inv, Shapes
  <2>5. phase' # "exited"
    BY <1>1, <1>2
  <2>6. QED
    BY <2>1, <2>2, <2>3, <2>4, <2>5 DEF Remembered
<1>7. ExitCodeShown'
  BY <1>1, <1>2 DEF ExitCodeShown
<1>8. QED
  BY <1>4, <1>5, <1>6, <1>7 DEF Inv

\* A result for a host that is not in the map any more is dropped; otherwise
\* its entry counts it, and the host is settled when it was the last one.
LEMMA ReceiveKeeps ==
  ASSUME Inv, Receive
  PROVE  Inv'
<1>0. PICK message \in Message : message = Head(channel)
  BY DEF Inv, Shapes, Receive
<1> DEFINE host == message.host
           entry == Counted(pending[host], message)
<1>1. /\ phase = "receiving" /\ phase' = phase
      /\ channel' \in Seq(Message)
      /\ UNCHANGED <<command, spawned, tasks, exitCode>>
      /\ HostsGiven' = HostsGiven
  BY DEF Inv, Shapes, Receive, HostsGiven
<1>2. CASE host \notin DOMAIN pending
  <2>1. UNCHANGED <<pending, printed, anyFailed>>
    BY <1>0, <1>2 DEF Receive
  <2>2. Progress'
    BY <1>1, <2>1 DEF Inv, Progress
  <2>3. Shapes'
    BY <1>1, <2>1 DEF Inv, Shapes
  <2>4. Remembered' /\ ExitCodeShown'
    BY <1>1, <2>1 DEF Inv, Remembered, ExitCodeShown, Shown
  <2>5. QED
    BY <2>2, <2>3, <2>4 DEF Inv
<1>3. CASE host \in DOMAIN pending
  <2> DEFINE kept == IF Settled(entry) THEN DOMAIN pending \ {host} ELSE DOMAIN pending
  <2>1. /\ pending' = [h \in kept |-> IF h = host THEN entry ELSE pending[h]]
        /\ printed' = printed \cup Lines(host, message, entry)
        /\ anyFailed' = (anyFailed \/ Flushed(entry))
    BY <1>0, <1>3 DEF Receive
  <2>2. /\ pending[host] \in Entry
        /\ pending[host].remaining \in 1 .. Count(command.mode)
        /\ command.mode \in Modes
        /\ Count(command.mode) \in {1, 2}
    BY <1>3, CommandLine DEF Inv, Shapes, Count
  <2>3. message.edition \in Protocols /\ message.ok \in BOOLEAN
    BY DEF Message
  <2>4. /\ entry.remaining = pending[host].remaining - 1
        /\ entry.hadSuccess <=> pending[host].hadSuccess \/ message.ok
        /\ entry \in Entry
        /\ ~Settled(entry) => entry.remaining \in 1 .. Count(command.mode)
    <3>1. /\ entry.remaining = pending[host].remaining - 1
          /\ entry.remaining \in 0 .. Count(command.mode)
          /\ entry.remaining \in Nat
      BY <2>2 DEF Counted
    <3>2. /\ entry.hadSuccess = (pending[host].hadSuccess \/ message.ok)
          /\ entry.hadSuccess \in BOOLEAN
      BY Zenon DEF Counted
    <3>3. entry.failures \in Seq(Protocols)
      BY <2>2, <2>3 DEF Counted, Entry
    <3>4. entry \in Entry
      BY <3>1, <3>2, <3>3 DEF Counted, Entry
    <3>5. entry.hadSuccess <=> pending[host].hadSuccess \/ message.ok
      BY <3>2, Zenon
    <3>6. ~Settled(entry) => entry.remaining \in 1 .. Count(command.mode)
      BY <3>1, <2>2 DEF Settled
    <3>7. QED
      BY <3>1, <3>4, <3>5, <3>6, Zenon
  <2>5. /\ DOMAIN pending' = kept
        /\ DOMAIN pending' \subseteq DOMAIN pending
        /\ \A h \in DOMAIN pending' : pending'[h] = IF h = host THEN entry ELSE pending[h]
        /\ DOMAIN pending \subseteq DOMAIN pending' \cup {host}
        /\ host \in DOMAIN pending' <=> ~Settled(entry)
    BY <1>3, <2>1
  <2>6. \A h : h # host => (Shown(h)' <=> Shown(h))
    BY <2>1 DEF Shown, Lines
  <2>7. Shown(host)' <=> Shown(host) \/ message.ok
    <3>1. CASE message.ok
      <4> DEFINE line == [host |-> host, edition |-> message.edition, ok |-> TRUE]
      <4>1. line \in printed'
        BY <2>1, <3>1 DEF Lines
      <4>2. QED
        BY <3>1, <4>1 DEF Shown
    <3>2. CASE ~message.ok
      <4>1. \A line \in Lines(host, message, entry) : ~line.ok
        BY <3>2 DEF Lines
      <4>2. QED
        BY <2>1, <3>2, <4>1 DEF Shown
    <3>3. QED
      BY <3>1, <3>2
  <2>8. Shown(host) <=> pending[host].hadSuccess
    BY <1>1, <1>3 DEF Inv, Remembered
  <2>9. Shown(host)' <=> entry.hadSuccess
    BY <2>4, <2>7, <2>8
  <2>10. Progress'
    BY <1>1 DEF Inv, Progress
  <2>11. Shapes'
    <3>1. pending' \in [DOMAIN pending' -> Entry]
      BY <2>1, <2>4, <2>5 DEF Inv, Shapes
    <3>2. \A h \in DOMAIN pending' : pending'[h].remaining \in 1 .. Count(command.mode)
      BY <2>4, <2>5 DEF Inv, Shapes
    <3>3. anyFailed' \in BOOLEAN
      BY <2>1, Zenon DEF Flushed
    <3>4. DOMAIN pending' \subseteq HostsGiven'
      BY <1>1, <2>5 DEF Inv, Shapes
    <3>5. QED
      BY <1>1, <3>1, <3>2, <3>3, <3>4 DEF Inv, Shapes
  <2>12. Remembered'
    <3>1. \A h \in DOMAIN pending' : pending'[h].hadSuccess <=> Shown(h)'
      <4>1. ASSUME NEW h \in DOMAIN pending', h # host
            PROVE  pending'[h].hadSuccess <=> Shown(h)'
        BY <1>1, <2>5, <2>6, <4>1 DEF Inv, Remembered
      <4>2. ASSUME host \in DOMAIN pending'
            PROVE  pending'[host].hadSuccess <=> Shown(host)'
        BY <2>5, <2>9, <4>2
      <4>3. QED
        BY <4>1, <4>2
    <3>2. Flushed(entry) <=> Settled(entry) /\ ~Shown(host)'
      BY <2>9 DEF Flushed, Settled
    <3>3. anyFailed' <=> \E h \in HostsGiven' \ DOMAIN pending' : ~Shown(h)'
      <4>1. host \in HostsGiven
        BY <1>3 DEF Inv, Shapes
      <4>2. anyFailed <=> \E h \in HostsGiven \ DOMAIN pending : ~Shown(h)
        BY <1>1 DEF Inv, Remembered
      <4>3. \A h \in HostsGiven \ DOMAIN pending' :
               h = host \/ h \in HostsGiven \ DOMAIN pending
        BY <2>5
      <4>4. \A h \in HostsGiven \ DOMAIN pending :
               h # host /\ h \in HostsGiven \ DOMAIN pending'
        BY <1>3, <2>5
      <4>5. anyFailed' <=> anyFailed \/ Flushed(entry)
        BY <2>1
      <4>6. Flushed(entry) <=> host \in HostsGiven \ DOMAIN pending' /\ ~Shown(host)'
        BY <2>5, <3>2, <4>1
      <4>7. \A h \in HostsGiven \ DOMAIN pending : Shown(h)' <=> Shown(h)
        BY <2>6, <4>4
      <4>8. (\E h \in HostsGiven \ DOMAIN pending' : ~Shown(h)')
              <=> \/ \E h \in HostsGiven \ DOMAIN pending : ~Shown(h)
                  \/ host \in HostsGiven \ DOMAIN pending' /\ ~Shown(host)'
        BY <4>3, <4>4, <4>7
      <4>9. QED
        BY <1>1, <4>2, <4>5, <4>6, <4>8, Zenon
    <3>4. ASSUME NEW line \in printed', ~line.ok
          PROVE  line.host \notin DOMAIN pending' /\ ~Shown(line.host)'
      <4>1. CASE line \in printed
        <5>1. line.host \notin DOMAIN pending /\ ~Shown(line.host)
          BY <3>4, <4>1 DEF Inv, Remembered
        <5>2. QED
          BY <1>3, <2>5, <2>6, <5>1
      <4>2. CASE line \notin printed
        <5>1. line.host = host /\ Flushed(entry)
          BY <2>1, <3>4, <4>2 DEF Lines
        <5>2. Settled(entry) /\ ~Shown(host)'
          BY <3>2, <5>1
        <5>3. host \notin DOMAIN pending'
          BY <2>5, <5>2
        <5>4. QED
          BY <5>1, <5>2, <5>3
      <4>3. QED
        BY <4>1, <4>2
    <3>5. QED
      BY <1>1, <3>1, <3>3, <3>4 DEF Remembered
  <2>13. ExitCodeShown'
    BY <1>1 DEF ExitCodeShown
  <2>14. QED
    BY <2>10, <2>11, <2>12, <2>13 DEF Inv
<1>4. QED
  BY <1>2, <1>3

\* The hosts that are left over are the ones without an answer among those
\* that are not settled.
LEMMA FinishKeeps ==
  ASSUME Inv, Finish
  PROVE  Inv'
<1>1. /\ phase = "receiving" /\ phase' = "exited"
      /\ printed' = printed \cup [host : Leftover, edition : {""}, ok : {FALSE}]
      /\ anyFailed' = (anyFailed \/ Leftover # {})
      /\ exitCode' = IF anyFailed' THEN 1 ELSE 0
      /\ pending' = [h \in {} |-> <<>>]
      /\ UNCHANGED <<command, spawned, tasks, channel>>
      /\ HostsGiven' = HostsGiven
  BY DEF Finish, HostsGiven
<1>2. DOMAIN pending' = {}
  BY <1>1
<1>3. \A h \in DOMAIN pending : pending[h].hadSuccess <=> Shown(h)
  BY <1>1 DEF Inv, Remembered
<1>4. Leftover = {h \in DOMAIN pending : ~Shown(h)}
  BY <1>3 DEF Leftover
<1>5. \A h : Shown(h)' <=> Shown(h)
  BY <1>1 DEF Shown
<1>6. anyFailed' <=> \E h \in HostsGiven : ~Shown(h)
  <2>1. DOMAIN pending \subseteq HostsGiven
    BY DEF Inv, Shapes
  <2>2. anyFailed <=> \E h \in HostsGiven \ DOMAIN pending : ~Shown(h)
    BY <1>1 DEF Inv, Remembered
  <2>3. Leftover # {} <=> \E h \in DOMAIN pending : ~Shown(h)
    BY <1>4
  <2>4. anyFailed' <=> anyFailed \/ Leftover # {}
    BY <1>1
  <2>5. (\E h \in HostsGiven : ~Shown(h))
          <=> \/ \E h \in HostsGiven \ DOMAIN pending : ~Shown(h)
              \/ \E h \in DOMAIN pending : ~Shown(h)
    BY <2>1
  <2>6. QED
    BY <2>2, <2>3, <2>4, <2>5, Zenon
<1>7. Progress'
  BY <1>1 DEF Inv, Progress
<1>8. Shapes'
  <2>1. pending' \in [DOMAIN pending' -> Entry]
    BY <1>1, <1>2
  <2>2. anyFailed' \in BOOLEAN
    BY <1>1, Zenon
  <2>3. exitCode' \in 0 .. 2
    <3>1. exitCode' = 0 \/ exitCode' = 1
      BY <1>1, Zenon
    <3>2. QED
      BY <3>1
  <2>4. QED
    BY <1>1, <1>2, <2>1, <2>2, <2>3 DEF Inv, Shapes
<1>9. Remembered'
  <2>1. ASSUME NEW line \in printed', ~line.ok
        PROVE  ~Shown(line.host)'
    <3>1. CASE line \in printed
      BY <1>5, <2>1, <3>1 DEF Inv, Remembered
    <3>2. CASE line \notin printed
      <4>1. line.host \in Leftover
        BY <1>1, <3>2
      <4>2. QED
        BY <1>4, <1>5, <4>1
    <3>3. QED
      BY <3>1, <3>2
  <2>2. QED
    BY <1>1, <1>2, <2>1 DEF Remembered
<1>10. ExitCodeShown'
  <2>1. (exitCode' = 0) <=> ~anyFailed'
    <3>1. (anyFailed' => exitCode' = 1) /\ (~anyFailed' => exitCode' = 0)
      BY <1>1, Zenon
    <3>2. QED
      BY <3>1
  <2>2. (\A h \in HostsGiven' : Shown(h)') <=> ~anyFailed'
    BY <1>1, <1>5, <1>6
  <2>3. exitCode' \in {0, 1}
    BY <1>1, Zenon
  <2>4. QED
    BY <2>1, <2>2, <2>3 DEF ExitCodeShown
<1>11. QED
  BY <1>7, <1>8, <1>9, <1>10 DEF Inv

LEMMA QueryKeeps ==
  ASSUME Inv, QueryStep
  PROVE  Inv'
<1>1. UNCHANGED <<command, phase, spawned, pending, printed, anyFailed, exitCode>>
  BY DEF QueryStep, mainVars
<1>2. PICK t \in DOMAIN tasks, s \in Active \cup Ended :
        /\ tasks' = [tasks EXCEPT ![t] = s]
        /\ \/ channel' = channel
           \/ \E ok \in BOOLEAN :
                channel' = Append(channel, [host |-> HostOf(t), edition |-> t.edition,
                                            ok |-> ok])
  BY DEF QueryStep
<1>3. HostsGiven' = HostsGiven
  BY <1>1 DEF HostsGiven
<1>4. Progress' /\ Remembered' /\ ExitCodeShown'
  BY <1>1, <1>3 DEF Inv, Progress, Remembered, ExitCodeShown, Shown
<1>5. HostOf(t) \in Hosts /\ t.edition \in Protocols
  BY CommandLine DEF Inv, Shapes, Progress, HostOf, Task
<1>6. channel' \in Seq(Message)
  <2>1. \A ok \in BOOLEAN :
          [host |-> HostOf(t), edition |-> t.edition, ok |-> ok] \in Message
    BY <1>5 DEF Message
  <2>2. channel \in Seq(Message)
    BY DEF Inv, Shapes
  <2>3. \A m \in Message : Append(channel, m) \in Seq(Message)
    BY <2>2
  <2>4. QED
    BY <1>2, <2>1, <2>2, <2>3, Zenon
<1>7. \A u \in DOMAIN tasks' : /\ u \in Task /\ u.arg <= spawned
                               /\ tasks'[u] \in Active \cup Ended
  BY <1>2 DEF Inv, Shapes
<1>8. Shapes'
  BY <1>1, <1>3, <1>6, <1>7 DEF Inv, Shapes
<1>9. QED
  BY <1>4, <1>8 DEF Inv

LEMMA NextKeeps == Inv /\ [Next]_vars => Inv'
<1> SUFFICES ASSUME Inv, [Next]_vars PROVE Inv'
  OBVIOUS
<1>1. CASE Main
  BY <1>1, StartKeeps, SpawnKeeps, ReceiveKeeps, FinishKeeps DEF Main
<1>2. ASSUME NEW t \in DOMAIN tasks, Query(t) PROVE Inv'
  BY <1>2, QueriesStep, QueryKeeps
<1>3. CASE UNCHANGED vars
  BY <1>3 DEF vars, mainVars, Inv, Progress, Shapes, Remembered, ExitCodeShown,
              Shown, HostsGiven
<1>4. QED
  BY <1>1, <1>2, <1>3 DEF Next

LEMMA Invariant == Spec => []Inv
<1>1. QED
  BY InitInv, NextKeeps, PTL DEF Spec

-----------------------------------------------------------------------------
\* TypeOK holds for every command line: above all, remaining -= 1
\* (mcget.rs:331) never runs below zero, because an entry leaves the map when
\* it reaches zero, and the results a repeated host has left over find none.
THEOREM TypesHold == Spec => []TypeOK
<1>1. Inv => TypeOK
  <2> SUFFICES ASSUME Inv PROVE TypeOK
    OBVIOUS
  <2>1. spawned \in 0 .. Len(command.hosts)
    BY CommandLine DEF Inv, Shapes, Progress
  <2>2. \A h \in DOMAIN pending : pending[h] \in Entry
    BY DEF Inv, Shapes
  <2>3. QED
    BY <2>1, <2>2 DEF Inv, Shapes, Progress, TypeOK
<1>2. QED
  BY <1>1, Invariant, PTL

-----------------------------------------------------------------------------
\* The results on their way, for the tasks of hosts that are given once.
Lone == {t \in DOMAIN tasks : GivenOnce(HostOf(t))}

IsFrom(message, t) == message.host = HostOf(t) /\ message.edition = t.edition

WaitsIn(messages, t) == \E i \in DOMAIN messages : IsFrom(messages[i], t)

Line(t) == [host |-> HostOf(t), edition |-> t.edition, ok |-> TRUE]

\* The task's result has been taken out of the channel.
Taken(t) == tasks[t] \in {"answered", "failed"} /\ ~WaitsIn(channel, t)

Registered ==
  \A t \in DOMAIN tasks : t.arg \in 1 .. spawned /\ t.edition \in Editions(command.mode)

\* Every result is that of its task, and the only one of it.
Honest ==
  /\ \A i \in DOMAIN channel : \E t \in DOMAIN tasks :
       /\ IsFrom(channel[i], t)
       /\ tasks[t] = IF channel[i].ok THEN "answered" ELSE "failed"
  /\ \A t \in Lone : \A i, j \in DOMAIN channel :
       IsFrom(channel[i], t) /\ IsFrom(channel[j], t) => i = j

\* What was answered is on the screen or on its way there, and nothing else.
OnScreen ==
  \A t \in Lone :
    /\ Line(t) \in printed => tasks[t] = "answered"
    /\ tasks[t] = "answered" => WaitsIn(channel, t) \/ Line(t) \in printed

\* A host is in the map until the results of all its tasks have been taken.
Expected ==
  phase # "exited" =>
    /\ \A t \in Lone : ~Taken(t) => HostOf(t) \in DOMAIN pending
    /\ \A t, u \in Lone :
         /\ t # u /\ HostOf(t) = HostOf(u)
         /\ HostOf(t) \in DOMAIN pending
         /\ pending[HostOf(t)].remaining = 1
         => Taken(t) \/ Taken(u)

Over ==
  phase = "exited" => channel = <<>> /\ \A t \in DOMAIN tasks : tasks[t] \in Ended

Ledger == Registered /\ Honest /\ OnScreen /\ Expected /\ Over

\* A host that is given once has a task for each protocol.
LEMMA OneArgument ==
  ASSUME command \in Commands, NEW h, GivenOnce(h),
         NEW i \in DOMAIN command.hosts, NEW j \in DOMAIN command.hosts,
         command.hosts[i] = h, command.hosts[j] = h
  PROVE  i = j
<1> DEFINE S == {k \in DOMAIN command.hosts : command.hosts[k] = h}
<1>1. IsFiniteSet(S)
  <2>1. IsFiniteSet(1 .. Len(command.hosts))
    <3>1. 1 \in Int /\ Len(command.hosts) \in Int
      BY CommandLine
    <3>2. QED
      BY ONLY <3>1, FS_Interval
  <2>2. S \in SUBSET (1 .. Len(command.hosts))
    BY CommandLine
  <2>3. QED
    BY <2>1, <2>2, FS_Subset
<1>2. Cardinality(S) = 1
  BY DEF GivenOnce
<1>3. PICK x : S = {x}
  BY <1>1, <1>2, FS_Singleton
<1>4. i \in S /\ j \in S
  OBVIOUS
<1>5. QED
  BY <1>3, <1>4

LEMMA OneTask ==
  ASSUME Inv, Registered, NEW t \in Lone, NEW u \in DOMAIN tasks,
         HostOf(u) = HostOf(t)
  PROVE  u.arg = t.arg /\ u \in Lone /\ (u.edition = t.edition => u = t)
<1>1. /\ t \in DOMAIN tasks /\ GivenOnce(HostOf(t))
      /\ t \in Task /\ u \in Task
      /\ t.arg \in DOMAIN command.hosts /\ u.arg \in DOMAIN command.hosts
      /\ command \in Commands
  <2>1. /\ t \in DOMAIN tasks /\ GivenOnce(HostOf(t))
        /\ t \in Task /\ u \in Task /\ command \in Commands
    BY DEF Lone, Inv, Shapes
  <2>2. spawned \in Nat /\ spawned <= Len(command.hosts)
    BY DEF Inv, Progress, Shapes
  <2>3. t.arg \in 1 .. spawned /\ u.arg \in 1 .. spawned
    BY <2>1 DEF Registered
  <2>4. QED
    BY <2>1, <2>2, <2>3, CommandLine
<1>2. u.arg = t.arg
  BY <1>1, OneArgument DEF HostOf
<1>3. u.edition = t.edition => u = t
  BY <1>1, <1>2 DEF Task
<1>4. QED
  BY <1>1, <1>2, <1>3 DEF Lone

\* A query's step, and the result that goes with its end.
QueryEnds(t, s) ==
  /\ UNCHANGED <<command, mainVars>>
  /\ tasks[t] \in Active
  /\ tasks' = [tasks EXCEPT ![t] = s]
  /\ \/ s \in Active \cup {"panicked"} /\ channel' = channel
     \/ s \in {"answered", "failed"} /\ Ends(t, s)

LEMMA QueryIs ==
  ASSUME NEW t \in DOMAIN tasks, Query(t)
  PROVE  \E s \in Active \cup Ended : QueryEnds(t, s)
<1> USE DEF Active, Awaiting, Ended
<1>1. ASSUME NEW s \in {"answered", "failed"}, tasks[t] \in Active, Ends(t, s),
             UNCHANGED <<command, mainVars>>
      PROVE  \E r \in Active \cup Ended : QueryEnds(t, r)
  BY <1>1 DEF Ends, QueryEnds
<1>2. ASSUME NEW s \in Active \cup {"panicked"}, tasks[t] \in Active, Goes(t, s),
             UNCHANGED <<command, mainVars>>
      PROVE  \E r \in Active \cup Ended : QueryEnds(t, r)
  BY <1>2 DEF Goes, QueryEnds
<1>3. CASE Resolve(t)
  BY <1>1, <1>2, <1>3 DEF Resolve, At
<1>4. CASE Connect(t)
  BY <1>2, <1>4 DEF Connect, At
<1>5. CASE StatusResponse(t)
  BY <1>1, <1>2, <1>5 DEF StatusResponse, At
<1>6. CASE PongArrives(t)
  BY <1>1, <1>6 DEF PongArrives, At
<1>7. CASE Breaks(t) \/ TimeOut(t)
  BY <1>1, <1>7 DEF Breaks, TimeOut
<1>8. CASE Panic(t)
  BY <1>2, <1>8 DEF Panic
<1>9. QED
  BY <1>3, <1>4, <1>5, <1>6, <1>7, <1>8 DEF Query

\* Taking a step of a query apart: whose results wait, before and after it.
LEMMA LedgerQuery ==
  ASSUME Inv, Ledger, NEW t \in DOMAIN tasks, NEW s \in Active \cup Ended, QueryEnds(t, s)
  PROVE  Ledger'
<1>1. /\ UNCHANGED <<command, phase, spawned, pending, printed>>
      /\ DOMAIN tasks' = DOMAIN tasks /\ tasks'[t] = s
      /\ \A u \in DOMAIN tasks : u # t => tasks'[u] = tasks[u]
      /\ tasks[t] \in Active
      /\ tasks[t] \notin Ended
  BY DEF QueryEnds, mainVars, Active, Awaiting, Ended
<1>2. /\ Lone' = Lone
      /\ \A u : HostOf(u)' = HostOf(u) /\ Line(u)' = Line(u)
      /\ Lone \subseteq DOMAIN tasks
  BY <1>1 DEF Lone, GivenOnce, HostOf, Line
<1>3. phase # "exited"
  BY <1>1 DEF Ledger, Over
<1>4. Registered' /\ Over'
  BY <1>1, <1>3 DEF Ledger, Registered, Over, Editions
<1>5. t \in Lone => ~Taken(t) /\ tasks[t] # "answered" /\ Line(t) \notin printed
  BY <1>1 DEF Ledger, OnScreen, Taken, Ended
<1>6. Inv /\ Registered /\ Honest /\ OnScreen /\ Expected
  BY DEF Ledger
<1>7. CASE s \in Active \cup {"panicked"} /\ channel' = channel
  <2>0. s \notin {"answered", "failed"}
    BY <1>7 DEF Active, Awaiting
  <2>1. \A u \in DOMAIN tasks : tasks[u] \in {"answered", "failed"} => u # t
    BY <1>1 DEF Ended
  <2>2. \A u : WaitsIn(channel, u)' <=> WaitsIn(channel, u)
    BY <1>1, <1>7 DEF WaitsIn, IsFrom, HostOf
  <2>3. Honest'
    <3>1. ASSUME NEW i \in DOMAIN channel
          PROVE  \E u \in DOMAIN tasks' :
                   /\ channel[i].host = HostOf(u) /\ channel[i].edition = u.edition
                   /\ tasks'[u] = IF channel[i].ok THEN "answered" ELSE "failed"
      <4>1. PICK u \in DOMAIN tasks :
                   /\ IsFrom(channel[i], u)
                   /\ tasks[u] = IF channel[i].ok THEN "answered" ELSE "failed"
        BY <1>6 DEF Honest
      <4>2. u # t
        BY <2>1, <4>1
      <4>3. QED
        BY <1>1, <4>1, <4>2 DEF IsFrom
    <3>2. \A u \in Lone : \A i, j \in DOMAIN channel :
            IsFrom(channel[i], u) /\ IsFrom(channel[j], u) => i = j
      BY <1>6 DEF Honest
    <3>3. QED
      BY <1>2, <1>7, <3>1, <3>2 DEF Honest, IsFrom
  <2>4. \A u \in Lone : Taken(u)' <=> Taken(u)
    BY <1>1, <1>2, <1>5, <2>0, <2>2 DEF Taken
  <2>5. OnScreen'
    BY <1>1, <1>2, <1>5, <1>6, <2>0, <2>2 DEF OnScreen
  <2>6. Expected'
    BY <1>1, <1>2, <1>3, <1>6, <2>4 DEF Expected
  <2>7. QED
    BY <1>4, <2>3, <2>5, <2>6 DEF Ledger
<1>8. CASE s \in {"answered", "failed"} /\ Ends(t, s)
  <2> DEFINE m == [host |-> HostOf(t), edition |-> t.edition, ok |-> s = "answered"]
             n == Len(channel)
  <2>1. /\ channel \in Seq(Message) /\ n \in Nat
        /\ DOMAIN channel = 1 .. n /\ DOMAIN channel' = 1 .. n + 1
        /\ channel'[n + 1] = m
        /\ \A i \in 1 .. n : channel'[i] = channel[i]
    BY <1>8 DEF Ends, Inv, Shapes
  <2>2. m.host = HostOf(t) /\ m.edition = t.edition
        /\ s = IF m.ok THEN "answered" ELSE "failed"
    <3>1. m.ok <=> s = "answered"
      BY Zenon
    <3>2. QED
      BY <1>8, <3>1
  <2> HIDE DEF m
  <2>3. \A u \in Lone : IsFrom(m, u) => u = t
    <3>1. ASSUME NEW u \in Lone, IsFrom(m, u) PROVE u = t
      <4>1. HostOf(t) = HostOf(u) /\ t.edition = u.edition
        BY <2>2, <3>1 DEF IsFrom
      <4>2. QED
        BY <1>6, <4>1, OneTask
    <3>2. QED
      BY <3>1
  <2>4. ASSUME NEW i \in 1 .. n PROVE \E u \in DOMAIN tasks :
                   /\ u # t /\ IsFrom(channel[i], u)
                   /\ tasks[u] = IF channel[i].ok THEN "answered" ELSE "failed"
    <3>1. PICK u \in DOMAIN tasks :
                   /\ IsFrom(channel[i], u)
                   /\ tasks[u] = IF channel[i].ok THEN "answered" ELSE "failed"
      BY <1>6, <2>1 DEF Honest
    <3>2. u # t
      BY <1>1, <3>1 DEF Ended
    <3>3. QED
      BY <3>1, <3>2
  <2>5. t \in Lone => \A i \in 1 .. n : ~IsFrom(channel[i], t)
    <3>1. ASSUME t \in Lone, NEW i \in 1 .. n, IsFrom(channel[i], t) PROVE FALSE
      <4>1. PICK u \in DOMAIN tasks : u # t /\ IsFrom(channel[i], u)
        BY <2>4
      <4>2. HostOf(u) = HostOf(t) /\ u.edition = t.edition
        BY <3>1, <4>1 DEF IsFrom
      <4>3. QED
        BY <1>6, <3>1, <4>1, <4>2, OneTask
    <3>2. QED
      BY <3>1
  <2>6. Honest'
    <3>1. ASSUME NEW i \in 1 .. n + 1
          PROVE  \E u \in DOMAIN tasks' :
                   /\ channel'[i].host = HostOf(u) /\ channel'[i].edition = u.edition
                   /\ tasks'[u] = IF channel'[i].ok THEN "answered" ELSE "failed"
      <4>1. CASE i = n + 1
        BY <1>1, <2>1, <2>2, <4>1
      <4>2. CASE i # n + 1
        <5>1. i \in 1 .. n
          BY <2>1, <4>2
        <5>2. PICK u \in DOMAIN tasks :
                /\ u # t /\ IsFrom(channel[i], u)
                /\ tasks[u] = IF channel[i].ok THEN "answered" ELSE "failed"
          BY <2>4, <5>1
        <5>3. channel'[i] = channel[i] /\ tasks'[u] = tasks[u]
          BY <1>1, <2>1, <5>1, <5>2
        <5>4. QED
          BY <1>1, <5>2, <5>3 DEF IsFrom
      <4>3. QED
        BY <4>1, <4>2
    <3>2. ASSUME NEW u \in Lone, NEW i \in 1 .. n + 1, NEW j \in 1 .. n + 1,
                 IsFrom(channel'[i], u), IsFrom(channel'[j], u)
          PROVE  i = j
      <4>1. i # n + 1 => i \in 1 .. n /\ channel'[i] = channel[i]
        BY <2>1
      <4>2. j # n + 1 => j \in 1 .. n /\ channel'[j] = channel[j]
        BY <2>1
      <4>3. i = n + 1 \/ j = n + 1 => u = t
        BY <2>1, <2>3, <3>2
      <4>4. CASE i = n + 1 \/ j = n + 1
        BY <2>5, <3>2, <4>1, <4>2, <4>3, <4>4
      <4>5. CASE i # n + 1 /\ j # n + 1
        BY <1>6, <2>1, <3>2, <4>1, <4>2, <4>5 DEF Honest
      <4>6. QED
        BY <4>4, <4>5
    <3>3. QED
      BY <1>2, <2>1, <3>1, <3>2 DEF Honest, IsFrom
  <2>7. /\ t \in Lone => WaitsIn(channel, t)'
        /\ \A u \in Lone : u # t => (WaitsIn(channel, u)' <=> WaitsIn(channel, u))
    <3>1. (\E i \in DOMAIN channel' : IsFrom(channel'[i], t))
      <4>1. n + 1 \in DOMAIN channel' /\ IsFrom(channel'[n + 1], t)
        BY <2>1, <2>2 DEF IsFrom
      <4>2. QED
        BY <4>1
    <3>2. ASSUME NEW u \in Lone, u # t
          PROVE  (\E i \in DOMAIN channel' : IsFrom(channel'[i], u)) <=> WaitsIn(channel, u)
      <4>1. ~IsFrom(channel'[n + 1], u)
        BY <2>1, <2>3, <3>2
      <4>2. \A i \in 1 .. n + 1 : i = n + 1 \/ i \in 1 .. n
        BY <2>1
      <4>3. \A i \in 1 .. n : i \in 1 .. n + 1
        BY <2>1
      <4>4. QED
        BY <2>1, <4>1, <4>2, <4>3 DEF WaitsIn
    <3>3. QED
      BY <1>2, <3>1, <3>2 DEF WaitsIn, IsFrom
  <2>8. \A u \in Lone : Taken(u)' <=> Taken(u)
    BY <1>1, <1>2, <1>5, <2>7 DEF Taken
  <2>9. OnScreen'
    BY <1>1, <1>2, <1>5, <1>6, <2>7 DEF OnScreen
  <2>10. Expected'
    BY <1>1, <1>2, <1>3, <1>6, <2>8 DEF Expected
  <2>11. QED
    BY <1>4, <2>6, <2>9, <2>10 DEF Ledger
<1>9. QED
  BY <1>7, <1>8 DEF QueryEnds

\* Before the first host is registered there is no task and no result.
LEMMA LedgerStart ==
  ASSUME Inv, Ledger, Start
  PROVE  Ledger'
<1>1. /\ UNCHANGED <<command, spawned, pending, tasks, channel, printed>>
      /\ spawned = 0
  BY DEF Start, Inv, Progress
<1>2. DOMAIN tasks = {}
  BY <1>1 DEF Ledger, Registered
<1>3. channel = <<>>
  <2>1. channel \in Seq(Message) /\ DOMAIN channel = {}
    BY <1>2 DEF Ledger, Honest, Inv, Shapes
  <2>2. QED
    BY <2>1
<1>4. Lone' = {} /\ DOMAIN tasks' = {} /\ channel' = <<>>
  BY <1>1, <1>2, <1>3 DEF Lone
<1>5. QED
  BY <1>4 DEF Ledger, Registered, Honest, OnScreen, Expected, Over

\* A new host has new tasks, and no result of theirs is on its way.
LEMMA LedgerSpawn ==
  ASSUME Inv, Ledger, Spawn
  PROVE  Ledger'
<1> DEFINE arg == spawned + 1
           host == command.hosts[arg]
           entry == [remaining |-> Count(command.mode), hadSuccess |-> FALSE,
                     failures |-> <<>>]
           new == [arg : {arg}, edition : Editions(command.mode)]
<1>1. /\ phase = "spawning" /\ spawned \in Nat /\ arg \in DOMAIN command.hosts
      /\ command \in Commands /\ phase' # "exited"
      /\ printed = {} /\ printed' = {}
  BY CommandLine DEF Inv, Progress, Shapes, Remembered, Spawn
<1>2. /\ pending' = [h \in DOMAIN pending \cup {host} |->
                       IF h = host THEN entry ELSE pending[h]]
      /\ tasks' = [t \in DOMAIN tasks \cup new |->
                     IF t \in new THEN "resolving" ELSE tasks[t]]
      /\ spawned' = arg
      /\ UNCHANGED <<command, channel>>
  BY DEF Spawn
<1>3. /\ DOMAIN tasks' = DOMAIN tasks \cup new
      /\ \A t \in new : t \notin DOMAIN tasks /\ tasks'[t] = "resolving"
                        /\ t.arg = arg /\ t.edition \in Editions(command.mode)
      /\ \A t \in DOMAIN tasks : tasks'[t] = tasks[t]
      /\ \A t \in DOMAIN tasks : t.arg \in 1 .. spawned
  BY <1>1, <1>2 DEF Ledger, Registered
<1>4. Registered'
  <2>1. \A t \in DOMAIN tasks : t.arg \in 1 .. arg /\ t.edition \in Editions(command.mode)
    BY <1>1, <1>3 DEF Ledger, Registered
  <2>2. \A t \in new : t.arg \in 1 .. arg
    BY <1>1, <1>3
  <2>3. QED
    BY <1>2, <1>3, <2>1, <2>2 DEF Registered, Editions
<1>5. \A t : HostOf(t)' = HostOf(t) /\ (WaitsIn(channel, t)' <=> WaitsIn(channel, t))
  BY <1>2 DEF HostOf, WaitsIn, IsFrom
<1>6. \A t \in new : HostOf(t) = host
  BY <1>3 DEF HostOf
<1>7. Lone' \subseteq Lone \cup new
  BY <1>2, <1>3 DEF Lone, GivenOnce, HostOf
\* A host that is given once is not the one of an older task.
<1>8. ASSUME GivenOnce(host), NEW t \in DOMAIN tasks PROVE HostOf(t) # host
  <2>1. t.arg \in 1 .. spawned /\ t.arg # arg
    BY <1>1, <1>3
  <2>2. t.arg \in DOMAIN command.hosts
    BY <1>1, <2>1, CommandLine
  <2>3. QED
    BY <1>1, <1>8, <2>1, <2>2, OneArgument DEF HostOf
<1>9. \A t \in Lone' : GivenOnce(HostOf(t))
  BY <1>2, <1>5 DEF Lone, GivenOnce
<1>10. ASSUME NEW t \in Lone', t \in new PROVE ~WaitsIn(channel, t)
  <2>1. ASSUME NEW i \in DOMAIN channel PROVE ~IsFrom(channel[i], t)
    <3>1. PICK u \in DOMAIN tasks : IsFrom(channel[i], u)
      BY DEF Ledger, Honest
    <3>2. HostOf(u) # host
      BY <1>6, <1>8, <1>9, <1>10
    <3>3. QED
      BY <1>6, <1>10, <3>1, <3>2 DEF IsFrom
  <2>2. QED
    BY <2>1 DEF WaitsIn
<1>11. Honest'
  <2>1. ASSUME NEW i \in DOMAIN channel
        PROVE  \E t \in DOMAIN tasks' :
                 /\ channel[i].host = HostOf(t) /\ channel[i].edition = t.edition
                 /\ tasks'[t] = IF channel[i].ok THEN "answered" ELSE "failed"
    BY <1>3 DEF Ledger, Honest, IsFrom
  <2>2. \A t \in Lone' : \A i, j \in DOMAIN channel :
          IsFrom(channel[i], t) /\ IsFrom(channel[j], t) => i = j
    BY <1>7, <1>10 DEF Ledger, Honest, WaitsIn
  <2>3. QED
    BY <1>2, <1>5, <2>1, <2>2 DEF Honest, IsFrom
<1>12. OnScreen'
  <2>1. ASSUME NEW t \in Lone', tasks'[t] = "answered" PROVE WaitsIn(channel, t)
    <3>1. t \in Lone /\ tasks[t] = "answered"
      BY <1>3, <1>7, <2>1 DEF Lone
    <3>2. QED
      BY <1>1, <3>1 DEF Ledger, OnScreen
  <2>2. QED
    BY <1>1, <1>5, <2>1 DEF OnScreen
<1>13. \A t \in Lone' : t \notin new => t \in Lone /\ HostOf(t) # host
                                        /\ (Taken(t)' <=> Taken(t))
  BY <1>3, <1>5, <1>7, <1>8, <1>9 DEF Taken, Lone
<1>14. Expected'
  <2>1. ASSUME NEW t \in Lone', ~Taken(t)' PROVE HostOf(t) \in DOMAIN pending'
    <3>1. CASE t \in new
      BY <1>2, <1>6, <3>1
    <3>2. CASE t \notin new
      BY <1>1, <1>2, <1>13, <2>1, <3>2 DEF Ledger, Expected
    <3>3. QED
      BY <3>1, <3>2
  <2>2. ASSUME NEW t \in Lone', NEW u \in Lone', t # u, HostOf(t) = HostOf(u),
               HostOf(t) \in DOMAIN pending', pending'[HostOf(t)].remaining = 1
        PROVE  Taken(t)' \/ Taken(u)'
    <3>1. CASE t \in new \/ u \in new
      <4>1. t \in new /\ u \in new
        BY <1>6, <1>13, <2>2, <3>1
      <4>2. Count(command.mode) = 1
        BY <1>2, <1>6, <2>2, <4>1
      <4>3. Editions(command.mode) = {command.mode}
        BY <4>2 DEF Count, Editions
      <4>4. QED
        BY <2>2, <4>1, <4>3
    <3>2. CASE t \notin new /\ u \notin new
      <4>1. /\ t \in Lone /\ u \in Lone /\ HostOf(t) # host
            /\ (Taken(t)' <=> Taken(t)) /\ (Taken(u)' <=> Taken(u))
        BY <1>13, <3>2
      <4>2. HostOf(t) \in DOMAIN pending /\ pending[HostOf(t)].remaining = 1
        BY <1>2, <2>2, <4>1
      <4>3. QED
        BY <1>1, <2>2, <4>1, <4>2 DEF Ledger, Expected
    <3>3. QED
      BY <3>1, <3>2
  <2>3. QED
    BY <1>5, <2>1, <2>2 DEF Expected
<1>15. Over'
  BY <1>1 DEF Over
<1>16. QED
  BY <1>4, <1>11, <1>12, <1>14, <1>15 DEF Ledger

\* The first result is taken: its task's is the one that waits no longer, and
\* its host is in the map if it is given once.
LEMMA LedgerReceive ==
  ASSUME Inv, Ledger, Receive
  PROVE  Ledger'
<1> DEFINE message == Head(channel)
           host == message.host
           entry == Counted(pending[host], message)
           n == Len(channel)
<1>1. /\ phase = "receiving" /\ phase' = "receiving"
      /\ UNCHANGED <<command, spawned, tasks>>
      /\ channel # <<>> /\ channel' = Tail(channel)
      /\ channel \in Seq(Message)
  BY DEF Receive, Inv, Shapes
<1>2. /\ n \in Nat \ {0} /\ DOMAIN channel = 1 .. n /\ message = channel[1]
      /\ DOMAIN channel' = 1 .. n - 1
      /\ \A i \in 1 .. n - 1 : channel'[i] = channel[i + 1]
      /\ message \in Message
  BY <1>1
<1>3. /\ Lone' = Lone /\ Lone \subseteq DOMAIN tasks
      /\ \A t : HostOf(t)' = HostOf(t) /\ Line(t)' = Line(t)
  BY <1>1 DEF Lone, GivenOnce, HostOf, Line
<1>4. Inv /\ Registered /\ Honest /\ OnScreen /\ Expected
  BY DEF Ledger
<1>5. PICK v \in DOMAIN tasks :
        /\ IsFrom(message, v)
        /\ tasks[v] = IF message.ok THEN "answered" ELSE "failed"
  <2>1. 1 \in DOMAIN channel
    BY <1>2
  <2>2. QED
    BY <1>2, <1>4, <2>1 DEF Honest
<1> HIDE DEF message, n
<1>6. \A t \in Lone : IsFrom(message, t) => t = v
  <2>1. ASSUME NEW t \in Lone, IsFrom(message, t) PROVE t = v
    <3>1. HostOf(v) = HostOf(t) /\ v.edition = t.edition
      BY <1>5, <2>1 DEF IsFrom
    <3>2. QED
      BY <1>4, <3>1, OneTask
  <2>2. QED
    BY <2>1
<1>7. \A t \in Lone : IsFrom(channel[1], t) <=> t = v
  BY <1>2, <1>5, <1>6
\* What still waits, in the words of the old state.
<1>8. \A t \in Lone : /\ WaitsIn(channel, t)' => WaitsIn(channel, t)
                      /\ WaitsIn(channel, t) /\ t # v => WaitsIn(channel, t)'
                      /\ t = v => WaitsIn(channel, t) /\ ~WaitsIn(channel, t)'
  <2>1. \A t : WaitsIn(channel, t)' <=> \E i \in 1 .. n - 1 : IsFrom(channel[i + 1], t)
    BY <1>1, <1>2, <1>3 DEF WaitsIn, IsFrom
  <2>2. \A i \in 1 .. n - 1 : i + 1 \in 1 .. n /\ i + 1 # 1
    BY <1>2
  <2>3. ASSUME NEW t \in Lone, NEW i \in 1 .. n, i # 1, IsFrom(channel[i], t)
        PROVE  WaitsIn(channel, t)'
    <3>1. i - 1 \in 1 .. n - 1 /\ (i - 1) + 1 = i
      BY <1>2, <2>3
    <3>2. QED
      BY <2>1, <2>3, <3>1
  <2>4. ASSUME NEW t \in Lone, t = v PROVE WaitsIn(channel, t) /\ ~WaitsIn(channel, t)'
    <3>1. 1 \in DOMAIN channel /\ IsFrom(channel[1], t)
      BY <1>2, <1>7, <2>4
    <3>2. \A i \in DOMAIN channel : IsFrom(channel[i], t) => i = 1
      BY <1>4, <3>1 DEF Honest
    <3>3. QED
      BY <1>2, <2>1, <2>2, <3>1, <3>2 DEF WaitsIn
  <2>5. QED
    BY <1>2, <1>7, <2>1, <2>2, <2>3, <2>4 DEF WaitsIn
<1>9. \A t \in Lone : (t # v => (Taken(t)' <=> Taken(t))) /\ (t = v => Taken(t)' /\ ~Taken(t))
  BY <1>1, <1>5, <1>8 DEF Taken
<1>10. Honest'
  <2>1. ASSUME NEW i \in 1 .. n - 1
        PROVE  \E t \in DOMAIN tasks :
                 /\ channel'[i].host = HostOf(t) /\ channel'[i].edition = t.edition
                 /\ tasks[t] = IF channel'[i].ok THEN "answered" ELSE "failed"
    <3>1. i + 1 \in DOMAIN channel /\ channel'[i] = channel[i + 1]
      BY <1>2
    <3>2. QED
      BY <1>4, <3>1 DEF Honest, IsFrom
  <2>2. ASSUME NEW t \in Lone, NEW i \in 1 .. n - 1, NEW j \in 1 .. n - 1,
               IsFrom(channel'[i], t), IsFrom(channel'[j], t)
        PROVE  i = j
    <3>1. i + 1 \in DOMAIN channel /\ j + 1 \in DOMAIN channel
      BY <1>2
    <3>2. i + 1 = j + 1
      BY <1>2, <1>4, <2>2, <3>1 DEF Honest
    <3>3. QED
      BY <1>2, <3>2
  <2>3. QED
    BY <1>1, <1>2, <1>3, <2>1, <2>2 DEF Honest, IsFrom
<1>11. v \in Lone => HostOf(v) = host /\ host \in DOMAIN pending
  BY <1>1, <1>4, <1>5, <1>9 DEF Expected, IsFrom
<1>12. \A t \in Lone : HostOf(t) = host => v \in Lone
  <2>1. HostOf(v) = host
    BY <1>5 DEF IsFrom
  <2>2. QED
    BY <1>4, <2>1, OneTask
<1>13. CASE host \notin DOMAIN pending
  <2>1. UNCHANGED <<pending, printed>>
    BY <1>13 DEF Receive, message
  <2>2. v \notin Lone
    BY <1>11, <1>13
  <2>3. \A t \in Lone : (Taken(t)' <=> Taken(t))
                        /\ (WaitsIn(channel, t) => WaitsIn(channel, t)')
    BY <1>8, <1>9, <2>2
  <2>4. OnScreen'
    BY <1>1, <1>3, <1>4, <2>1, <2>3 DEF OnScreen
  <2>5. Expected'
    BY <1>1, <1>3, <1>4, <2>1, <2>3 DEF Expected
  <2>6. QED
    BY <1>1, <1>4, <1>10, <2>4, <2>5 DEF Ledger, Registered, Over, Editions
<1>14. CASE host \in DOMAIN pending
  <2> DEFINE kept == IF Settled(entry) THEN DOMAIN pending \ {host} ELSE DOMAIN pending
  <2>1. /\ pending' = [h \in kept |-> IF h = host THEN entry ELSE pending[h]]
        /\ printed' = printed \cup Lines(host, message, entry)
    BY <1>14 DEF Receive, message
  <2>2. /\ pending[host].remaining \in 1 .. 2
        /\ entry.remaining = pending[host].remaining - 1
    BY <1>14, CommandLine DEF Inv, Shapes, Count, Counted
  <2>3. /\ Settled(entry) <=> pending[host].remaining = 1
        /\ DOMAIN pending' = kept
        /\ \A h \in kept : pending'[h] = IF h = host THEN entry ELSE pending[h]
    BY <2>1, <2>2 DEF Settled
  <2> HIDE DEF entry
  <2>4. OnScreen'
    <3>1. ASSUME NEW t \in Lone, Line(t) \in printed' PROVE tasks[t] = "answered"
      <4>1. CASE Line(t) \in printed
        BY <1>4, <4>1 DEF OnScreen
      <4>2. CASE Line(t) \notin printed
        <5>1. Line(t) \in Lines(host, message, entry) /\ Line(t).ok
          BY <2>1, <3>1, <4>2 DEF Line
        <5>2. message.ok /\ HostOf(t) = host /\ t.edition = message.edition
          BY <5>1 DEF Lines, Line
        <5>3. t = v
          BY <1>6, <5>2 DEF IsFrom
        <5>4. QED
          BY <1>5, <5>2, <5>3
      <4>3. QED
        BY <4>1, <4>2
    <3>2. ASSUME NEW t \in Lone, tasks[t] = "answered"
          PROVE  WaitsIn(channel, t)' \/ Line(t) \in printed'
      <4>1. WaitsIn(channel, t) \/ Line(t) \in printed
        BY <1>4, <3>2 DEF OnScreen
      <4>2. CASE t # v
        BY <1>8, <2>1, <4>1, <4>2
      <4>3. CASE t = v
        <5>1. message.ok
          BY <1>5, <3>2, <4>3
        <5>2. Line(t) = [host |-> host, edition |-> message.edition, ok |-> TRUE]
          BY <1>5, <4>3 DEF Line, IsFrom
        <5>3. QED
          BY <2>1, <5>1, <5>2 DEF Lines
      <4>4. QED
        BY <4>2, <4>3
    <3>3. QED
      BY <1>1, <1>3, <3>1, <3>2 DEF OnScreen
  <2>5. ASSUME NEW t \in Lone, ~Taken(t)' PROVE HostOf(t) \in DOMAIN pending'
    <3>1. t # v /\ ~Taken(t)
      BY <1>9, <2>5
    <3>2. HostOf(t) \in DOMAIN pending
      BY <1>1, <1>4, <3>1 DEF Expected
    <3>3. ASSUME HostOf(t) = host, pending[host].remaining = 1 PROVE FALSE
      <4>1. v \in Lone /\ HostOf(v) = HostOf(t) /\ ~Taken(v)
        BY <1>9, <1>11, <1>12, <3>3
      <4>2. QED
        BY <1>1, <1>4, <3>1, <3>2, <3>3, <4>1 DEF Expected
    <3>4. QED
      BY <2>3, <3>2, <3>3
  <2>6. ASSUME NEW t \in Lone, NEW u \in Lone, t # u, HostOf(t) = HostOf(u),
               HostOf(t) \in DOMAIN pending', pending'[HostOf(t)].remaining = 1
        PROVE  Taken(t)' \/ Taken(u)'
    <3>1. HostOf(t) \in DOMAIN pending
      BY <2>3, <2>6
    <3>2. CASE HostOf(t) # host
      <4>1. pending[HostOf(t)].remaining = 1
        BY <2>3, <2>6, <3>2
      <4>2. Taken(t) \/ Taken(u)
        BY <1>1, <1>4, <2>6, <3>1, <4>1 DEF Expected
      <4>3. t # v /\ u # v
        BY <1>11, <2>6, <3>2
      <4>4. QED
        BY <1>9, <4>2, <4>3
    <3>3. CASE HostOf(t) = host
      <4>1. v \in Lone /\ HostOf(v) = host
        BY <1>11, <1>12, <3>3
      <4>2. /\ v.edition = t.edition => v = t
            /\ v.edition = u.edition => v = u
            /\ u.edition = t.edition => u = t
        BY <1>3, <1>4, <2>6, <3>3, <4>1, OneTask
      <4>3. v.edition \in Protocols /\ t.edition \in Protocols /\ u.edition \in Protocols
        BY <1>3 DEF Inv, Shapes, Task
      <4>4. v = t \/ v = u
        BY <2>6, <4>2, <4>3 DEF Protocols
      <4>5. QED
        BY <1>9, <4>4
    <3>4. QED
      BY <3>2, <3>3
  <2>7. Expected'
    BY <1>3, <2>5, <2>6 DEF Expected
  <2>8. QED
    BY <1>1, <1>4, <1>10, <2>4, <2>7 DEF Ledger, Registered, Over, Editions
<1>15. QED
  BY <1>13, <1>14

\* The empty sequence has no positions.
LEMMA NoneInEmpty == DOMAIN <<>> = {}
<1>1. <<>> \in Seq({}) /\ Len(<<>>) = 0
  OBVIOUS
<1>2. \A s \in Seq({}) : DOMAIN s = 1 .. Len(s)
  OBVIOUS
<1>3. 1 .. 0 = {}
  OBVIOUS
<1>4. QED
  BY <1>1, <1>2, <1>3

\* The channel is empty: what was answered has been printed.
LEMMA LedgerFinish ==
  ASSUME Inv, Ledger, Finish
  PROVE  Ledger'
<1>1. /\ UNCHANGED <<command, spawned, tasks, channel>>
      /\ channel = <<>> /\ phase' = "exited"
      /\ printed' = printed \cup [host : Leftover, edition : {""}, ok : {FALSE}]
      /\ \A t \in DOMAIN tasks : tasks[t] \in Ended
  BY DEF Finish, AllSendersDropped
<1>2. /\ Lone' = Lone
      /\ \A t \in Lone : Line(t)' = Line(t)
      /\ \A t : ~WaitsIn(channel, t) /\ ~WaitsIn(channel, t)'
  <2>1. DOMAIN channel = {} /\ DOMAIN channel' = {}
    BY <1>1, NoneInEmpty
  <2>2. Lone' = Lone
    BY <1>1 DEF Lone, GivenOnce, HostOf
  <2>3. \A t \in Lone : Line(t)' = Line(t)
    BY <1>1 DEF Line, HostOf
  <2>4. \A t : ~WaitsIn(channel, t) /\ ~WaitsIn(channel, t)'
    BY <2>1 DEF WaitsIn
  <2>5. QED
    BY <2>2, <2>3, <2>4
<1>3. \A t \in Lone : Line(t) \in printed' <=> Line(t) \in printed
  BY <1>1 DEF Line
<1>4. OnScreen'
  <2> SUFFICES ASSUME NEW t \in Lone
               PROVE  Line(t) \in printed' <=> tasks[t] = "answered"
    BY <1>1, <1>2 DEF OnScreen
  <2>1. QED
    BY <1>2, <1>3 DEF Ledger, OnScreen
<1>5. Registered' /\ Honest' /\ Over'
  <2>1. Registered'
    BY <1>1 DEF Ledger, Registered, Editions
  <2>2. Honest'
    <3>1. DOMAIN channel' = {}
      BY <1>1, NoneInEmpty
    <3>2. QED
      BY <3>1 DEF Honest
  <2>3. Over'
    BY <1>1 DEF Over
  <2>4. QED
    BY <2>1, <2>2, <2>3
<1>6. Expected'
  BY <1>1 DEF Expected
<1>7. QED
  BY <1>4, <1>5, <1>6 DEF Ledger

LEMMA LedgerNext == Inv /\ Ledger /\ [Next]_vars => Ledger'
<1> SUFFICES ASSUME Inv, Ledger, [Next]_vars PROVE Ledger'
  OBVIOUS
<1>1. CASE Main
  BY <1>1, LedgerStart, LedgerSpawn, LedgerReceive, LedgerFinish DEF Main
<1>2. ASSUME NEW t \in DOMAIN tasks, Query(t) PROVE Ledger'
  BY <1>2, QueryIs, LedgerQuery
<1>3. CASE UNCHANGED vars
  BY <1>3 DEF vars, mainVars, Ledger, Registered, Honest, OnScreen, Expected, Over,
              Lone, GivenOnce, IsFrom, WaitsIn, Line, Taken, HostOf, Editions
<1>4. QED
  BY <1>1, <1>2, <1>3 DEF Next

\* An answer on the screen was given by a query of its host.
Genuine == \A h : Shown(h) => Answered(h)

LEMMA GenuineNext == Inv /\ Ledger /\ Genuine /\ [Next]_vars => Genuine'
<1> SUFFICES ASSUME Inv, Ledger, Genuine, [Next]_vars, NEW h, Shown(h)'
             PROVE  Answered(h)'
  BY DEF Genuine
<1>1. ASSUME Answered(h), UNCHANGED <<command, tasks>> PROVE Answered(h)'
  BY <1>1 DEF Answered, HostOf
<1>2. CASE UNCHANGED <<command, tasks, printed>>
  <2>1. Shown(h)
    BY <1>2 DEF Shown
  <2>2. QED
    BY <1>1, <1>2, <2>1 DEF Genuine
<1>3. CASE Spawn
  <2>1. printed' = {}
    BY <1>3 DEF Spawn, Inv, Remembered
  <2>2. QED
    BY <2>1 DEF Shown
<1>4. CASE Finish
  <2>1. \A line \in printed' : line.ok => line \in printed
    BY <1>4 DEF Finish
  <2>2. Shown(h) /\ UNCHANGED <<command, tasks>>
    BY <1>4, <2>1 DEF Shown, Finish
  <2>3. QED
    BY <1>1, <2>2 DEF Genuine
<1>5. CASE Receive
  <2>1. UNCHANGED <<command, tasks>>
    BY <1>5 DEF Receive
  <2>2. CASE Shown(h)
    BY <1>1, <2>1, <2>2 DEF Genuine
  <2>3. CASE ~Shown(h)
    <3>1. PICK line \in printed' : line.host = h /\ line.ok /\ line \notin printed
      BY <2>3 DEF Shown
    <3>2. PICK message : message = Head(channel)
      OBVIOUS
    <3>3. \E entry : line \in Lines(message.host, message, entry)
      BY <1>5, <3>1, <3>2 DEF Receive
    <3>4. message.ok /\ message.host = h
      BY <3>1, <3>3 DEF Lines
    <3>5. channel \in Seq(Message) /\ channel # <<>>
      BY <1>5 DEF Receive, Inv, Shapes
    <3>6. 1 \in DOMAIN channel /\ channel[1] = message
      BY <3>2, <3>5
    <3>7. PICK t \in DOMAIN tasks : IsFrom(message, t) /\ tasks[t] = "answered"
      BY <3>4, <3>6 DEF Ledger, Honest
    <3>8. Answered(h)
      BY <3>4, <3>7 DEF IsFrom, Answered
    <3>9. QED
      BY <1>1, <2>1, <3>8
  <2>4. QED
    BY <2>2, <2>3
<1>6. CASE Start \/ UNCHANGED vars
  <2>1. UNCHANGED <<command, tasks, printed>>
    BY <1>6 DEF Start, vars, mainVars
  <2>2. QED
    BY <1>2, <2>1
<1>7. ASSUME NEW t \in DOMAIN tasks, Query(t) PROVE Answered(h)'
  <2>1. UNCHANGED <<command, printed>>
    BY <1>7, QueriesStep DEF QueryStep, mainVars
  <2>2. PICK u \in DOMAIN tasks : HostOf(u) = h /\ tasks[u] = "answered"
    <3>1. Shown(h)
      BY <2>1 DEF Shown
    <3>2. QED
      BY <3>1 DEF Genuine, Answered
  <2>3. u \in DOMAIN tasks' /\ tasks'[u] = "answered" /\ HostOf(u)' = h
    <3>1. tasks[t] \in Active
      BY <1>7 DEF Query, Resolve, Connect, StatusResponse, PongArrives, Breaks,
                  TimeOut, Panic, At, Active, Awaiting
    <3>2. t # u
      BY <2>2, <3>1 DEF Active, Awaiting
    <3>3. \E s : tasks' = [tasks EXCEPT ![t] = s]
      BY <1>7 DEF Query, Resolve, Connect, StatusResponse, PongArrives, Breaks,
                  TimeOut, Panic, Ends, Goes
    <3>4. QED
      BY <2>1, <2>2, <3>2, <3>3 DEF HostOf
  <2>4. QED
    BY <2>3 DEF Answered
<1>8. QED
  BY <1>3, <1>4, <1>5, <1>6, <1>7 DEF Next, Main

\* The bookkeeping, the ledger of results and the answers shown, together.
LEMMA Together == Spec => [](Inv /\ Ledger /\ Genuine)
<1>1. Init => Ledger /\ Genuine
  <2> SUFFICES ASSUME Init PROVE Ledger /\ Genuine
    OBVIOUS
  <2>1. /\ Lone = {} /\ DOMAIN tasks = {} /\ channel = <<>> /\ phase = "start"
        /\ printed = {}
    BY DEF Init, Lone
  <2>2. Ledger
    BY <2>1 DEF Ledger, Registered, Honest, OnScreen, Expected, Over
  <2>3. QED
    BY <2>1, <2>2 DEF Genuine, Shown
<1>2. QED
  BY <1>1, InitInv, NextKeeps, LedgerNext, GenuineNext, PTL DEF Spec

\* A host that is given once and has answered is on the screen, once its
\* results are in.
LEMMA AnswersShown ==
  ASSUME Ledger, NEW h, GivenOnce(h), Answered(h),
         phase = "exited" \/ h \notin DOMAIN pending
  PROVE  Shown(h)
<1>1. PICK t \in DOMAIN tasks : HostOf(t) = h /\ tasks[t] = "answered"
  BY DEF Answered
<1>2. t \in Lone
  BY <1>1 DEF Lone
<1>3. ~WaitsIn(channel, t)
  <2>1. CASE phase = "exited"
    BY <2>1, NoneInEmpty DEF Ledger, Over, WaitsIn
  <2>2. CASE phase # "exited"
    BY <1>1, <1>2, <2>2 DEF Ledger, Expected, Taken
  <2>3. QED
    BY <2>1, <2>2
<1>4. Line(t) \in printed
  BY <1>1, <1>2, <1>3 DEF Ledger, OnScreen
<1>5. Line(t).host = h /\ Line(t).ok
  BY <1>1 DEF Line
<1>6. QED
  BY <1>4, <1>5 DEF Shown

\* The exit code tells the truth about the answers, for any number of hosts
\* and with panicking queries: 0 only if every host has answered, and 1 only
\* if one has not or is given more than once (mcget.rs:240).
THEOREM ExitCode == Spec => []ExitCodeTruthful
<1>1. Inv /\ Ledger /\ Genuine => ExitCodeTruthful
  <2> SUFFICES ASSUME Inv, Ledger, Genuine, phase = "exited", command.hosts # <<>>
               PROVE  \/ exitCode = 0 /\ \A h \in HostsGiven : Answered(h)
                      \/ exitCode = 1 /\ \E h \in HostsGiven :
                                           GivenOnce(h) => ~Answered(h)
    BY DEF ExitCodeTruthful
  <2>1. exitCode \in {0, 1} /\ (exitCode = 0 <=> \A h \in HostsGiven : Shown(h))
    BY DEF Inv, ExitCodeShown
  <2>2. CASE exitCode = 0
    BY <2>1, <2>2 DEF Genuine
  <2>3. CASE exitCode = 1
    <3>1. PICK h \in HostsGiven : ~Shown(h)
      BY <2>1, <2>3
    <3>2. GivenOnce(h) => ~Answered(h)
      BY <3>1, AnswersShown
    <3>3. QED
      BY <2>3, <3>2
  <2>4. QED
    BY <2>1, <2>2, <2>3
<1>2. QED
  BY <1>1, Together, PTL

\* Of a host given once, no failure is printed unless none of its queries was
\* answered, whether or not that answer has been printed (mcget.rs:237-238).
THEOREM Suppressed == Spec => []FailuresSuppressed
<1>1. Inv /\ Ledger => FailuresSuppressed
  <2> SUFFICES ASSUME Inv, Ledger, NEW line \in printed, ~line.ok,
                      GivenOnce(line.host), Answered(line.host)
               PROVE  FALSE
    BY DEF FailuresSuppressed
  <2>1. line.host \notin DOMAIN pending /\ ~Shown(line.host)
    BY DEF Inv, Remembered
  <2>2. QED
    BY <2>1, AnswersShown
<1>2. QED
  BY <1>1, Together, PTL

\* Every query of a host that is given once is on the screen at the end if it
\* was answered in time, and only then: no result is lost on its way through
\* channel and map, in any order and with panicking queries (mcget.rs:236-237).
THEOREM SuccessesPrinted == Spec => []EverySuccessPrinted
<1>1. Ledger => EverySuccessPrinted
  <2> SUFFICES ASSUME Ledger, phase = "exited", NEW t \in DOMAIN tasks,
                      GivenOnce(HostOf(t))
               PROVE  tasks[t] = "answered" <=> Line(t) \in printed
    BY DEF EverySuccessPrinted, Line
  <2>1. t \in Lone /\ ~WaitsIn(channel, t)
    BY DEF Lone, Ledger, Over, WaitsIn
  <2>2. QED
    BY <2>1 DEF Ledger, OnScreen
<1>2. QED
  BY <1>1, Together, PTL
=============================================================================
