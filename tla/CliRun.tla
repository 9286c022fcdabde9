------------------------------- MODULE CliRun -------------------------------
(***************************************************************************)
(* The command mcget (src/bin/mcget.rs): one task per host and protocol,   *)
(* each under a timeout of its own (query_java, query_bedrock, with the    *)
(* steps of java.rs send and ping.rs send), and the thread of main, which  *)
(* takes the results in the order of their arrival, prints them and        *)
(* computes the exit code.  Answers are good or bad; their bytes are the   *)
(* subject of JavaCodec and OfflineCodec.                                  *)
(***************************************************************************)
EXTENDS Naturals, Sequences, FiniteSets, SequencesExt

CONSTANTS
  Hosts,       \* the HOST arguments there are
  Commands,    \* command lines: [hosts, mode, latency]
  Resolutions  \* what the resolver may answer: sequences of address families

Modes == {"java", "bedrock", "auto"}
Families == {"v4", "v6"}
Command == [hosts : Seq(Hosts), mode : Modes, latency : BOOLEAN]
ASSUME CommandsAssumption == Commands \subseteq Command
ASSUME ResolutionsAssumption == Resolutions \subseteq Seq(Families)

VARIABLES
  command,   \* the parsed command line
  phase,     \* where the main thread is
  spawned,   \* how many hosts its loop has registered
  pending,   \* the map of Pending entries
  tasks,     \* the spawned queries: task -> where it is
  channel,   \* results sent and not yet taken
  printed,   \* lines written: [host, edition, ok]
  anyFailed, \* any_failed
  exitCode

mainVars == <<phase, spawned, pending, printed, anyFailed, exitCode>>
vars == <<command, mainVars, tasks, channel>>

Protocols == {"java", "bedrock"}
Entry == [remaining : Nat, hadSuccess : BOOLEAN, failures : Seq(Protocols)]
Task == [arg : Nat \ {0}, edition : Protocols]
Message == [host : Hosts, edition : Protocols, ok : BOOLEAN]

Awaiting == {"connecting", "status", "pong", "waiting"}
Active == Awaiting \cup {"resolving"}
Ended == {"answered", "failed", "panicked"}

HostsGiven == Range(command.hosts)
HostOf(t) == command.hosts[t.arg]

Editions(mode) == IF mode = "auto" THEN Protocols ELSE {mode}

Init ==
  /\ command \in Commands
  /\ phase = "start"
  /\ spawned = 0
  /\ pending = [h \in {} |-> <<>>]
  /\ tasks = [t \in {} |-> "resolving"]
  /\ channel = <<>>
  /\ printed = {}
  /\ anyFailed = FALSE
  /\ exitCode = 0

-----------------------------------------------------------------------------
(* The main thread *)

Start ==
  /\ phase = "start"
  /\ IF command.hosts = <<>>
       THEN /\ phase' = "exited"
            /\ exitCode' = 2
       ELSE /\ phase' = "spawning"
            /\ UNCHANGED exitCode
  /\ UNCHANGED <<command, spawned, pending, tasks, channel, printed, anyFailed>>

\* Mutant of Count: the second protocol of auto-detection is not counted.
CountOne(mode) == 1

Count(mode) == IF mode = "auto" THEN 2 ELSE 1

\* A host is registered, over an entry it may already have, and its queries
\* start; after the last one main drops its own sender.
Spawn ==
  /\ phase = "spawning"
  /\ LET arg == spawned + 1
         entry == [remaining |-> Count(command.mode), hadSuccess |-> FALSE,
                   failures |-> <<>>]
         new == [arg : {arg}, edition : Editions(command.mode)]
     IN /\ pending' = [h \in DOMAIN pending \cup {command.hosts[arg]} |->
                         IF h = command.hosts[arg] THEN entry ELSE pending[h]]
        /\ tasks' = [t \in DOMAIN tasks \cup new |->
                       IF t \in new THEN "resolving" ELSE tasks[t]]
        /\ spawned' = arg
        /\ phase' = IF arg = Len(command.hosts) THEN "receiving" ELSE phase
  /\ UNCHANGED <<command, channel, printed, anyFailed, exitCode>>

\* The entry of a host after one of its results.
Counted(entry, message) ==
  [remaining |-> entry.remaining - 1,
   hadSuccess |-> entry.hadSuccess \/ message.ok,
   failures |-> IF message.ok THEN entry.failures
                ELSE Append(entry.failures, message.edition)]

\* Mutant of Flushed: buffered failures are shown whatever else was seen.
FlushedAlways(entry) == entry.remaining = 0 /\ entry.failures # <<>>

\* The buffered failures are shown: the last result is in, none was a success.
Flushed(entry) == entry.remaining = 0 /\ ~entry.hadSuccess

\* Mutant of Settled: only a host that failed is removed from the map.
SettledOnFailure(entry) == entry.remaining = 0 /\ ~entry.hadSuccess

\* The last result of a host is in: its entry is removed.
Settled(entry) == entry.remaining = 0

Lines(host, message, entry) ==
  LET line(e, ok) == [host |-> host, edition |-> e, ok |-> ok]
  IN (IF message.ok THEN {line(message.edition, TRUE)} ELSE {})
       \cup (IF Flushed(entry) THEN {line(e, FALSE) : e \in Range(entry.failures)} ELSE {})

\* One result: counted, printed, and the host settled when it was the last.
Receive ==
  /\ phase = "receiving"
  /\ channel # <<>>
  /\ channel' = Tail(channel)
  /\ LET message == Head(channel)
         host == message.host
     IN IF host \notin DOMAIN pending
          THEN UNCHANGED <<pending, printed, anyFailed>>
          ELSE LET entry == Counted(pending[host], message)
                   kept == IF Settled(entry) THEN DOMAIN pending \ {host}
                                             ELSE DOMAIN pending
               IN /\ pending' = [h \in kept |-> IF h = host THEN entry ELSE pending[h]]
                  /\ printed' = printed \cup Lines(host, message, entry)
                  /\ anyFailed' = (anyFailed \/ Flushed(entry))
  /\ UNCHANGED <<command, phase, spawned, tasks, exitCode>>

\* The channel is closed: every task has ended, and with it its sender.
AllSendersDropped == \A t \in DOMAIN tasks : tasks[t] \in Ended

\* Mutant of Leftover: only results that were reported are looked at.
LeftoverIgnored == {}

\* Hosts whose entry is still there when the channel closes: tasks panicked.
Leftover == {h \in DOMAIN pending : ~pending[h].hadSuccess}

\* The loop over the channel ends; run returns and main exits.
Finish ==
  /\ phase = "receiving"
  /\ channel = <<>>
  /\ AllSendersDropped
  /\ printed' = printed \cup [host : Leftover, edition : {""}, ok : {FALSE}]
  /\ anyFailed' = (anyFailed \/ Leftover # {})
  /\ exitCode' = IF anyFailed' THEN 1 ELSE 0
  /\ pending' = [h \in {} |-> <<>>]
  /\ phase' = "exited"
  /\ UNCHANGED <<command, spawned, tasks, channel>>

-----------------------------------------------------------------------------
(* The queries *)

\* A query ends and sends its result: no await lies between the two.
Ends(t, how) ==
  /\ tasks' = [tasks EXCEPT ![t] = how]
  /\ channel' = Append(channel, [host |-> HostOf(t), edition |-> t.edition,
                                 ok |-> how = "answered"])

Goes(t, where) ==
  /\ tasks' = [tasks EXCEPT ![t] = where]
  /\ UNCHANGED channel

At(t, where) == t \in DOMAIN tasks /\ tasks[t] = where

\* RequestBuilder::new: the resolver is called in the task and blocks it; the
\* last address is taken.  The socket of a Bedrock query is an IPv4 one.
Resolve(t) ==
  /\ At(t, "resolving")
  /\ \/ Ends(t, "failed")
     \/ \E addrs \in Resolutions :
          IF addrs = <<>> \/ (t.edition = "bedrock" /\ Last(addrs) = "v6")
            THEN Ends(t, "failed")
            ELSE Goes(t, IF t.edition = "java" THEN "connecting" ELSE "waiting")
  /\ UNCHANGED <<command, mainVars>>

\* java.rs send: the connection is up, handshake and status request are out.
Connect(t) ==
  /\ At(t, "connecting")
  /\ Goes(t, "status")
  /\ UNCHANGED <<command, mainVars>>

\* The Status Response; with --latency one more round trip follows.
StatusResponse(t) ==
  /\ At(t, "status")
  /\ IF command.latency THEN Goes(t, "pong") ELSE Ends(t, "answered")
  /\ UNCHANGED <<command, mainVars>>

\* The Java Pong with the timestamp that was sent, or the Unconnected Pong;
\* datagrams that are not a Pong change nothing.
PongArrives(t) ==
  /\ At(t, "pong") \/ At(t, "waiting")
  /\ Ends(t, "answered")
  /\ UNCHANGED <<command, mainVars>>

\* The socket fails or the answer cannot be read.
Breaks(t) ==
  /\ t \in DOMAIN tasks
  /\ tasks[t] \in Awaiting
  /\ Ends(t, "failed")
  /\ UNCHANGED <<command, mainVars>>

\* Mutant of TimeOut: the timeout is put around the Java query only.
TimeOutJava(t) ==
  /\ t \in DOMAIN tasks
  /\ tasks[t] \in Awaiting \ {"waiting"}
  /\ Ends(t, "failed")
  /\ UNCHANGED <<command, mainVars>>

\* tokio::time::timeout: at an await, never inside the blocking resolver.
TimeOut(t) ==
  /\ t \in DOMAIN tasks
  /\ tasks[t] \in Awaiting
  /\ Ends(t, "failed")
  /\ UNCHANGED <<command, mainVars>>

\* A query panics: its sender is dropped without a message.
Panic(t) ==
  /\ t \in DOMAIN tasks
  /\ tasks[t] \in Active
  /\ Goes(t, "panicked")
  /\ UNCHANGED <<command, mainVars>>

Query(t) ==
  \/ Resolve(t) \/ Connect(t) \/ StatusResponse(t) \/ PongArrives(t)
  \/ Breaks(t) \/ TimeOut(t) \/ Panic(t)

Main == Start \/ Spawn \/ Receive \/ Finish

Next == Main \/ \E t \in DOMAIN tasks : Query(t)

Spec == Init /\ [][Next]_vars

\* The main thread runs; getaddrinfo returns, with an error when nothing
\* answers; the timer of a query fires.  Nothing is assumed of any server.
AnyTask(A(_)) == \E t \in DOMAIN tasks : A(t)
Fairness ==
  /\ WF_vars(Main)
  /\ WF_vars(AnyTask(Resolve))
  /\ WF_vars(AnyTask(TimeOut))

FairSpec == Spec /\ Fairness

-----------------------------------------------------------------------------
(* Properties *)

\* The values the variables take.  An entry waits for at least one result and
\* at most one for each protocol, so that remaining -= 1 (mcget.rs:331) never
\* runs below zero, also when a host is given twice and sends more results
\* than its one entry counts.
TypeOK ==
  /\ command \in Commands
  /\ phase \in {"start", "spawning", "receiving", "exited"}
  /\ spawned \in 0..Len(command.hosts)
  /\ DOMAIN pending \subseteq HostsGiven
  /\ \A h \in DOMAIN pending :
       /\ pending[h] \in Entry
       /\ pending[h].remaining \in 1..Count(command.mode)
  /\ \A t \in DOMAIN tasks : t \in Task /\ tasks[t] \in Active \cup Ended
  /\ channel \in Seq(Message)
  /\ anyFailed \in BOOLEAN
  /\ exitCode \in 0..2

GivenOnce(h) == Cardinality({i \in DOMAIN command.hosts : command.hosts[i] = h}) = 1

Answered(h) == \E t \in DOMAIN tasks : HostOf(t) = h /\ tasks[t] = "answered"

\* mcget.rs:240 "0 = all succeeded, 1 = at least one failed": exit code 0 means
\* that every host on the command line has answered in time, and 1 that one of
\* the hosts given once has not, whatever the order of the results and with
\* queries that panicked.  (Beside a host given twice 1 may mean less: its
\* answers can come after two failures have settled its one entry, :329.)
ExitCodeTruthful ==
  phase = "exited" /\ command.hosts # <<>> =>
    \/ exitCode = 0 /\ \A h \in HostsGiven : Answered(h)
    \/ exitCode = 1 /\ \E h \in HostsGiven : GivenOnce(h) => ~Answered(h)

\* mcget.rs:237-238 "a failure on one protocol is suppressed if the other
\* protocol succeeds; only when every protocol fails for a given host are the
\* failure messages printed": of a host given once no failure is on the screen
\* unless none of its queries was answered, be the answer printed or not yet.
FailuresSuppressed ==
  \A line \in printed : ~line.ok /\ GivenOnce(line.host) => ~Answered(line.host)

\* mcget.rs:236-237 "prints each success as soon as it resolves": of a host
\* that is given once, every query that was answered in time is on the screen
\* when the command ends, and no other.  (Of a host given twice, a success
\* that arrives after its first pair of results is dropped: mcget.rs:329.)
EverySuccessPrinted ==
  phase = "exited" =>
    \A t \in DOMAIN tasks : GivenOnce(HostOf(t)) =>
      (tasks[t] = "answered"
         <=> [host |-> HostOf(t), edition |-> t.edition, ok |-> TRUE] \in printed)

\* The command ends, whatever the servers do: every query is under a timeout,
\* and the loop over the channel ends when the last sender is gone.
CommandEnds == <>(phase = "exited")
=============================================================================
