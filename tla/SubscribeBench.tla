--------------------------- MODULE SubscribeBench ---------------------------
(***************************************************************************)
(* statement-ops-bench subscribe (src/src/ops/subscribe.rs) on top of the  *)
(* subscription readers of src/src/ops/common.rs.  The endpoints are       *)
(* visited one after the other; on each one a seed statement may be        *)
(* submitted, then the topic is read ReadsPerNode times, every read on a   *)
(* subscription of its own.                                                *)
(*                                                                         *)
(* External, from its use: the node, which answers a subscription with a   *)
(* dump of what it holds, in events whose `remaining` tells when the dump  *)
(* ends, then with live events, and may end the stream or fail.            *)
(***************************************************************************)
EXTENDS Integers, Sequences, FiniteSets

CONSTANTS
  Endpoints,      \* number of --rpc-endpoints
  ReadsPerNode,   \* --reads-per-node
  Timeout,        \* --drain-timeout-ms, in ticks
  Statement,      \* the statements that may match the topic
  Redelivered     \* how often the node pushes a live statement again

\* SubscribeConfig::validate, and what bounds the node.
ASSUME ConfigAssumption ==
  /\ Endpoints \in Nat
  /\ ReadsPerNode \in Nat \ {0}
  /\ Timeout \in Nat \ {0}
  /\ IsFiniteSet(Statement)
  /\ Redelivered \in Nat

VARIABLES
  topicOverride, \* option: whether --topic is given
  assertOnce,    \* option: --assert-once
  pc,         \* where run_subscribe_on_endpoint is
  endpoint,   \* the endpoint being visited
  successes,  \* per endpoint, the reads that succeeded
  failures,   \* per endpoint, the reads that failed, 1 if seeding failed
  seed,       \* per endpoint, its SeedStatus
  received,   \* statements received by the current read
  waited,     \* ticks since the reader began to wait for an event
  exit,       \* "running", then the exit status
  store,      \* node: the matching statements it holds
  toDump,     \* node: statements of the dump not pushed yet
  dumping,    \* node: whether the dump is still to be completed
  toPush,     \* node: statements to be pushed live
  again,      \* node: redeliveries left for this subscription
  stream      \* the events pushed and not read yet

nodeVars == <<toDump, dumping, toPush, again, stream>>
reportVars == <<endpoint, successes, failures, seed, exit>>
options == <<topicOverride, assertOnce>>
vars == <<options, pc, reportVars, received, waited, store, nodeVars>>

Endpoint == 1 .. Endpoints
SeedStatus == {"Unknown", "Submitted", "NotSeeded", "Failed"}

Location ==
  {"seed",       \* ensure_seed
   "subscribe",  \* a read is to open its subscription
   "dump",       \* draining the initial dump
   "live",       \* run_single_read: one more event, when nothing was dumped
   "idle",       \* run_assert_once_read: collect_until_idle
   "finished"}

\* Events: n statements, the last event of the dump or not; or the stream ends.
Event ==
  [kind : {"statements"}, n : 0 .. Cardinality(Statement), last : BOOLEAN]
Statements(n, last) == [kind |-> "statements", n |-> n, last |-> last]
Closed == [kind |-> "closed", n |-> 0, last |-> FALSE]
StreamError == [kind |-> "error", n |-> 0, last |-> FALSE]

TypeOK ==
  /\ topicOverride \in BOOLEAN /\ assertOnce \in BOOLEAN
  /\ pc \in Location
  /\ endpoint \in 1 .. (Endpoints + 1)
  /\ successes \in [Endpoint -> 0 .. ReadsPerNode]
  /\ failures \in [Endpoint -> 0 .. ReadsPerNode]
  /\ seed \in [Endpoint -> SeedStatus]
  /\ received \in Nat
  /\ waited \in 0 .. Timeout
  /\ exit \in {"running", "success", "failure"}
  /\ store \subseteq Statement
  /\ toDump \subseteq store /\ toPush \subseteq store
  /\ dumping \in BOOLEAN
  /\ again \in 0 .. Redelivered
  /\ stream \in Seq(Event \cup {Closed, StreamError})

\* --assert-once is refused without --topic.  With --topic the node may hold
\* matching statements from before; the topic derived from a fresh run id and
\* the endpoint is new.
Init ==
  /\ topicOverride \in BOOLEAN
  /\ assertOnce \in {FALSE, topicOverride}
  /\ pc = IF Endpoints = 0 THEN "finished" ELSE "seed"
  /\ endpoint = 1
  /\ successes = [e \in Endpoint |-> 0]
  /\ failures = [e \in Endpoint |-> 0]
  /\ seed = [e \in Endpoint |-> "Unknown"]
  /\ received = 0
  /\ waited = 0
  /\ exit = "running"
  /\ store \in IF topicOverride THEN SUBSET Statement ELSE {{}}
  /\ toDump = {} /\ dumping = FALSE /\ toPush = {} /\ again = 0 /\ stream = <<>>

-----------------------------------------------------------------------------
(* The node. *)

Open == pc \in {"dump", "live", "idle"}
Ended == stream # <<>> /\ stream[Len(stream)].kind # "statements"
Push(event) == stream' = Append(stream, event)

NodeFrame == UNCHANGED <<pc, reportVars, received, waited>>

\* Another client's statement reaches the node, or a seed it had accepted.
StatementArrives ==
  /\ pc \notin {"seed", "finished"}
  /\ topicOverride \/ (seed[endpoint] = "Submitted" /\ store = {})
  /\ \E s \in Statement \ store :
       /\ store' = store \cup {s}
       /\ toPush' = IF Open THEN toPush \cup {s} ELSE toPush
  /\ UNCHANGED <<toDump, dumping, again, stream>> /\ NodeFrame

\* The next event of the dump; only the last one says that nothing remains.
PushDump ==
  /\ Open /\ dumping /\ ~Ended
  /\ \E batch \in SUBSET toDump :
       /\ batch = {} => toDump = {}
       /\ Push(Statements(Cardinality(batch), batch = toDump))
       /\ toDump' = toDump \ batch
       /\ dumping' = (batch # toDump)
  /\ UNCHANGED <<store, toPush, again>> /\ NodeFrame

PushLive ==
  /\ Open /\ ~dumping /\ ~Ended
  /\ \/ \E s \in toPush : toPush' = toPush \ {s} /\ UNCHANGED again
     \/ store # {} /\ again > 0 /\ again' = again - 1 /\ UNCHANGED toPush
  /\ Push(Statements(1, TRUE))
  /\ UNCHANGED <<store, toDump, dumping>> /\ NodeFrame

EndStream ==
  /\ Open /\ ~Ended
  /\ \E end \in {Closed, StreamError} : Push(end)
  /\ UNCHANGED <<store, toDump, dumping, toPush, again>> /\ NodeFrame

-----------------------------------------------------------------------------
(* ensure_seed. *)

\* The loop of run_subscribe: the next endpoint, on which nothing is known.
NextEndpoint ==
  /\ endpoint' = endpoint + 1
  /\ IF endpoint < Endpoints
     THEN /\ pc' = "seed"
          /\ store' \in IF topicOverride THEN SUBSET Statement ELSE {{}}
     ELSE pc' = "finished" /\ UNCHANGED store

NotSeeded ==
  /\ pc = "seed"
  /\ topicOverride
  /\ seed' = [seed EXCEPT ![endpoint] = "NotSeeded"]
  /\ pc' = "subscribe"
  /\ UNCHANGED <<endpoint, successes, failures, exit, received, waited, store,
                 nodeVars>>

\* The node answers New or Known; the statement can be read from now on, or,
\* although the benchmark lets the store settle, only later.
SeedSubmitted ==
  /\ pc = "seed"
  /\ ~topicOverride
  /\ seed' = [seed EXCEPT ![endpoint] = "Submitted"]
  /\ store' \in {{}} \cup {{s} : s \in Statement}
  /\ pc' = "subscribe"
  /\ UNCHANGED <<endpoint, successes, failures, exit, received, waited,
                 nodeVars>>

\* Any other answer, or an error: no read is made on this endpoint.
SeedFailed ==
  /\ pc = "seed"
  /\ ~topicOverride
  /\ seed' = [seed EXCEPT ![endpoint] = "Failed"]
  /\ failures' = [failures EXCEPT ![endpoint] = 1]
  /\ NextEndpoint
  /\ UNCHANGED <<successes, exit, received, waited, nodeVars>>

-----------------------------------------------------------------------------
(* The reads. *)

DropSubscription ==
  /\ toDump' = {} /\ dumping' = FALSE /\ toPush' = {} /\ again' = 0
  /\ stream' = <<>>

\* Mutant of MoreReads: one read too many.
OneMoreRead(done) == done <= ReadsPerNode

MoreReads(done) == done < ReadsPerNode

\* Mutant of Forget: what was collected is kept for the next read.
Keep == UNCHANGED received

\* Each read starts with a count of its own.
Forget == received' = 0

\* A read returns.
EndRead(ok) ==
  /\ successes' = [successes EXCEPT ![endpoint] = IF ok THEN @ + 1 ELSE @]
  /\ failures' = [failures EXCEPT ![endpoint] = IF ok THEN @ ELSE @ + 1]
  /\ Forget
  /\ waited' = 0
  /\ DropSubscription
  /\ IF MoreReads(successes[endpoint] + failures[endpoint] + 1)
     THEN pc' = "subscribe" /\ UNCHANGED <<endpoint, store>>
     ELSE NextEndpoint
  /\ UNCHANGED <<seed, exit>>

OpenSubscription ==
  /\ pc = "subscribe"
  /\ pc' = "dump"
  /\ toDump' = store
  /\ dumping' = TRUE
  /\ again' = Redelivered
  /\ UNCHANGED <<reportVars, received, waited, store, toPush, stream>>

SubscribeFails == pc = "subscribe" /\ EndRead(FALSE)

\* The reader goes on waiting, or for something else, for a whole timeout.
Await(location, count) ==
  /\ pc' = location
  /\ received' = count
  /\ waited' = 0
  /\ UNCHANGED <<reportVars, store, toDump, dumping, toPush, again>>

\* drain_initial_batch and collect_initial_dump, then what follows the dump:
\* in assert-once mode the idle window, else success if there was anything, a
\* wait for a live event with --topic, failure without.
ReadDump ==
  /\ pc = "dump"
  /\ stream # <<>>
  /\ LET event == Head(stream)
         count == received + event.n
     IN  \/ /\ event.kind = "statements" /\ ~event.last
            /\ stream' = Tail(stream) /\ Await("dump", count)
         \/ /\ event.kind = "statements" /\ event.last /\ assertOnce
            /\ stream' = Tail(stream) /\ Await("idle", count)
         \/ /\ event.kind = "statements" /\ event.last /\ ~assertOnce
            /\ IF count = 0 /\ topicOverride
               THEN stream' = Tail(stream) /\ Await("live", count)
               ELSE EndRead(count > 0)
         \/ /\ event.kind # "statements"
            /\ EndRead(FALSE)

\* next_statement_batch: any event with a statement in it will do.
ReadLive ==
  /\ pc = "live"
  /\ stream # <<>>
  /\ EndRead(Head(stream).n > 0)

\* assert_exactly_once
ExactlyOnce(count) == count = 1

\* collect_until_idle: everything is collected; an error fails the read, the end
\* of the stream closes the window early.
ReadIdle ==
  /\ pc = "idle"
  /\ stream # <<>>
  /\ LET event == Head(stream)
     IN  \/ /\ event.kind = "statements"
            /\ stream' = Tail(stream) /\ Await("idle", received + event.n)
         \/ /\ event.kind = "closed" /\ EndRead(ExactlyOnce(received))
         \/ /\ event.kind = "error" /\ EndRead(FALSE)

Tick ==
  /\ Open
  /\ waited < Timeout
  /\ waited' = waited + 1
  /\ UNCHANGED <<options, pc, reportVars, received, store, nodeVars>>

\* Mutant of TimesOut: the readers wait without a timeout.
NeverTimesOut ==
  pc = "idle" /\ waited = Timeout /\ stream = <<>> /\ EndRead(FALSE)

\* timeout() looks at the stream once more before it gives up.
TimesOut ==
  /\ Open
  /\ waited = Timeout
  /\ stream = <<>>
  /\ EndRead(pc = "idle" /\ ExactlyOnce(received))

\* Mutant of SomeFailed: one endpoint that passed is enough.
AllFailed == \A e \in Endpoint : failures[e] > 0

SomeFailed == \E e \in Endpoint : failures[e] > 0

\* run_subscribe_cmd: only --assert-once turns failed reads into a failure.
Exit ==
  /\ pc = "finished"
  /\ exit = "running"
  /\ exit' = IF assertOnce /\ SomeFailed THEN "failure" ELSE "success"
  /\ UNCHANGED <<pc, endpoint, successes, failures, seed, received, waited,
                 store, nodeVars>>

-----------------------------------------------------------------------------
Reader ==
  /\ \/ NotSeeded \/ SeedSubmitted \/ SeedFailed
     \/ OpenSubscription \/ SubscribeFails
     \/ ReadDump \/ ReadLive \/ ReadIdle
     \/ TimesOut
     \/ Exit
  /\ UNCHANGED options

Node ==
  /\ StatementArrives \/ PushDump \/ PushLive \/ EndStream
  /\ UNCHANGED options

Next == Reader \/ Tick \/ Node

Spec == Init /\ [][Next]_vars

\* Time passes and the task is polled; nothing is expected of the node.
FairSpec == Spec /\ WF_vars(Reader) /\ WF_vars(Tick)

-----------------------------------------------------------------------------
(* Properties. *)

\* Statements the node has pushed to the current subscription, repeats counted.
Pushed == Cardinality(store \ (toDump \cup toPush)) + (Redelivered - again)

ReadSucceeds == \E e \in Endpoint : successes'[e] > successes[e]
ReadFails == \E e \in Endpoint : failures'[e] > failures[e]

\* A read that passes --assert-once saw the whole dump, and from its opening to
\* the end of its window the node pushed one statement, once: nothing is left
\* over from the read before, dropped at the end of the dump or left unread.
PassMeansOnce == assertOnce /\ ReadSucceeds => ~dumping /\ Pushed = 1

\* A plain read with --topic that has opened its subscription fails because the
\* stream ended, or because the node did not complete its dump in time, or because
\* the node held nothing when it answered and has pushed nothing since.
FailureMeansAbsent ==
  topicOverride /\ ~assertOnce /\ ReadFails /\ Open =>
    \/ stream # <<>> /\ Head(stream).kind # "statements"
    \/ stream = <<>> /\ dumping
    \/ store \ toPush = {}

\* What a read returns is true of what the node had and pushed.
VerdictTrue == [][PassMeansOnce /\ FailureMeansAbsent]_vars

\* README of --assert-once: the process exits non-zero unless every read on
\* every endpoint passed.
ExitGate ==
  assertOnce => (exit = "success" <=> \A e \in Endpoint : successes[e] = ReadsPerNode)

\* Every endpoint is reported: all its reads, or the failure to seed it.
ReportComplete ==
  \A e \in Endpoint :
    IF seed[e] = "Failed" THEN successes[e] = 0 /\ failures[e] = 1
                          ELSE successes[e] + failures[e] = ReadsPerNode

\* The report leaves nothing out, and the exit status follows from all of it.
ReportTrue == exit # "running" => ExitGate /\ ReportComplete

\* The benchmark ends whatever the nodes do, provided that a node does not push
\* live events for ever.
Terminates == <>(exit # "running")
=============================================================================
