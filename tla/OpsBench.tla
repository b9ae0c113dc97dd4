------------------------------ MODULE OpsBench ------------------------------
(***************************************************************************)
(* statement-ops-bench from its arguments to its exit status               *)
(* (src/src/ops_bench.rs): values are parsed, then the seed; connections   *)
(* are opened to all endpoints in turn; then the command runs.  What the   *)
(* benchmarks do then is in the modules of their own; query is here in     *)
(* full (src/src/ops/query.rs), and admin is in Allowances.                *)
(*                                                                         *)
(* External, from its use: the node, which answers a subscription with the *)
(* statements it holds, in events that tell whether more of them remain,   *)
(* then with new ones.  Under load it may leave events out.                *)
(***************************************************************************)
EXTENDS Arguments, FiniteSets

CONSTANTS
  Endpoints,  \* how many URLs --rpc-endpoints has
  Half,       \* 2^32 in the code: the number of values of half an expiry
  Statements, \* what a node may hold: records of topic, expiry, decodable
  Texts       \* what may be given as --topic or --account

ASSUME EndpointsAssumption == Endpoints \in Nat \ {0} /\ Half \in Nat \ {0}

ASSUME StatementsAssumption ==
  /\ IsFiniteSet(Statements)
  /\ Statements \subseteq
       [topic : [1 .. Bytes -> 0 .. 255], expiry : Nat, decodable : BOOLEAN]

ASSUME TextsAssumption == \A t \in Texts : t \in Seq(STRING)

VARIABLES
  command,    \* the subcommand
  text,       \* the value of --topic or --account, if one was given
  topic,      \* that value parsed
  pc, exit,
  connected,  \* the connections of connect_all
  perEndpoint,\* query: the reports
  dump,       \* query: what collect_initial_dump has collected
  opened,     \* node: the matching statements when it answered the subscription
  arrived,    \* node: those that have come since
  toDump,     \* node: those of the dump not pushed yet
  dumping,    \* node: whether the dump is still to be completed
  lost,       \* node: whether it has left out an event
  stream      \* the events pushed and not read yet

nodeVars == <<opened, arrived, toDump, dumping, lost, stream>>
argVars == <<command, text, topic>>
vars == <<argVars, pc, exit, connected, perEndpoint, dump, nodeVars>>

Command == {"submit", "propagation", "subscribe", "loop", "query", "admin"}
Location ==
  {"parse", "seed", "connect", "validate", "run", "subscribe", "dump", "exited"}
Exit == {"running", "success", "failure", "usage"}

\* from_statement: an expiry is a time in its upper and a number in its lower half.
FromStatement(s) ==
  [hash |-> s, expirySecs |-> s.expiry \div Half, seq |-> s.expiry % Half]
StatementSummary == {FromStatement(s) : s \in Statements}

\* A report: the statements in order of expiry, or an error.
Report ==
  [statements : Seq(StatementSummary), undecodable : Nat, error : BOOLEAN]
Event == [statements : Seq(Statements), remaining : BOOLEAN]

TypeOK ==
  /\ command \in Command /\ Len(text) <= 1
  /\ Len(topic) <= 1 /\ \A i \in DOMAIN topic : topic[i] \in [1 .. Bytes -> 0 .. 255]
  /\ pc \in Location /\ exit \in Exit /\ (exit = "running") = (pc # "exited")
  /\ connected \in 0 .. 2 * Endpoints
  /\ perEndpoint \in Seq(Report) /\ Len(perEndpoint) <= Endpoints
  /\ dump \in Seq(Statements)
  /\ toDump \subseteq opened /\ opened \cap arrived = {}
  /\ stream \in Seq(Event)

Init ==
  /\ command \in Command
  /\ text \in IF command = "loop" THEN {<<>>}
              ELSE IF command = "admin" THEN {<<t>> : t \in Texts}
              ELSE Option(Texts)
  /\ topic = <<>> /\ pc = "parse" /\ exit = "running"
  /\ connected = 0 /\ perEndpoint = <<>> /\ dump = <<>>
  /\ opened = {} /\ arrived = {} /\ toDump = {} /\ dumping = FALSE
  /\ lost = FALSE /\ stream = <<>>

-----------------------------------------------------------------------------
(* main up to the command. *)

Goto(location) == pc' = location /\ UNCHANGED exit
Return(status) == pc' = "exited" /\ exit' = status
BeforeRun == UNCHANGED <<command, perEndpoint, dump, nodeVars>>

\* Cli::parse; admin has no seed and no endpoints to connect, query no seed.
Parse ==
  /\ pc = "parse"
  /\ topic' = IF text = <<>> THEN <<>>
              ELSE IF command = "admin" THEN ParseAccount(text[1])
              ELSE ParseTopicHex(text[1])
  /\ text' = <<>>
  /\ IF text # <<>> /\ topic' = <<>> THEN Return("usage")
     ELSE Goto(CASE command = "admin" -> "run"
                 [] command = "query" -> "connect"
                 [] OTHER -> "seed")
  /\ UNCHANGED connected /\ BeforeRun

\* parse_seed: without --seed there is a default, else the SURI may be invalid.
\* The loop validates before it connects, everything else after.
ParseSeed ==
  /\ pc = "seed"
  /\ Goto(IF command = "loop" THEN "validate" ELSE "connect") \/ Return("failure")
  /\ UNCHANGED <<text, topic, connected>> /\ BeforeRun

\* propagation connects to the endpoints it submits to, then to those it
\* subscribes to; the loop connects as its first step.
ToConnect == IF command = "propagation" THEN 2 * Endpoints ELSE Endpoints

AfterConnect == IF command = "loop" THEN "run" ELSE "validate"

\* Mutant of Connect: one connection too many.
ConnectOnceMore ==
  /\ pc = "connect"
  /\ \/ /\ connected' = connected + 1
        /\ Goto(IF connected < ToConnect THEN "connect" ELSE AfterConnect)
     \/ Return("failure") /\ UNCHANGED connected
  /\ UNCHANGED <<text, topic>> /\ BeforeRun

\* WsClientRpc::connect
Reaches == connected' = connected + 1

\* connect_all: one endpoint that cannot be reached is the end.
Connect ==
  /\ pc = "connect"
  /\ \/ /\ Reaches
        /\ Goto(IF connected' < ToConnect THEN "connect" ELSE AfterConnect)
     \/ Return("failure") /\ UNCHANGED connected
  /\ UNCHANGED <<text, topic>> /\ BeforeRun

\* What the validate functions refuse to be zero; the loop's own submissions are
\* not in batches, and its options are those of its three parts.
SubmitPositive == {"iterations", "iterationBatch", "messageSize", "baseExpirySecs"}
PropagationPositive ==
  {"iterations", "messageSize", "baseExpirySecs", "drainTimeoutMs",
   "receiveTimeoutMs"}
SubscribePositive ==
  {"readsPerNode", "messageSize", "baseExpirySecs", "drainTimeoutMs"}
LoopPositive ==
  {"intervalSecs"} \cup (SubmitPositive \ {"iterationBatch"})
    \cup PropagationPositive \cup SubscribePositive
QueryPositive == {"drainTimeoutMs"}

Positive ==
  CASE command = "submit" -> SubmitPositive
    [] command = "propagation" -> PropagationPositive
    [] command = "subscribe" -> SubscribePositive
    [] command = "loop" -> LoopPositive
    [] command = "query" -> QueryPositive

\* One option may be zero, and --assert-once be given without --topic.
Validate ==
  /\ pc = "validate"
  /\ \E zero \in {"none", "settleMs"} \cup LoopPositive \cup SubmitPositive,
        assertOnce \in {FALSE, command = "subscribe"} :
       IF zero \in Positive \/ (assertOnce /\ topic = <<>>)
       THEN Return("failure")
       ELSE Goto(CASE command = "query" -> "subscribe"
                   [] command = "loop" -> "connect"
                   [] OTHER -> "run")
  /\ UNCHANGED <<text, topic, connected>> /\ BeforeRun

\* A benchmark or admin, with whatever result.
RunCommand ==
  /\ pc = "run"
  /\ \E status \in {"success", "failure"} : Return(status)
  /\ UNCHANGED <<text, topic, connected>> /\ BeforeRun

-----------------------------------------------------------------------------
(* query. *)

Frame == UNCHANGED <<argVars, connected>>

\* What the filter lets through.
Matching(S) == {s \in S : topic = <<>> \/ s.topic = topic[1]}

\* The order of (expiry_secs, seq).
Sooner(s, t) ==
  s.expirySecs < t.expirySecs \/ (s.expirySecs = t.expirySecs /\ s.seq < t.seq)

\* sort_by_key of what was decoded, at some places of a dump: those places in an
\* order in which equal keys keep theirs.
SortByExpiry(decoded) ==
  LET Before(i, j) ==
        \/ Sooner(decoded[i], decoded[j])
        \/ ~Sooner(decoded[j], decoded[i]) /\ i < j
      order == CHOOSE places \in SetToSeqs(DOMAIN decoded) :
                 \A k, l \in DOMAIN places : k < l => Before(places[k], places[l])
  IN  [k \in DOMAIN order |-> decoded[order[k]]]

\* Mutant of AllFailed: one failure is enough.
AnyFailed(reports) == \E i \in DOMAIN reports : reports[i].error

AllFailed(reports) == reports # <<>> /\ \A i \in DOMAIN reports : reports[i].error

\* query_endpoint returns: the next endpoint, or run_query_cmd's exit policy.
EndQuery(report) ==
  /\ perEndpoint' = Append(perEndpoint, report)
  /\ dump' = <<>>
  /\ opened' = {} /\ arrived' = {} /\ toDump' = {} /\ dumping' = FALSE
  /\ lost' = FALSE /\ stream' = <<>>
  /\ IF Len(perEndpoint') < Endpoints THEN Goto("subscribe")
     ELSE Return(IF AllFailed(perEndpoint') THEN "failure" ELSE "success")
  /\ Frame

Failed == [statements |-> <<>>, undecodable |-> 0, error |-> TRUE]

\* What is made of a dump.
Summary(statements) ==
  LET decodable == {i \in DOMAIN statements : statements[i].decodable}
      decoded == [i \in decodable |-> FromStatement(statements[i])]
  IN  [statements |-> SortByExpiry(decoded),
       undecodable |-> Cardinality(DOMAIN statements \ decodable), error |-> FALSE]

Subscribe ==
  /\ pc = "subscribe"
  /\ \E S \in SUBSET Statements : opened' = Matching(S)
  /\ toDump' = opened' /\ dumping' = TRUE
  /\ Goto("dump")
  /\ UNCHANGED <<perEndpoint, dump, arrived, lost, stream>> /\ Frame

SubscribeFails == pc = "subscribe" /\ EndQuery(Failed)

\* Mutant of ReadDump: what remains is not waited for.
ReadFirstEvent ==
  /\ pc = "dump" /\ stream # <<>>
  /\ EndQuery(Summary(dump \o Head(stream).statements))

\* collect_initial_dump, up to the event after which nothing remains.
ReadDump ==
  /\ pc = "dump" /\ stream # <<>>
  /\ LET collected == dump \o Head(stream).statements
     IN  IF Head(stream).remaining
         THEN /\ dump' = collected /\ stream' = Tail(stream)
              /\ UNCHANGED <<pc, exit, perEndpoint, opened, arrived, toDump,
                             dumping, lost>> /\ Frame
         ELSE EndQuery(Summary(collected))

\* A timeout, an error on the stream or its end.
ReadFails == pc = "dump" /\ stream = <<>> /\ EndQuery(Failed)

-----------------------------------------------------------------------------
(* The node of the open subscription. *)

NodeFrame == UNCHANGED <<argVars, pc, exit, connected, perEndpoint, dump>>

\* An event goes to the client, or is left out.
Push(event) ==
  \/ stream' = Append(stream, event) /\ UNCHANGED lost
  \/ lost' = TRUE /\ UNCHANGED stream

PushDump ==
  /\ pc = "dump" /\ dumping
  /\ \E batch \in SUBSET toDump :
       /\ batch = {} => toDump = {}
       /\ toDump' = toDump \ batch
       /\ dumping' = (toDump' # {})
       /\ \E statements \in SetToSeqs(batch) :
            Push([statements |-> statements, remaining |-> dumping'])
  /\ UNCHANGED <<opened, arrived>> /\ NodeFrame

\* A statement arrives, and is pushed once the dump is complete.
PushLive ==
  /\ pc = "dump" /\ ~dumping
  /\ \E s \in Matching(Statements) \ (opened \cup arrived) :
       /\ arrived' = arrived \cup {s}
       /\ Push([statements |-> <<s>>, remaining |-> FALSE])
  /\ UNCHANGED <<opened, toDump, dumping>> /\ NodeFrame

-----------------------------------------------------------------------------
Bench ==
  \/ Parse \/ ParseSeed \/ Connect \/ Validate \/ RunCommand
  \/ Subscribe \/ SubscribeFails \/ ReadDump \/ ReadFails
Node == PushDump \/ PushLive
Next == Bench \/ Node
Spec == Init /\ [][Next]_vars

-----------------------------------------------------------------------------
(* Properties. *)

\* Passwords read from a file lose one newline, of any kind, and nothing else.
PasswordFilesTrue == NewlinesStripped({"p", " ", "\n", "\r"}, 3)

\* A topic or an account is accepted exactly if the text spells it, and is then
\* the one spelled: no text has two readings, as hex and as an address, and what
\* the tools print of a topic or an account is read back as the same.
ArgumentsTrue ==
  [][pc = "parse" /\ text # <<>> =>
       /\ \A value \in [1 .. Bytes -> {0, 15, 240, 255, 1}] :
            (topic' = <<value>>) <=>
              IF command = "admin"
              THEN \/ Spells(Trim(text[1]), value)
                   \/ FromSs58(Trim(text[1])) = <<value>>
              ELSE Spells(text[1], value)
       /\ topic' # <<>> =>
            /\ ParseTopicHex(HexFull(topic'[1])) = topic'
            /\ ParseAccount(HexFull(topic'[1])) = topic'
       /\ PasswordFilesTrue]_vars

\* A report without an error is the node's contents when it answered the
\* subscription: each decodable statement once, in order of expiry, the others
\* counted.  If the node has left out events, it holds nothing that the node did
\* not have, but may lack some, and have some that arrived later.
ReportFaithful ==
  Len(perEndpoint') > Len(perEndpoint) /\ ~Last(perEndpoint').error =>
    LET report == Last(perEndpoint')
        listed == {report.statements[i].hash : i \in DOMAIN report.statements}
        readable == {s \in opened : s.decodable}
    IN  /\ Cardinality(listed) = Len(report.statements)
        /\ \A i, j \in DOMAIN report.statements :
             i < j => report.statements[i].hash.expiry <=
                        report.statements[j].hash.expiry
        /\ IF lost
           THEN listed \subseteq {s \in opened \cup arrived : s.decodable}
           ELSE /\ listed = readable
                /\ report.undecodable = Cardinality(opened \ readable)

\* Whenever a report is made, it is faithful.
SnapshotTrue == [][ReportFaithful]_vars

\* Once it is connected, with a valid timeout, query reports every endpoint, and
\* fails only if all of them have failed: one that fails does not hide the others.
ExitTrue ==
  command = "query" /\ pc = "exited" /\ (exit = "success" \/ perEndpoint # <<>>) =>
    /\ Len(perEndpoint) = Endpoints
    /\ (exit = "failure") <=> \A i \in 1 .. Endpoints : perEndpoint[i].error
=============================================================================
