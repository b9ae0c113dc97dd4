----------------------------- MODULE Propagation -----------------------------
(***************************************************************************)
(* statement-ops-bench propagation (src/src/ops/propagation.rs).  For each *)
(* pair of a submit and a subscribe endpoint, an iteration subscribes on   *)
(* one side, drains the initial dump, submits on the other side, and takes *)
(* the next event of the subscription for the statement submitted.         *)
(*                                                                         *)
(* External, from their use: the nodes, which hold statements, gossip them *)
(* to one another and push them to subscriptions, first those held when    *)
(* the subscription opens, then those that reach the node afterwards.      *)
(***************************************************************************)
EXTENDS Integers, Sequences, FiniteSets

CONSTANTS
  Nodes,          \* the nodes behind the endpoints
  SubmitSide,     \* --submit-endpoints, a sequence of nodes
  SubscribeSide,  \* --subscribe-endpoints
  Iterations,     \* --iterations, per pair
  Foreign         \* matching statements of others, if --topic is given

ASSUME PropagationAssumption ==
  /\ SubmitSide \in Seq(Nodes) /\ SubmitSide # <<>>
  /\ SubscribeSide \in Seq(Nodes) /\ SubscribeSide # <<>>
  /\ Iterations \in Nat \ {0}
  /\ IsFiniteSet(Foreign)

\* scope_idx, and the pairs in the order in which they are measured.
Pairs == Len(SubmitSide) * Len(SubscribeSide)
Pair == 0 .. (Pairs - 1)
SubmitNode(p) == SubmitSide[(p \div Len(SubscribeSide)) + 1]
SubscribeNode(p) == SubscribeSide[(p % Len(SubscribeSide)) + 1]

\* Our statements are identified by the channel, derived from pair and index.
Own == Pair \X (0 .. (Iterations - 1))
Statement == Own \cup Foreign

VARIABLES
  topicOverride, \* option: whether --topic is given
  pc,         \* where run_single_iteration is
  pair,       \* scope_idx
  index,      \* i
  successes,  \* per pair
  failures,   \* per pair
  drained,    \* whether the dump has brought any statement so far
  sent,       \* node: statements on their way to the node submitted to
  holds,      \* node: the statements each node holds
  toDump,     \* subscription: statements of the dump not pushed yet
  dumping,    \* subscription: whether the dump is still to be completed
  toPush,     \* subscription: statements to be pushed live
  stream      \* subscription: events pushed and not read yet

subscriptionVars == <<toDump, dumping, toPush, stream>>
resultVars == <<pair, index, successes, failures>>
vars == <<topicOverride, pc, resultVars, drained, sent, holds, subscriptionVars>>

Location == {"subscribe", "drain", "submit", "receive", "finished"}

Event == [batch : SUBSET Statement, last : BOOLEAN]

TypeOK ==
  /\ topicOverride \in BOOLEAN
  /\ pc \in Location
  /\ pair \in 0 .. Pairs
  /\ index \in 0 .. (Iterations - 1)
  /\ successes \in [Pair -> 0 .. Iterations]
  /\ failures \in [Pair -> 0 .. Iterations]
  /\ drained \in BOOLEAN
  /\ sent \subseteq Own
  /\ holds \in [Nodes -> SUBSET Statement]
  /\ toDump \subseteq Statement /\ toPush \subseteq Statement
  /\ dumping \in BOOLEAN
  /\ stream \in Seq(Event)

Init ==
  /\ topicOverride \in BOOLEAN
  /\ pc = "subscribe"
  /\ pair = 0 /\ index = 0
  /\ successes = [p \in Pair |-> 0]
  /\ failures = [p \in Pair |-> 0]
  /\ drained = FALSE
  /\ sent = {} /\ holds = [n \in Nodes |-> {}]
  /\ toDump = {} /\ dumping = FALSE /\ toPush = {} /\ stream = <<>>

-----------------------------------------------------------------------------
(* The nodes. *)

\* Mutant of Topic: derived from the index alone, shared by all pairs.
TopicOfIndex(s) == IF topicOverride THEN "topic" ELSE s[2]

\* The topic of a statement: the override, or one derived from pair and index.
Topic(s) == IF topicOverride THEN "topic" ELSE s

\* The statements that the subscription of the current iteration is about.
Matching == {s \in Statement : Topic(s) = Topic(<<pair, index>>)}

Open == pc \in {"drain", "submit", "receive"}

\* A statement reaches a node: by submission, or by gossip from elsewhere.
Reaches(s, n) ==
  /\ s \notin holds[n]
  /\ holds' = [holds EXCEPT ![n] = @ \cup {s}]
  /\ toPush' = IF Open /\ n = SubscribeNode(pair) /\ s \in Matching
               THEN toPush \cup {s} ELSE toPush
  /\ UNCHANGED <<pc, resultVars, drained, toDump, dumping, stream>>

\* Statements of others are submitted at any time, to any node.
Gossip ==
  /\ pc # "finished"
  /\ \E s \in Statement, n \in Nodes :
       /\ (topicOverride /\ s \in Foreign) \/ \E m \in Nodes : s \in holds[m]
       /\ Reaches(s, n)
  /\ UNCHANGED sent

\* A node takes a statement submitted to it, whatever it then answers, also after
\* the iteration has given up the request.
Accept ==
  /\ pc # "finished"
  /\ \E s \in sent : Reaches(s, SubmitNode(s[1])) /\ sent' = sent \ {s}

PushDump ==
  /\ Open /\ dumping
  /\ \E batch \in SUBSET toDump :
       /\ batch = {} => toDump = {}
       /\ stream' = Append(stream, [batch |-> batch, last |-> batch = toDump])
       /\ toDump' = toDump \ batch
       /\ dumping' = (batch # toDump)
  /\ UNCHANGED <<pc, resultVars, drained, sent, holds, toPush>>

\* An event may bring several statements, or, if all others have been read, none.
PushLive ==
  /\ Open /\ ~dumping
  /\ \E batch \in SUBSET toPush :
       /\ batch = {} => stream = <<>>
       /\ stream' = Append(stream, [batch |-> batch, last |-> TRUE])
       /\ toPush' = toPush \ batch
  /\ UNCHANGED <<pc, resultVars, drained, sent, holds, toDump, dumping>>

-----------------------------------------------------------------------------
(* run_single_iteration, and the loops of run_pair and run_propagation.     *)

Goto(location) == pc' = location /\ UNCHANGED resultVars

\* Mutant of IsLast: a failure ends the pair.
IsLastOrFailed(ok) == ~ok \/ index + 1 = Iterations

\* Whether an iteration is the last one of its pair; what came of it is no matter.
IsLast(ok) == index + 1 = Iterations

\* Mutant of NextIndex: the index is not reset for the next pair.
IndexCounting(ok) == index + 1

NextIndex(ok) == IF IsLast(ok) THEN 0 ELSE index + 1

\* The iteration returns; the subscription is dropped.
EndIteration(ok) ==
  /\ successes' = [successes EXCEPT ![pair] = IF ok THEN @ + 1 ELSE @]
  /\ failures' = [failures EXCEPT ![pair] = IF ok THEN @ ELSE @ + 1]
  /\ index' = NextIndex(ok)
  /\ pair' = IF IsLast(ok) THEN pair + 1 ELSE pair
  /\ pc' = IF pair' = Pairs THEN "finished" ELSE "subscribe"
  /\ drained' = FALSE
  /\ toDump' = {} /\ dumping' = FALSE /\ toPush' = {} /\ stream' = <<>>
  /\ UNCHANGED <<sent, holds>>

Subscribe ==
  /\ pc = "subscribe"
  /\ Goto("drain")
  /\ toDump' = holds[SubscribeNode(pair)] \cap Matching
  /\ dumping' = TRUE
  /\ UNCHANGED <<drained, sent, holds, toPush, stream>>

SubscribeFails == pc = "subscribe" /\ EndIteration(FALSE)

\* drain_initial_batch goes on until an event says that nothing remains.  Only
\* with --topic may anything have been drained.  Then the statement is submitted.
Drain ==
  /\ pc = "drain"
  /\ stream # <<>>
  /\ LET some == drained \/ Head(stream).batch # {}
     IN  IF Head(stream).last /\ some /\ ~topicOverride
         THEN EndIteration(FALSE)
         ELSE /\ Goto(IF Head(stream).last THEN "submit" ELSE "drain")
              /\ sent' = IF Head(stream).last THEN sent \cup {<<pair, index>>} ELSE sent
              /\ drained' = some
              /\ stream' = Tail(stream)
              /\ UNCHANGED <<holds, toDump, dumping, toPush>>

\* New or Known.
Submit ==
  /\ pc = "submit"
  /\ <<pair, index>> \in holds[SubmitNode(pair)]
  /\ Goto("receive")
  /\ UNCHANGED <<drained, sent, holds, subscriptionVars>>

\* Any other answer, or an error, which may follow or precede an acceptance.
SubmitFails == pc = "submit" /\ EndIteration(FALSE)

\* next_statement_batch: the next event will do if there is a statement in it.
Receive ==
  /\ pc = "receive"
  /\ stream # <<>>
  /\ EndIteration(Head(stream).batch # {})

\* Mutant of StreamFails: next_statement_batch waits without a timeout.
DrainTimesOut == pc = "drain" /\ stream = <<>> /\ EndIteration(FALSE)

\* The timeout, the end or an error of the stream, once all else has been read.
StreamFails ==
  /\ pc \in {"drain", "receive"}
  /\ stream = <<>>
  /\ EndIteration(FALSE)

-----------------------------------------------------------------------------
Bench ==
  /\ \/ Subscribe \/ SubscribeFails \/ Drain \/ Submit \/ SubmitFails
     \/ Receive \/ StreamFails
  /\ UNCHANGED topicOverride

Node ==
  /\ Gossip \/ Accept \/ PushDump \/ PushLive
  /\ UNCHANGED topicOverride

Next == Bench \/ Node

Spec == Init /\ [][Next]_vars

\* Every await of the benchmark has a timeout, its own or the RPC client's.
FairSpec == Spec /\ WF_vars(Bench)

-----------------------------------------------------------------------------
(* Properties. *)

Succeeds == \E p \in Pair : successes'[p] > successes[p]

\* The event taken for the answer brought the statement just submitted and
\* nothing else, from the node submitted to to the one subscribed to.
OwnReceived ==
  /\ Head(stream).batch = {<<pair, index>>}
  /\ \A n \in {SubmitNode(pair), SubscribeNode(pair)} :
       <<pair, index>> \in holds[n]

\* The initial dump has brought nothing and will not.
DumpIsEmpty ==
  pc = "drain" =>
    ~drained /\ toDump = {} /\ \A i \in DOMAIN stream : stream[i].batch = {}

\* Without --topic, a statement that arrives late, after its own iteration gave it
\* up, does no harm to a later one: the dump of that is empty, as its check
\* demands, and if it succeeds it has measured its own statement.
MeasuresOwn ==
  /\ [](~topicOverride => DumpIsEmpty)
  /\ [][~topicOverride /\ Succeeds => OwnReceived]_vars

\* Every pair reports all of its iterations, each once.
AllCounted ==
  \A p \in Pair : p < pair => successes[p] + failures[p] = Iterations

\* The benchmark ends, whatever the nodes do.
Ends == <>(pc = "finished")
=============================================================================
