---------------------------- MODULE LatencyBench ----------------------------
(***************************************************************************)
(* statement-latency-bench with execute_round in full: each client opens a *)
(* subscription to its neighbour's topics of the round, submits its own    *)
(* statements one by one and counts what the subscription brings, until it *)
(* has as many as it expects.  The steps of run_client are those of        *)
(* Cohort, which this module implements (ImplementsCohort).                *)
(*                                                                         *)
(* External, from their use: the statement store of the nodes, which keeps *)
(* one statement per account and channel and pushes matching statements to *)
(* subscriptions in batches, and the WebSocket subscription stream.        *)
(***************************************************************************)
EXTENDS Cohort

CONSTANT MaxTopics  \* capacity of the MatchAny filter, 128 in the code

ASSUME FilterAssumption == MaxTopics \in Nat

\* The statements a client sends in a round, by sent_count.
Index == 0 .. (MessagesPerClient - 1)

VARIABLES
  step,      \* where each client is in execute_round
  sent,      \* sent_count
  received,  \* received_count
  events,    \* sizes of the batches waiting in the client's subscription
  seen,      \* indices the subscription was given
  repeated,  \* whether it was given one of them more than once
  late,      \* requests given up, as <<round, index>>, that the node may still take
  channel    \* node: the round of the statement held in a client's channel

roundVars == <<step, sent, received, events, seen, repeated>>
nodeVars == <<late, channel>>
benchVars == <<vars, roundVars, nodeVars>>

BenchTypeOK ==
  /\ TypeOK
  /\ step \in [Client -> {"subscribe", "submit", "receive"}]
  /\ sent \in [Client -> 0 .. MessagesPerClient]
  /\ received \in [Client -> Nat]
  /\ events \in [Client -> Seq(0 .. MessagesPerClient)]
  /\ seen \in [Client -> SUBSET Index]
  /\ repeated \in [Client -> BOOLEAN]
  /\ late \in [Client -> SUBSET (Round \X Index)]
  /\ channel \in [Client -> [Index -> 0 .. NumRounds]]

BenchInit ==
  /\ Init
  /\ step = [c \in Client |-> "subscribe"]
  /\ sent = [c \in Client |-> 0]
  /\ received = [c \in Client |-> 0]
  /\ events = [c \in Client |-> <<>>]
  /\ seen = [c \in Client |-> {}]
  /\ repeated = [c \in Client |-> FALSE]
  /\ late = [c \in Client |-> {}]
  /\ channel = [c \in Client |-> [i \in Index |-> 0]]

-----------------------------------------------------------------------------
(* The nodes. *)

\* Mutant of Matching: the topics subscribed to are those of the next round.
MatchingNextRound(c) ==
  {i \in Index : channel[Neighbour(c)][i] = round[c] + 1}

\* The topic of a statement names its client, round and index: the statements
\* a client subscribes to are those of its neighbour in the same round.
Matching(c) == {i \in Index : channel[Neighbour(c)][i] = round[c]}

At(c, s) == pc[c] = "inRound" /\ step[c] = s

\* Submitted and not answered: what c submits next, and what it has given up.
Unanswered(c) ==
  late[c] \cup (IF At(c, "submit") THEN {<<round[c], sent[c]>>} ELSE {})

\* The node takes a statement.  Channels do not depend on the round and the
\* priority (expiry, sequence) grows with it, so that the statement replaces one
\* of an earlier round, and is refused after one of a later round.
Accept(c) ==
  \E request \in Unanswered(c) :
    /\ channel[c][request[2]] < request[1]
    /\ channel' = [channel EXCEPT ![c][request[2]] = request[1]]
    /\ published' = [published EXCEPT ![c] = @ \cup {request[1]}]
    /\ UNCHANGED <<pc, round, successes, failures, stored, barrierVars,
                   roundVars, late>>

\* A batch of matching statements goes to c's subscription, with something new
\* in it, and perhaps with statements that it was already given.
Deliver(c) ==
  /\ pc[c] = "inRound"
  /\ step[c] # "subscribe"
  /\ \E batch \in SUBSET Matching(c) :
       /\ ~(batch \subseteq seen[c])
       /\ events' = [events EXCEPT ![c] = Append(@, Cardinality(batch))]
       /\ seen' = [seen EXCEPT ![c] = @ \cup batch]
       /\ repeated' = [repeated EXCEPT ![c] = @ \/ batch \cap seen[c] # {}]
  /\ UNCHANGED <<vars, step, sent, received, nodeVars>>

-----------------------------------------------------------------------------
(* execute_round. *)

\* Mutant of LeaveRound: received_count outlives the round.
LeaveRoundCounting(c) ==
  /\ step' = [step EXCEPT ![c] = "subscribe"]
  /\ sent' = [sent EXCEPT ![c] = 0]
  /\ events' = [events EXCEPT ![c] = <<>>]
  /\ seen' = [seen EXCEPT ![c] = {}]
  /\ repeated' = [repeated EXCEPT ![c] = FALSE]
  /\ UNCHANGED received

\* The locals of execute_round when the next round begins; returning drops the
\* subscription with the events still in it.
LeaveRound(c) ==
  /\ step' = [step EXCEPT ![c] = "subscribe"]
  /\ sent' = [sent EXCEPT ![c] = 0]
  /\ received' = [received EXCEPT ![c] = 0]
  /\ events' = [events EXCEPT ![c] = <<>>]
  /\ seen' = [seen EXCEPT ![c] = {}]
  /\ repeated' = [repeated EXCEPT ![c] = FALSE]

\* execute_round returns an error, whichever of its kinds.
Fail(c) ==
  /\ FailRound(c)
  /\ LeaveRound(c)
  /\ UNCHANGED channel

\* The filter holds at most MaxTopics topics.  The subscription opens with a
\* dump, possibly empty, of what its node already holds.
Subscribe(c) ==
  /\ At(c, "subscribe")
  /\ MessagesPerClient <= MaxTopics
  /\ \E dump \in SUBSET Matching(c) :
       /\ events' = [events EXCEPT ![c] = <<Cardinality(dump)>>]
       /\ seen' = [seen EXCEPT ![c] = dump]
  /\ step' = [step EXCEPT
                ![c] = IF MessagesPerClient = 0 THEN "receive" ELSE "submit"]
  /\ UNCHANGED <<vars, sent, received, repeated, nodeVars>>

\* TooManyTopics or SubscribeFailed.
SubscribeFails(c) == At(c, "subscribe") /\ Fail(c) /\ UNCHANGED late

\* The answer to statement_submit.  The node may have accepted or refused the
\* statement: the client does not look, and counts it as sent.
Submit(c) ==
  /\ At(c, "submit")
  /\ sent' = [sent EXCEPT ![c] = @ + 1]
  /\ step' = [step EXCEPT
                ![c] = IF sent'[c] = MessagesPerClient THEN "receive" ELSE @]
  /\ UNCHANGED <<vars, received, events, seen, repeated, nodeVars>>

\* SubmitFailed: the request returns an error, be the statement accepted already,
\* later or never.
SubmitFails(c) ==
  /\ At(c, "submit")
  /\ Fail(c)
  /\ late' = [late EXCEPT ![c] = @ \cup {<<round[c], sent[c]>>}]

ExecutePanics(c) ==
  /\ At(c, "submit")
  /\ Panics(c)
  /\ UNCHANGED <<roundVars, nodeVars>>

\* Mutant of ReceivedAll: one statement short.
ReceivedAllButOne(c) ==
  /\ At(c, "receive")
  /\ received[c] + 1 >= MessagesPerClient
  /\ SucceedRound(c)
  /\ LeaveRound(c)
  /\ UNCHANGED nodeVars

\* `while received_count < expected_count` is over.
ReceivedAll(c) ==
  /\ At(c, "receive")
  /\ received[c] >= MessagesPerClient
  /\ SucceedRound(c)
  /\ LeaveRound(c)
  /\ UNCHANGED nodeVars

\* The next event: statements are counted, whichever they are.
ReceiveEvent(c) ==
  /\ At(c, "receive")
  /\ received[c] < MessagesPerClient
  /\ events[c] # <<>>
  /\ received' = [received EXCEPT ![c] = @ + Head(events[c])]
  /\ events' = [events EXCEPT ![c] = Tail(@)]
  /\ UNCHANGED <<vars, step, sent, seen, repeated, nodeVars>>

\* Mutant of ReceiveFails: no timeout around subscription.next().
ReceiveNeverFails(c) == At(c, "receive") /\ FALSE /\ Fail(c) /\ UNCHANGED late

\* Nothing left to read: PropagationTimeout receive_timeout_ms after the last
\* event, SubscriptionClosed or SubscriptionStreamError.
ReceiveFails(c) ==
  /\ At(c, "receive")
  /\ received[c] < MessagesPerClient
  /\ events[c] = <<>>
  /\ Fail(c)
  /\ UNCHANGED late

-----------------------------------------------------------------------------
\* The steps of run_client outside execute_round are those of Cohort.
Synchronise(c) ==
  /\ \/ Arrive(c) \/ Released(c) \/ TimerFires(c)
     \/ RecordSyncTimeout(c) \/ CheckPeers(c)
  /\ UNCHANGED <<roundVars, nodeVars>>

ClientNext(c) ==
  \/ Synchronise(c)
  \/ Subscribe(c)
  \/ SubscribeFails(c)
  \/ Submit(c)
  \/ SubmitFails(c)
  \/ ExecutePanics(c)
  \/ ReceiveEvent(c)
  \/ ReceivedAll(c)
  \/ ReceiveFails(c)

NodeNext(c) == Accept(c) \/ Deliver(c)

BenchNext == \E c \in Client : ClientNext(c) \/ NodeNext(c)

BenchSpec == BenchInit /\ [][BenchNext]_benchVars

\* Nothing is assumed of the nodes: every await of a client has a timeout.
BenchFairSpec == BenchSpec /\ \A c \in Client : WF_benchVars(ClientNext(c))

-----------------------------------------------------------------------------
(* Quiet runs: no RPC fails or is refused, no timer fires, nodes deliver.   *)

QuietClient(c) ==
  \/ /\ Arrive(c) \/ Released(c) \/ CheckPeers(c)
     /\ UNCHANGED <<roundVars, nodeVars>>
  \/ Subscribe(c)
  \/ Submit(c) /\ channel[c][sent[c]] = round[c]
  \/ ReceiveEvent(c)
  \/ ReceivedAll(c)

QuietNext == \E c \in Client : QuietClient(c) \/ NodeNext(c)

QuietSpec ==
  /\ BenchInit /\ [][QuietNext]_benchVars
  /\ \A c \in Client : /\ WF_benchVars(QuietClient(c))
                       /\ WF_benchVars(Accept(c))
                       /\ WF_benchVars(Deliver(c))

-----------------------------------------------------------------------------
(* Properties. *)

\* execute_round refines what Cohort says of a round: in particular no round
\* that expects statements succeeds unless the neighbour published in it.
ImplementsCohort == Spec

\* Unless a node pushes a statement twice, counting statements is enough: a
\* round that succeeds has brought every statement of the neighbour.
CompleteRounds ==
  [][\A c \in Client :
       successes'[c] # successes[c] => repeated[c] \/ seen[c] = Index]_benchVars

\* Reusing a channel in the next round loses no statement that is still waited
\* for: what a healthy client replaces, its reader has received.
NothingReplacedUnread ==
  [][\A c, reader \in Client, i \in Index :
       /\ Neighbour(reader) = c
       /\ channel[c][i] # 0 /\ channel'[c][i] # channel[c][i]
       => c \in stored \/ channel[c][i] \in successes[reader]]_benchVars

\* Undisturbed, the ring and its barrier do not block each other: every client
\* completes every round.
QuietCompletes == <>(\A c \in Client : successes[c] = Round /\ pc[c] = "done")
=============================================================================
