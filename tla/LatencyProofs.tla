---------------------------- MODULE LatencyProofs ----------------------------
(***************************************************************************)
(* Proofs about the two modules built on Cohort: LatencyBench implements   *)
(* it, and what CohortMain reports is true; for every number of clients,   *)
(* rounds and messages.                                                    *)
(***************************************************************************)
EXTENDS CohortMain, LatencyBench, CohortProofs

-----------------------------------------------------------------------------
(* The types of LatencyBench. *)

LEMMA NeighbourType == ASSUME NEW c \in Client PROVE Neighbour(c) \in Client
  <1>1. N \in Nat /\ c \in 0 .. (N-1)
    BY ParametersAssumption DEF Client
  <1>. QED  BY <1>1 DEF Client, Neighbour

\* A set of indices is finite, and has all of them if it is as large.
LEMMA IndicesCounted ==
  ASSUME NEW S \in SUBSET Index
  PROVE  /\ IsFiniteSet(S) /\ Cardinality(S) \in 0 .. MessagesPerClient
         /\ Cardinality(S) >= MessagesPerClient => S = Index
  <1>1. IsFiniteSet(Index) /\ Cardinality(Index) = MessagesPerClient
    BY FS_Interval, ParametersAssumption DEF Index
  <1>2. IsFiniteSet(S) /\ Cardinality(S) \in Nat
    BY <1>1, FS_Subset, FS_CardinalityType
  <1>3. Cardinality(S) <= MessagesPerClient /\ (Cardinality(S) = MessagesPerClient => S = Index)
    BY <1>1, FS_Subset
  <1>. QED  BY <1>2, <1>3, ParametersAssumption

BenchTypeInv ==
  /\ BenchTypeOK /\ InLoop
  /\ \A c \in Client :
       /\ step[c] = "subscribe" =>
            sent[c] = 0 /\ received[c] = 0 /\ events[c] = <<>> /\ seen[c] = {}
       /\ step[c] = "submit" => sent[c] < MessagesPerClient

LEMMA BenchTypeInit == BenchInit => BenchTypeInv
  BY TypeInit, ParametersAssumption
     DEF BenchInit, BenchTypeInv, BenchTypeOK, TypeInv, Index

\* The requests that were given up are of rounds that failed: a client has left such
\* a round, and never succeeds in it.
LateInv ==
  \A c \in Client :
    /\ successes[c] \subseteq 1 .. round[c]
    /\ pc[c] = "inRound" => round[c] \notin successes[c]
    /\ late[c] # {} => c \in stored
    /\ \A request \in late[c] :
         /\ request[1] \in (1 .. round[c]) \ successes[c]
         /\ request[1] = round[c] => pc[c] = "done"

\* Whatever is unanswered is of a round that has not succeeded.
LEMMA UnansweredTypes ==
  ASSUME BenchTypeInv, LateInv, NEW c \in Client, NEW request \in Unanswered(c)
  PROVE  /\ request[1] \in (1 .. round[c]) \ successes[c] /\ request[1] \in Round
         /\ request[2] \in Index /\ MessagesPerClient > 0
  <1>1. round[c] \in 0 .. NumRounds /\ NumRounds \in Nat /\ MessagesPerClient \in Nat
    BY ParametersAssumption DEF BenchTypeInv, BenchTypeOK, TypeOK
  <1>2. CASE request \in late[c]
    <2>1. request \in Round \X Index
      BY <1>2 DEF BenchTypeInv, BenchTypeOK
    <2>. QED  BY <1>1, <1>2, <2>1 DEF LateInv, Index
  <1>3. CASE request \notin late[c]
    <2>1. At(c, "submit") /\ request = <<round[c], sent[c]>>
      BY <1>3 DEF Unanswered
    <2>2. /\ round[c] > 0 /\ round[c] \notin successes[c]
          /\ sent[c] \in 0 .. MessagesPerClient /\ sent[c] < MessagesPerClient
      BY <2>1 DEF At, BenchTypeInv, BenchTypeOK, InLoop, LateInv
    <2>. QED  BY <1>1, <2>1, <2>2 DEF Round, Index
  <1>. QED  BY <1>2, <1>3

\* Accepting a statement publishes; if the round has been published in already,
\* nothing changes for the others.
LEMMA AcceptPublishes ==
  ASSUME BenchTypeInv, LateInv, NEW c \in Client, Accept(c)
  PROVE  Publish(c) \/ UNCHANGED vars
  <1>1. PICK request \in Unanswered(c) :
          published' = [published EXCEPT ![c] = @ \cup {request[1]}]
    BY DEF Accept
  <1>2. /\ MessagesPerClient > 0 /\ published \in [Client -> SUBSET Round]
        /\ request[1] \in (1 .. round[c]) \ successes[c]
    BY UnansweredTypes DEF BenchTypeInv, BenchTypeOK, TypeOK
  <1>3. UNCHANGED <<pc, round, successes, failures, stored, barrierVars>>
    BY DEF Accept
  <1>4. CASE request[1] \in published[c]
    BY <1>1, <1>2, <1>3, <1>4 DEF vars
  <1>5. CASE request[1] \notin published[c]
    BY <1>1, <1>2, <1>3, <1>5 DEF Publish
  <1>. QED  BY <1>4, <1>5

\* What each step of the detailed cohort is for Cohort, except a round's success.
LEMMA StepImplements ==
  ASSUME BenchTypeInv, LateInv, NEW c \in Client, ClientNext(c) \/ NodeNext(c),
         ~ReceivedAll(c)
  PROVE  Advance(c) \/ UNCHANGED vars
  <1>1. CASE Synchronise(c)
    BY <1>1 DEF Synchronise, Advance, RunClient
  <1>2. CASE Subscribe(c) \/ Submit(c) \/ ReceiveEvent(c) \/ Deliver(c)
    BY <1>2 DEF Subscribe, Submit, ReceiveEvent, Deliver
  <1>3. CASE SubscribeFails(c) \/ SubmitFails(c) \/ ReceiveFails(c)
    BY <1>3 DEF SubscribeFails, SubmitFails, ReceiveFails, At, Fail, RoundFails,
                Advance, RunClient
  <1>4. CASE ExecutePanics(c)
    BY <1>4 DEF ExecutePanics, Advance, RunClient
  <1>5. CASE Accept(c)
    BY <1>5, AcceptPublishes DEF Advance
  <1>. QED  BY <1>1, <1>2, <1>3, <1>4, <1>5 DEF ClientNext, NodeNext

\* Cohort's types do not depend on when a round may succeed.
LEMMA RoundTypes ==
  ASSUME TypeInv, NEW c \in Client, pc[c] = "inRound", SucceedRound(c)
  PROVE  TypeInv'
  <1>1. round[c] \in Round
    BY DEF TypeInv, TypeOK, InLoop, Round
  <1>. QED  BY <1>1 DEF SucceedRound, TypeInv, TypeOK, InLoop, barrierVars, Goto,
                        Location, Round

LEMMA BenchTypeStep ==
  BenchTypeInv /\ LateInv /\ [BenchNext]_benchVars => BenchTypeInv'
  <1>. SUFFICES ASSUME BenchTypeInv, LateInv, [BenchNext]_benchVars
                PROVE  BenchTypeInv'
    OBVIOUS
  <1>u. CASE UNCHANGED benchVars
    BY <1>u DEF benchVars, vars, barrierVars, roundVars, nodeVars, BenchTypeInv, BenchTypeOK,
                TypeOK, InLoop
  <1>n. ASSUME NEW c \in Client, ClientNext(c) \/ NodeNext(c) PROVE BenchTypeInv'
    <2>t. TypeInv /\ MessagesPerClient \in Nat /\ BenchTypeOK
      BY ParametersAssumption DEF BenchTypeInv, BenchTypeOK, TypeInv
    <2>m. Matching(c) \in SUBSET Index
      BY DEF Matching
    <2>1. TypeInv'
      <3>1. CASE ReceivedAll(c)
        BY <2>t, <3>1, RoundTypes DEF ReceivedAll, At
      <3>2. CASE ~ReceivedAll(c)
        BY <1>n, <2>t, <3>2, StepImplements, TypeStep DEF Next
      <3>. QED  BY <3>1, <3>2
    <2>. SUFFICES /\ step' \in [Client -> {"subscribe", "submit", "receive"}]
                  /\ sent' \in [Client -> 0 .. MessagesPerClient]
                  /\ received' \in [Client -> Nat]
                  /\ events' \in [Client -> Seq(0 .. MessagesPerClient)]
                  /\ seen' \in [Client -> SUBSET Index]
                  /\ repeated' \in [Client -> BOOLEAN]
                  /\ late' \in [Client -> SUBSET (Round \X Index)]
                  /\ channel' \in [Client -> [Index -> 0 .. NumRounds]]
                  /\ \A d \in Client :
                       /\ step'[d] = "subscribe" =>
                            /\ sent'[d] = 0 /\ received'[d] = 0
                            /\ events'[d] = <<>> /\ seen'[d] = {}
                       /\ step'[d] = "submit" => sent'[d] < MessagesPerClient
      BY <2>1 DEF BenchTypeInv, BenchTypeOK, TypeInv
    <2>2. CASE Synchronise(c) \/ ExecutePanics(c)
      BY <2>2, <2>t DEF Synchronise, ExecutePanics, roundVars, nodeVars,
                        BenchTypeOK, BenchTypeInv
    <2>3. CASE LeaveRound(c) /\ UNCHANGED nodeVars
      BY <2>3, <2>t DEF LeaveRound, nodeVars, BenchTypeOK, BenchTypeInv
    <2>4. CASE Subscribe(c)
      <3>1. PICK dump \in SUBSET Matching(c) :
              /\ events' = [events EXCEPT ![c] = <<Cardinality(dump)>>]
              /\ seen' = [seen EXCEPT ![c] = dump]
        BY <2>4 DEF Subscribe
      <3>2. dump \in SUBSET Index /\ Cardinality(dump) \in 0 .. MessagesPerClient
        BY <2>m, IndicesCounted
      <3>3. events' \in [Client -> Seq(0 .. MessagesPerClient)]
        BY <2>t, <3>1, <3>2 DEF BenchTypeOK
      <3>4. seen' \in [Client -> SUBSET Index]
        BY <2>t, <3>1, <3>2 DEF BenchTypeOK
      <3>5. step'[c] # "subscribe" /\ (step'[c] = "submit" => MessagesPerClient # 0)
        BY <2>4, <2>t DEF Subscribe, BenchTypeOK
      <3>6. \A d \in Client : d # c => UNCHANGED <<step[d], events[d], seen[d]>>
        BY <2>4, <2>t, <3>1 DEF Subscribe, BenchTypeOK
      <3>7. \A d \in Client :
              /\ step'[d] = "subscribe" =>
                   /\ sent'[d] = 0 /\ received'[d] = 0
                   /\ events'[d] = <<>> /\ seen'[d] = {}
              /\ step'[d] = "submit" => sent'[d] < MessagesPerClient
        BY <2>4, <2>t, <3>5, <3>6 DEF Subscribe, At, BenchTypeInv
      <3>. QED  BY <2>4, <2>t, <3>3, <3>4, <3>7 DEF Subscribe, nodeVars, BenchTypeOK
    <2>5. CASE Submit(c)
      BY <2>5, <2>t DEF Submit, nodeVars, BenchTypeOK, BenchTypeInv, At
    <2>6. CASE ReceiveEvent(c)
      BY <2>6, <2>t DEF ReceiveEvent, nodeVars, BenchTypeOK, BenchTypeInv
    <2>7. CASE Accept(c)
      <3>1. channel' \in [Client -> [Index -> 0 .. NumRounds]]
        <4>1. PICK request \in Unanswered(c) :
                channel' = [channel EXCEPT ![c][request[2]] = request[1]]
          BY <2>7 DEF Accept
        <4>2. request[1] \in 0 .. NumRounds /\ request[2] \in Index
          BY UnansweredTypes DEF Round
        <4>. QED  BY <2>t, <4>1, <4>2 DEF BenchTypeOK
      <3>. QED  BY <2>7, <2>t, <3>1 DEF Accept, BenchTypeOK, BenchTypeInv, roundVars
    <2>8. CASE Deliver(c)
      <3>1. PICK batch \in SUBSET Matching(c) :
              /\ events' = [events EXCEPT ![c] = Append(@, Cardinality(batch))]
              /\ seen' = [seen EXCEPT ![c] = @ \cup batch]
              /\ repeated' = [repeated EXCEPT ![c] = @ \/ batch \cap seen[c] # {}]
        BY <2>8 DEF Deliver
      <3>2. batch \in SUBSET Index /\ Cardinality(batch) \in 0 .. MessagesPerClient
        BY <2>m, IndicesCounted
      <3>3. events' \in [Client -> Seq(0 .. MessagesPerClient)]
        BY <2>t, <3>1, <3>2 DEF BenchTypeOK
      <3>4. seen' \in [Client -> SUBSET Index]
        BY <2>t, <3>1, <3>2 DEF BenchTypeOK
      <3>5. repeated' \in [Client -> BOOLEAN]
        BY <2>t, <3>1 DEF BenchTypeOK
      <3>. QED  BY <2>8, <2>t, <3>3, <3>4, <3>5 DEF Deliver, nodeVars, BenchTypeOK,
                BenchTypeInv
    <2>9. CASE SubmitFails(c)
      <3>1. /\ At(c, "submit") /\ LeaveRound(c) /\ channel' = channel
            /\ late' = [late EXCEPT ![c] = @ \cup {<<round[c], sent[c]>>}]
        BY <2>9 DEF SubmitFails, Fail
      <3>2. round[c] \in Round /\ sent[c] \in Index
        <4>1. <<round[c], sent[c]>> \in Unanswered(c)
          BY <3>1 DEF Unanswered
        <4>. QED  BY <4>1, UnansweredTypes
      <3>3. late' \in [Client -> SUBSET (Round \X Index)]
        BY <2>t, <3>1, <3>2 DEF BenchTypeOK
      <3>. QED  BY <2>t, <3>1, <3>3 DEF LeaveRound, BenchTypeOK, BenchTypeInv
    <2>. QED  BY <1>n, <2>2, <2>3, <2>4, <2>5, <2>6, <2>7, <2>8, <2>9
              DEF ClientNext, NodeNext, SubscribeFails, ReceiveFails, ReceivedAll, Fail,
                  nodeVars
  <1>. QED  BY <1>u, <1>n DEF BenchNext

-----------------------------------------------------------------------------
(* What a client reads was published in its round. *)

\* A channel holds what its client has published; who has read a statement, or has
\* one waiting, is in a round in which its neighbour has published.
ReadInv ==
  \A c \in Client :
    /\ \A i \in Index : channel[c][i] # 0 => channel[c][i] \in published[c]
    /\ received[c] > 0 \/ (\E k \in DOMAIN events[c] : events[c][k] > 0) =>
         pc[c] \in {"inRound", "panicked"} /\ round[c] \in published[Neighbour(c)]

BenchInv == BenchTypeInv /\ LateInv /\ ReadInv

\* A step of one client leaves the others alone.
LEMMA BenchOthers ==
  ASSUME BenchTypeInv, NEW c \in Client, ClientNext(c) \/ NodeNext(c),
         NEW d \in Client, d # c
  PROVE  /\ pc'[d] = pc[d] /\ round'[d] = round[d] /\ published'[d] = published[d]
         /\ channel'[d] = channel[d] /\ successes'[d] = successes[d]
         /\ late'[d] = late[d] /\ (d \in stored' <=> d \in stored)
         /\ received'[d] = received[d] /\ events'[d] = events[d]
         /\ seen'[d] = seen[d] /\ repeated'[d] = repeated[d]
  <1>1. CASE Synchronise(c)
    BY <1>1 DEF Synchronise, Arrive, Released, TimerFires, RecordSyncTimeout,
         CheckPeers, StorePeerFailed, EnterNextRound, Goto, roundVars, nodeVars,
         BenchTypeInv, BenchTypeOK, TypeOK
  <1>2. CASE SubscribeFails(c) \/ SubmitFails(c) \/ ReceiveFails(c) \/ ReceivedAll(c)
    <2>1. late'[d] = late[d]
      BY <1>2 DEF SubscribeFails, SubmitFails, ReceiveFails, ReceivedAll, nodeVars,
                  BenchTypeInv, BenchTypeOK
    <2>2. Fail(c) \/ ReceivedAll(c)
      BY <1>2 DEF SubscribeFails, SubmitFails, ReceiveFails
    <2>. QED  BY <2>1, <2>2 DEF Fail, ReceivedAll, FailRound, SucceedRound, LeaveRound,
         StorePeerFailed, EnterNextRound, Goto, nodeVars, BenchTypeInv, BenchTypeOK,
         TypeOK
  <1>3. CASE ExecutePanics(c) \/ Accept(c)
    BY <1>3 DEF ExecutePanics, Panics, Accept, Goto, roundVars, nodeVars, BenchTypeInv,
         BenchTypeOK, TypeOK
  <1>4. CASE Subscribe(c) \/ Submit(c) \/ ReceiveEvent(c) \/ Deliver(c)
    BY <1>4 DEF Subscribe, Submit, ReceiveEvent, Deliver, vars, nodeVars, BenchTypeInv,
         BenchTypeOK, TypeOK
  <1>. QED  BY <1>1, <1>2, <1>3, <1>4 DEF ClientNext, NodeNext

LEMMA PublishedGrows ==
  ASSUME BenchTypeInv, NEW c \in Client, ClientNext(c) \/ NodeNext(c),
         NEW d \in Client
  PROVE  published[d] \subseteq published'[d]
  <1>1. CASE d = c
    <2>1. CASE Accept(c)
      BY <1>1, <2>1 DEF Accept, BenchTypeInv, BenchTypeOK, TypeOK
    <2>2. CASE ~Accept(c)
      <3>1. published' = published
        BY <2>2 DEF ClientNext, NodeNext, Synchronise, Arrive, Released, TimerFires,
           RecordSyncTimeout, CheckPeers, SubscribeFails, SubmitFails, ReceiveFails,
           Fail, ReceivedAll, FailRound, SucceedRound, ExecutePanics, Panics,
           Subscribe, Submit, ReceiveEvent, Deliver, vars
      <3>. QED  BY <3>1
    <2>. QED  BY <2>1, <2>2
  <1>2. CASE d # c
    BY <1>2, BenchOthers
  <1>. QED  BY <1>1, <1>2

LEMMA LateInit == BenchInit => LateInv
  BY DEF BenchInit, Init, LateInv

\* A client that goes on to its next round, with requests of earlier ones.
LEMMA LateNextRound ==
  ASSUME BenchTypeInv, LateInv, NEW c \in Client, EnterNextRound(c),
         successes' = successes
  PROVE  /\ successes'[c] \subseteq 1 .. round'[c]
         /\ pc'[c] = "inRound" => round'[c] \notin successes'[c]
         /\ \A r \in (1 .. round[c]) \ successes[c] :
              /\ r \in (1 .. round'[c]) \ successes'[c]
              /\ r = round'[c] => pc'[c] = "done"
  <1>1. /\ pc \in [Client -> Location] /\ round \in [Client -> 0 .. NumRounds]
        /\ NumRounds \in Nat /\ round[c] \in Nat /\ successes[c] \subseteq 1 .. round[c]
    BY ParametersAssumption DEF BenchTypeInv, BenchTypeOK, TypeOK, LateInv
  <1>2. CASE round[c] < NumRounds
    <2>1. round'[c] = round[c] + 1
      BY <1>1, <1>2 DEF EnterNextRound
    <2>. QED  BY <1>1, <2>1
  <1>3. CASE ~(round[c] < NumRounds)
    <2>1. round' = round /\ pc'[c] = "done"
      BY <1>1, <1>3 DEF EnterNextRound, Goto
    <2>. QED  BY <1>1, <2>1
  <1>. QED  BY <1>2, <1>3

LEMMA LateStep == BenchTypeInv /\ LateInv /\ [BenchNext]_benchVars => LateInv'
  <1>. SUFFICES ASSUME BenchTypeInv, LateInv, [BenchNext]_benchVars PROVE LateInv'
    OBVIOUS
  <1>u. CASE UNCHANGED benchVars
    BY <1>u DEF benchVars, vars, nodeVars, LateInv
  <1>n. ASSUME NEW c \in Client, ClientNext(c) \/ NodeNext(c), NEW d \in Client
        PROVE  /\ successes'[d] \subseteq 1 .. round'[d]
               /\ pc'[d] = "inRound" => round'[d] \notin successes'[d]
               /\ late'[d] # {} => d \in stored'
               /\ \A request \in late'[d] :
                    /\ request[1] \in (1 .. round'[d]) \ successes'[d]
                    /\ request[1] = round'[d] => pc'[d] = "done"
    <2>t. /\ pc \in [Client -> Location] /\ round[c] \in Nat
          /\ late \in [Client -> SUBSET (Round \X Index)]
          /\ successes \in [Client -> SUBSET Round]
      BY DEF BenchTypeInv, BenchTypeOK, TypeOK
    <2>i. /\ successes[d] \subseteq 1 .. round[d]
          /\ pc[d] = "inRound" => round[d] \notin successes[d]
          /\ late[d] # {} => d \in stored
          /\ \A request \in late[d] :
               /\ request[1] \in (1 .. round[d]) \ successes[d]
               /\ request[1] = round[d] => pc[d] = "done"
      BY DEF LateInv
    <2>1. CASE d # c
      BY <1>n, <2>i, <2>1, BenchOthers
    <2>2. CASE d = c /\ (Subscribe(c) \/ Submit(c) \/ ReceiveEvent(c) \/ Deliver(c)
                         \/ Accept(c))
      BY <2>2, <2>i DEF Subscribe, Submit, ReceiveEvent, Deliver, Accept, nodeVars, vars
    <2>3. CASE d = c /\ Synchronise(c)
      <3>1. /\ pc[c] \notin {"inRound", "done"} /\ late' = late
            /\ successes' = successes /\ stored \subseteq stored'
            /\ \/ EnterNextRound(c)
               \/ round' = round /\ pc'[c] # "inRound"
        BY <2>t, <2>3 DEF Synchronise, Arrive, Released, TimerFires, RecordSyncTimeout,
           CheckPeers, StorePeerFailed, Goto, nodeVars
      <3>. QED  BY <2>3, <2>i, <3>1, LateNextRound
    <2>4. CASE d = c /\ (ExecutePanics(c) \/ ReceivedAll(c))
      <3>1. /\ pc[c] = "inRound" /\ late' = late /\ stored' = stored /\ round' = round
            /\ pc'[c] # "inRound"
            /\ successes'[c] \subseteq successes[c] \cup {round[c]}
        BY <2>t, <2>4 DEF ExecutePanics, ReceivedAll, At, Panics, SucceedRound, Goto,
           nodeVars
      <3>2. round[c] \in 1 .. round[c]
        BY <2>t, <3>1 DEF BenchTypeInv, InLoop
      <3>. QED  BY <2>4, <2>i, <3>1, <3>2
    <2>5. CASE d = c /\ (SubscribeFails(c) \/ SubmitFails(c) \/ ReceiveFails(c))
      <3>1. /\ pc[c] = "inRound" /\ FailRound(c)
            /\ late'[c] \subseteq late[c] \cup {<<round[c], sent[c]>>}
        BY <2>t, <2>5 DEF SubscribeFails, SubmitFails, ReceiveFails, At, Fail
      <3>2. successes' = successes /\ c \in stored'
        BY <3>1 DEF FailRound, StorePeerFailed
      <3>3. /\ round[c] \in (1 .. round[c]) \ successes[c]
            /\ \A request \in late'[c] : request[1] \in (1 .. round[c]) \ successes[c]
        BY <2>t, <2>5, <2>i, <3>1 DEF BenchTypeInv, InLoop
      <3>4. EnterNextRound(c) \/ (round' = round /\ pc'[c] = "done")
        BY <2>t, <3>1 DEF FailRound, Goto
      <3>. QED  BY <2>5, <2>i, <3>2, <3>3, <3>4, LateNextRound
    <2>. QED  BY <1>n, <2>1, <2>2, <2>3, <2>4, <2>5 DEF ClientNext, NodeNext
  <1>. QED  BY <1>u, <1>n DEF BenchNext, LateInv

\* A batch that is not empty brings statements of the neighbour in this round.
LEMMA MatchingPublished ==
  ASSUME BenchInv, NEW c \in Client, pc[c] = "inRound", NEW batch \in SUBSET Matching(c),
         Cardinality(batch) > 0
  PROVE  round[c] \in published[Neighbour(c)]
  <1>1. batch # {}
    BY FS_EmptySet
  <1>2. PICK i \in Index : channel[Neighbour(c)][i] = round[c]
    BY <1>1 DEF Matching
  <1>3. round[c] # 0
    BY DEF BenchInv, BenchTypeInv, BenchTypeOK, TypeOK, InLoop
  <1>. QED  BY <1>2, <1>3, NeighbourType DEF BenchInv, ReadInv

LEMMA ReadInit == BenchInit => ReadInv
  BY DEF BenchInit, ReadInv

LEMMA ReadStep == BenchInv /\ [BenchNext]_benchVars => ReadInv'
  <1>. SUFFICES ASSUME BenchInv, [BenchNext]_benchVars PROVE ReadInv'
    OBVIOUS
  <1>u. CASE UNCHANGED benchVars
    BY <1>u DEF benchVars, vars, roundVars, nodeVars, BenchInv, ReadInv
  <1>n. ASSUME NEW c \in Client, ClientNext(c) \/ NodeNext(c), NEW d \in Client
        PROVE  /\ \A i \in Index : channel'[d][i] # 0 => channel'[d][i] \in published'[d]
               /\ received'[d] > 0 \/ (\E k \in DOMAIN events'[d] : events'[d][k] > 0) =>
                    /\ pc'[d] \in {"inRound", "panicked"}
                    /\ round'[d] \in published'[Neighbour(d)]
    <2>t. BenchTypeInv /\ BenchTypeOK /\ TypeOK /\ MessagesPerClient \in Nat
      BY ParametersAssumption DEF BenchInv, BenchTypeInv, BenchTypeOK
    <2>p. /\ published[d] \subseteq published'[d]
          /\ published[Neighbour(d)] \subseteq published'[Neighbour(d)]
      BY <1>n, <2>t, PublishedGrows, NeighbourType
    <2>i. /\ \A i \in Index : channel[d][i] # 0 => channel[d][i] \in published[d]
          /\ received[d] > 0 \/ (\E k \in DOMAIN events[d] : events[d][k] > 0) =>
               pc[d] \in {"inRound", "panicked"}
                 /\ round[d] \in published[Neighbour(d)]
      BY DEF BenchInv, ReadInv
    <2>1. CASE d # c
      BY <1>n, <2>t, <2>p, <2>i, <2>1, BenchOthers
    <2>. DEFINE ChannelPart ==
           \A i \in Index : channel'[c][i] # 0 => channel'[c][i] \in published'[c]
                EventPart ==
           received'[c] > 0 \/ (\E k \in DOMAIN events'[c] : events'[c][k] > 0) =>
             /\ pc'[c] \in {"inRound", "panicked"}
             /\ round'[c] \in published'[Neighbour(c)]
    <2>2. CASE d = c /\ Accept(c)
      <3>1. ChannelPart
        <4>1. PICK request \in Unanswered(c) :
                /\ channel' = [channel EXCEPT ![c][request[2]] = request[1]]
                /\ published' = [published EXCEPT ![c] = @ \cup {request[1]}]
          BY <2>2 DEF Accept
        <4>2. request[1] \in published'[c]
          BY <2>t, <4>1 DEF TypeOK
        <4>. QED  BY <2>t, <2>p, <2>i, <2>2, <4>1, <4>2 DEF BenchTypeOK
      <3>2. EventPart
        BY <2>p, <2>i, <2>2 DEF Accept, roundVars
      <3>. QED  BY <2>2, <3>1, <3>2
    <2>c. CASE d = c /\ ~Accept(c)
      <3>1. channel' = channel
        BY <1>n, <2>c DEF ClientNext, NodeNext, Synchronise, SubscribeFails,
           SubmitFails, ReceiveFails, Fail, ReceivedAll, ExecutePanics, Subscribe,
           Submit, ReceiveEvent, Deliver, nodeVars
      <3>2. ChannelPart
        BY <2>p, <2>i, <2>c, <3>1
      <3>3. CASE Synchronise(c)
        <4>1. pc[c] \notin {"inRound", "panicked"}
          BY <3>3 DEF Synchronise, Arrive, Released, TimerFires, RecordSyncTimeout,
             CheckPeers
        <4>. QED  BY <2>c, <2>i, <3>2, <3>3, <4>1 DEF Synchronise, roundVars
      <3>4. CASE LeaveRound(c)
        <4>1. received'[c] = 0 /\ events'[c] = <<>>
          BY <2>t, <3>4 DEF LeaveRound, BenchTypeOK
        <4>. QED  BY <2>c, <3>2, <4>1
      <3>5. CASE ExecutePanics(c)
        <4>1. pc'[c] = "panicked"
          BY <2>t, <3>5 DEF ExecutePanics, Panics, Goto, TypeOK
        <4>2. EventPart
          BY <2>c, <2>p, <2>i, <3>5, <4>1 DEF ExecutePanics, Panics, roundVars
        <4>. QED  BY <2>c, <3>2, <4>2
      <3>6. CASE Submit(c)
        BY <2>c, <2>p, <2>i, <3>2, <3>6 DEF Submit, vars
      <3>7. CASE Subscribe(c)
        <4>1. PICK dump \in SUBSET Matching(c) :
                events' = [events EXCEPT ![c] = <<Cardinality(dump)>>]
          BY <3>7 DEF Subscribe
        <4>2. UNCHANGED vars /\ received' = received /\ pc[c] = "inRound"
          BY <3>7 DEF Subscribe, At
        <4>3. \A k \in DOMAIN events'[c] : events'[c][k] = Cardinality(dump)
          BY <2>t, <4>1 DEF BenchTypeOK
        <4>4. Cardinality(dump) > 0 => round[c] \in published[Neighbour(c)]
          BY <4>2, MatchingPublished
        <4>5. EventPart
          BY <2>c, <2>i, <4>2, <4>3, <4>4 DEF vars
        <4>. QED  BY <2>c, <3>2, <4>5
      <3>8. CASE Deliver(c)
        <4>1. PICK batch \in SUBSET Matching(c) :
                events' = [events EXCEPT ![c] = Append(@, Cardinality(batch))]
          BY <3>8 DEF Deliver
        <4>2. UNCHANGED vars /\ received' = received /\ pc[c] = "inRound"
          BY <3>8 DEF Deliver
        <4>3. \A k \in DOMAIN events'[c] :
                events'[c][k] = Cardinality(batch)
                  \/ (k \in DOMAIN events[c] /\ events'[c][k] = events[c][k])
          BY <2>t, <4>1 DEF BenchTypeOK
        <4>4. Cardinality(batch) > 0 => round[c] \in published[Neighbour(c)]
          BY <4>2, MatchingPublished
        <4>5. EventPart
          BY <2>c, <2>i, <4>2, <4>3, <4>4 DEF vars
        <4>. QED  BY <2>c, <3>2, <4>5
      <3>9. CASE ReceiveEvent(c)
        <4>1. /\ UNCHANGED vars /\ pc[c] = "inRound"
              /\ received'[c] = received[c] + Head(events[c])
              /\ events'[c] = Tail(events[c])
          BY <2>t, <3>9 DEF ReceiveEvent, At, BenchTypeOK
        <4>2. /\ events[c] \in Seq(0 .. MessagesPerClient) /\ events[c] # <<>>
              /\ received[c] \in Nat
          BY <2>t, <3>9 DEF ReceiveEvent, BenchTypeOK
        <4>3. /\ 1 \in DOMAIN events[c] /\ Head(events[c]) = events[c][1]
              /\ events[c][1] \in Nat
              /\ \A k \in DOMAIN events'[c] :
                   k + 1 \in DOMAIN events[c] /\ events'[c][k] = events[c][k + 1]
          BY <2>t, <4>1, <4>2
        <4>4. received'[c] > 0 => received[c] > 0 \/ events[c][1] > 0
          BY <4>1, <4>2, <4>3
        <4>5. EventPart
          BY <2>c, <2>i, <4>1, <4>3, <4>4 DEF vars
        <4>. QED  BY <2>c, <3>2, <4>5
      <3>. QED  BY <1>n, <2>c, <3>3, <3>4, <3>5, <3>6, <3>7, <3>8, <3>9
                DEF ClientNext, NodeNext, SubscribeFails, SubmitFails, ReceiveFails,
                    Fail, ReceivedAll
    <2>. QED  BY <2>1, <2>2, <2>c
  <1>. QED  BY <1>u, <1>n DEF BenchNext, ReadInv

LEMMA BenchInvariance == BenchSpec => []BenchInv
  <1>1. BenchInit => BenchInv
    BY BenchTypeInit, LateInit, ReadInit DEF BenchInv
  <1>2. BenchInv /\ [BenchNext]_benchVars => BenchInv'
    BY BenchTypeStep, LateStep, ReadStep DEF BenchInv
  <1>. QED  BY <1>1, <1>2, PTL DEF BenchSpec

-----------------------------------------------------------------------------
(* Refinement. *)

\* Every behaviour of the clients, with execute_round in full and the nodes in
\* between, is one of Cohort; what is proved there holds here.
THEOREM BenchImplementsCohort == BenchSpec => ImplementsCohort
  <1>1. BenchInit => Init
    BY DEF BenchInit
  <1>2. BenchInv /\ [BenchNext]_benchVars => [Next]_vars
    <2>. SUFFICES ASSUME BenchInv, BenchNext PROVE Next \/ UNCHANGED vars
      BY DEF benchVars
    <2>1. PICK c \in Client : ClientNext(c) \/ NodeNext(c)
      BY DEF BenchNext
    <2>2. CASE ReceivedAll(c)
      <3>1. /\ pc[c] = "inRound" /\ SucceedRound(c)
            /\ received[c] >= MessagesPerClient
        BY <2>2 DEF ReceivedAll, At
      <3>2. MessagesPerClient > 0 => round[c] \in published[Neighbour(c)]
        BY <3>1, ParametersAssumption
           DEF BenchInv, ReadInv, BenchTypeInv, BenchTypeOK
      <3>. QED  BY <3>1, <3>2 DEF RoundSucceeds, Advance, RunClient, Next
    <2>3. CASE ~ReceivedAll(c)
      BY <2>1, <2>3, StepImplements DEF BenchInv, Next
    <2>. QED  BY <2>2, <2>3
  <1>. QED  BY <1>1, <1>2, BenchInvariance, PTL DEF BenchSpec, Spec, ImplementsCohort

\* Hence the clients with execute_round in full are in lockstep too, and whoever
\* has not failed is in a round that all have got to.
COROLLARY BenchInLockstep == BenchSpec => InLockstep /\ []BarrierSound
  BY BenchImplementsCohort, CohortInLockstep, BarrierIsSound, PTL
     DEF ImplementsCohort

\* A statement that replaces one of an earlier round does so when the reader of its
\* client has received that one, unless the client has failed.
THEOREM NothingIsReplacedUnread == BenchSpec => NothingReplacedUnread
  <1>. DEFINE Unread ==
         \A c, reader \in Client, i \in Index :
           /\ Neighbour(reader) = c
           /\ channel[c][i] # 0 /\ channel'[c][i] # channel[c][i]
           => c \in stored \/ channel[c][i] \in successes[reader]
  <1>1. BenchInv /\ IndInv /\ [BenchNext]_benchVars => [Unread]_benchVars
    <2>. SUFFICES ASSUME BenchInv, IndInv, BenchNext,
                         NEW d \in Client, NEW reader \in Client, NEW i \in Index,
                         channel[d][i] # 0, channel'[d][i] # channel[d][i],
                         d \notin stored
                  PROVE  channel[d][i] \in successes[reader]
      OBVIOUS
    <2>1. PICK c \in Client : ClientNext(c) \/ NodeNext(c)
      BY DEF BenchNext
    <2>2. Accept(c)
      BY <2>1 DEF ClientNext, NodeNext, Synchronise, SubscribeFails, SubmitFails,
         ReceiveFails, Fail, ReceivedAll, ExecutePanics, Subscribe, Submit,
         ReceiveEvent, Deliver, nodeVars
    <2>3. d = c
      BY <2>1, BenchOthers DEF BenchInv
    <2>4. PICK request \in Unanswered(c) :
            /\ channel[c][request[2]] < request[1]
            /\ channel' = [channel EXCEPT ![c][request[2]] = request[1]]
      BY <2>2 DEF Accept
    <2>5. At(c, "submit") /\ request = <<round[c], sent[c]>>
      BY <2>3 DEF Unanswered, BenchInv, LateInv
    <2>6. d = c /\ channel[c][i] # round[c]
      BY <2>3, <2>4, <2>5 DEF BenchInv, BenchTypeInv, BenchTypeOK
    <2>7. channel[c][i] \in 1 .. round[c] /\ round[c] \in Nat
      BY <2>6 DEF BenchInv, ReadInv, IndInv, RoundInv, BenchTypeInv, BenchTypeOK, TypeOK
    <2>8. /\ ticket[c] = round[c] /\ round[c] < generation
          /\ generation \in Nat /\ ticket[reader] \in Nat
      BY <2>6, <2>5 DEF At, IndInv, TicketInv, BenchInv, BenchTypeInv, BenchTypeOK,
         TypeOK
    <2>9. 1 .. (ticket[reader] - 1) \subseteq successes[reader]
            /\ ticket[reader] >= generation - 1
      BY DEF IndInv, TicketInv
    <2>. QED  BY <2>6, <2>7, <2>8, <2>9
  <1>2. BenchSpec => []IndInv
    BY BenchImplementsCohort, Inductive, PTL DEF ImplementsCohort
  <1>. QED
    BY <1>1, <1>2, BenchInvariance, PTL DEF BenchSpec, NothingReplacedUnread

-----------------------------------------------------------------------------
(* Counting statements. *)

\* n statements counted and events of sizes e that wait can all be different ones,
\* out of S.
Tally(S, n, e) ==
  \E counted \in SUBSET S, waiting \in [DOMAIN e -> SUBSET S] :
    /\ Cardinality(counted) = n
    /\ \A k \in DOMAIN e :
         Cardinality(waiting[k]) = e[k] /\ waiting[k] \cap counted = {}
    /\ \A k, l \in DOMAIN e : k # l => waiting[k] \cap waiting[l] = {}

LEMMA TallyEmpty == ASSUME NEW S PROVE Tally(S, 0, <<>>)
  <1>. DEFINE w == [k \in DOMAIN <<>> |-> {}]
  <1>1. Cardinality({}) = 0
    BY FS_EmptySet
  <1>2. w \in [DOMAIN <<>> -> SUBSET S] /\ DOMAIN <<>> = {} /\ {} \in SUBSET S
    OBVIOUS
  <1>. HIDE DEF w
  <1>. QED  BY <1>1, <1>2 DEF Tally

\* An event with statements that were not in S before.
LEMMA TallyAppend ==
  ASSUME NEW S, NEW batch, batch \cap S = {}, NEW n, NEW m \in Nat,
         NEW e \in Seq(0 .. m), Cardinality(batch) \in 0 .. m, Tally(S, n, e)
  PROVE  Tally(S \cup batch, n, Append(e, Cardinality(batch)))
  <1>. DEFINE e2 == Append(e, Cardinality(batch))
  <1>1. PICK counted \in SUBSET S, waiting \in [DOMAIN e -> SUBSET S] :
          /\ Cardinality(counted) = n
          /\ \A k \in DOMAIN e :
               Cardinality(waiting[k]) = e[k] /\ waiting[k] \cap counted = {}
          /\ \A k, l \in DOMAIN e : k # l => waiting[k] \cap waiting[l] = {}
    BY DEF Tally
  <1>2. /\ Len(e) \in Nat /\ DOMAIN e = 1 .. Len(e) /\ DOMAIN e2 = 1 .. Len(e) + 1
        /\ \A k \in 1 .. Len(e) : e2[k] = e[k]
        /\ e2[Len(e) + 1] = Cardinality(batch)
    OBVIOUS
  <1>. DEFINE w == [k \in 1 .. Len(e) + 1 |-> IF k \in DOMAIN e THEN waiting[k]
                                              ELSE batch]
  <1>. HIDE DEF e2
  <1>3. counted \in SUBSET (S \cup batch) /\ w \in [DOMAIN e2 -> SUBSET (S \cup batch)]
    BY <1>1, <1>2
  <1>4. ASSUME NEW k \in DOMAIN e2
        PROVE  Cardinality(w[k]) = e2[k] /\ w[k] \cap counted = {}
    BY <1>1, <1>2
  <1>5. ASSUME NEW k \in DOMAIN e2, NEW l \in DOMAIN e2, k # l
        PROVE  w[k] \cap w[l] = {}
    BY <1>1, <1>2, <1>5
  <1>. HIDE DEF w
  <1>6. Tally(S \cup batch, n, e2)
    BY <1>1, <1>3, <1>4, <1>5 DEF Tally
  <1>. QED  BY <1>6 DEF e2

\* The first event is counted.
LEMMA TallyHead ==
  ASSUME NEW S, IsFiniteSet(S), NEW n, NEW m \in Nat, NEW e \in Seq(0 .. m),
         e # <<>>, Tally(S, n, e)
  PROVE  Tally(S, n + Head(e), Tail(e))
  <1>1. PICK counted \in SUBSET S, waiting \in [DOMAIN e -> SUBSET S] :
          /\ Cardinality(counted) = n
          /\ \A k \in DOMAIN e :
               Cardinality(waiting[k]) = e[k] /\ waiting[k] \cap counted = {}
          /\ \A k, l \in DOMAIN e : k # l => waiting[k] \cap waiting[l] = {}
    BY DEF Tally
  <1>. DEFINE e2 == Tail(e)
              more == counted \cup waiting[1]
              w == [k \in DOMAIN e2 |-> waiting[k + 1]]
  <1>2. /\ 1 \in DOMAIN e /\ Head(e) = e[1] /\ DOMAIN e2 \subseteq Nat \ {0}
        /\ \A k \in DOMAIN e2 : k + 1 \in DOMAIN e /\ e2[k] = e[k + 1]
    OBVIOUS
  <1>. HIDE DEF e2
  <1>3. Cardinality(more) = n + e[1]
    <2>1. IsFiniteSet(counted) /\ IsFiniteSet(waiting[1])
      BY <1>1, <1>2, FS_Subset
    <2>2. waiting[1] \cap counted = {} /\ Cardinality(waiting[1]) = e[1]
      BY <1>1, <1>2
    <2>3. Cardinality(counted \cup waiting[1])
            = Cardinality(counted) + Cardinality(waiting[1])
                - Cardinality(counted \cap waiting[1])
      BY <2>1, FS_Union
    <2>4. Cardinality(counted \cap waiting[1]) = 0
      BY <2>2, FS_EmptySet
    <2>5. Cardinality(counted) \in Nat /\ Cardinality(waiting[1]) \in Nat
      BY <2>1, FS_CardinalityType
    <2>. QED  BY <1>1, <2>2, <2>3, <2>4, <2>5
  <1>4. more \in SUBSET S /\ w \in [DOMAIN e2 -> SUBSET S]
    BY <1>1, <1>2
  <1>5. ASSUME NEW k \in DOMAIN e2
        PROVE  Cardinality(w[k]) = e2[k] /\ w[k] \cap more = {}
    <2>1. k + 1 \in DOMAIN e /\ k + 1 # 1 /\ w[k] = waiting[k + 1]
      BY <1>2
    <2>. QED  BY <1>1, <1>2, <2>1
  <1>6. ASSUME NEW k \in DOMAIN e2, NEW l \in DOMAIN e2, k # l
        PROVE  w[k] \cap w[l] = {}
    <2>1. k + 1 # l + 1
      BY <1>2, <1>6
    <2>. QED  BY <1>1, <1>2, <2>1
  <1>. HIDE DEF w, more
  <1>7. Tally(S, n + e[1], e2)
    BY <1>3, <1>4, <1>5, <1>6 DEF Tally
  <1>. QED  BY <1>2, <1>7 DEF e2

\* Unless a statement was delivered twice, received_count and the sizes of the
\* events that wait are those of disjoint sets of statements, all of them seen.
TallyInv ==
  \A c \in Client : repeated[c] \/ Tally(seen[c], received[c], events[c])

LEMMA TallyInit == BenchInit => TallyInv
  BY TallyEmpty DEF BenchInit, TallyInv

LEMMA TallyStep == BenchTypeInv /\ TallyInv /\ [BenchNext]_benchVars => TallyInv'
  <1>. SUFFICES ASSUME BenchTypeInv, TallyInv, [BenchNext]_benchVars PROVE TallyInv'
    OBVIOUS
  <1>u. CASE UNCHANGED benchVars
    BY <1>u DEF benchVars, roundVars, TallyInv
  <1>n. ASSUME NEW c \in Client, ClientNext(c) \/ NodeNext(c), NEW d \in Client,
               ~repeated'[d]
        PROVE  Tally(seen'[d], received'[d], events'[d])
    <2>t. BenchTypeOK /\ MessagesPerClient \in Nat
      BY ParametersAssumption DEF BenchTypeInv
    <2>f. ASSUME UNCHANGED <<seen[d], received[d], events[d], repeated[d]>>
          PROVE  Tally(seen'[d], received'[d], events'[d])
      BY <1>n, <2>f DEF TallyInv
    <2>1. CASE d # c
      BY <1>n, <2>1, <2>f, BenchOthers
    <2>2. CASE Synchronise(c) \/ ExecutePanics(c) \/ Submit(c) \/ Accept(c)
      BY <2>2, <2>f DEF Synchronise, ExecutePanics, Submit, Accept, roundVars
    <2>3. CASE d = c /\ LeaveRound(c)
      <3>1. received'[c] = 0 /\ events'[c] = <<>>
        BY <2>t, <2>3 DEF LeaveRound, BenchTypeOK
      <3>. QED  BY <2>3, <3>1, TallyEmpty
    <2>4. CASE d = c /\ Subscribe(c)
      <3>1. PICK dump \in SUBSET Matching(c) :
              /\ events' = [events EXCEPT ![c] = <<Cardinality(dump)>>]
              /\ seen' = [seen EXCEPT ![c] = dump]
        BY <2>4 DEF Subscribe
      <3>2. received'[c] = 0 /\ seen'[c] = dump /\ events'[c] = <<Cardinality(dump)>>
        BY <2>t, <2>4, <3>1 DEF Subscribe, At, BenchTypeInv, BenchTypeOK
      <3>3. Cardinality(dump) \in 0 .. MessagesPerClient
        <4>1. dump \in SUBSET Index
          BY DEF Matching
        <4>. QED  BY <4>1, IndicesCounted
      <3>4. <<>> \in Seq(0 .. MessagesPerClient)
        OBVIOUS
      <3>5. Tally({} \cup dump, 0, Append(<<>>, Cardinality(dump)))
        BY <2>t, <3>3, <3>4, TallyEmpty, TallyAppend
      <3>6. {} \cup dump = dump
              /\ Append(<<>>, Cardinality(dump)) = <<Cardinality(dump)>>
        BY <3>3
      <3>. QED  BY <2>4, <3>2, <3>5, <3>6
    <2>5. CASE d = c /\ Deliver(c)
      <3>1. PICK batch \in SUBSET Matching(c) :
              /\ events' = [events EXCEPT ![c] = Append(@, Cardinality(batch))]
              /\ seen' = [seen EXCEPT ![c] = @ \cup batch]
              /\ repeated' = [repeated EXCEPT ![c] = @ \/ batch \cap seen[c] # {}]
        BY <2>5 DEF Deliver
      <3>2. /\ received'[c] = received[c] /\ seen'[c] = seen[c] \cup batch
            /\ events'[c] = Append(events[c], Cardinality(batch))
            /\ ~repeated[c] /\ batch \cap seen[c] = {}
        BY <1>n, <2>t, <2>5, <3>1 DEF Deliver, BenchTypeOK
      <3>3. /\ Cardinality(batch) \in 0 .. MessagesPerClient
            /\ events[c] \in Seq(0 .. MessagesPerClient)
        <4>1. batch \in SUBSET Index
          BY DEF Matching
        <4>. QED  BY <2>t, <4>1, IndicesCounted DEF BenchTypeOK
      <3>4. Tally(seen[c], received[c], events[c])
        BY <3>2 DEF TallyInv
      <3>. QED  BY <2>t, <2>5, <3>2, <3>3, <3>4, TallyAppend
    <2>6. CASE d = c /\ ReceiveEvent(c)
      <3>1. /\ seen'[c] = seen[c] /\ repeated'[c] = repeated[c]
            /\ received'[c] = received[c] + Head(events[c])
            /\ events'[c] = Tail(events[c]) /\ events[c] # <<>>
        BY <2>t, <2>6 DEF ReceiveEvent, BenchTypeOK
      <3>2. events[c] \in Seq(0 .. MessagesPerClient) /\ IsFiniteSet(seen[c])
        <4>1. seen[c] \in SUBSET Index
          BY <2>t DEF BenchTypeOK
        <4>. QED  BY <2>t, <4>1, IndicesCounted DEF BenchTypeOK
      <3>3. Tally(seen[c], received[c], events[c])
        BY <1>n, <2>6, <3>1 DEF TallyInv
      <3>. QED  BY <2>t, <2>6, <3>1, <3>2, <3>3, TallyHead
    <2>. QED  BY <1>n, <2>1, <2>2, <2>3, <2>4, <2>5, <2>6
              DEF ClientNext, NodeNext, SubscribeFails, SubmitFails, ReceiveFails,
                  Fail, ReceivedAll
  <1>. QED  BY <1>u, <1>n DEF BenchNext, TallyInv

\* A round that succeeds has brought every statement of the neighbour, unless the
\* node pushed one of them twice: received_count alone tells.
THEOREM RoundsAreComplete == BenchSpec => CompleteRounds
  <1>. DEFINE Complete == \A c \in Client :
                successes'[c] # successes[c] => repeated[c] \/ seen[c] = Index
  <1>1. BenchTypeInv /\ TallyInv /\ [BenchNext]_benchVars => [Complete]_benchVars
    <2>. SUFFICES ASSUME BenchTypeInv, TallyInv, BenchNext, NEW d \in Client,
                         successes'[d] # successes[d], ~repeated[d]
                  PROVE  seen[d] = Index
      OBVIOUS
    <2>1. PICK c \in Client : ClientNext(c) \/ NodeNext(c)
      BY DEF BenchNext
    <2>2. d = c
      BY <2>1, BenchOthers
    <2>3. ReceivedAll(c)
      BY <2>1, <2>2 DEF ClientNext, NodeNext, Synchronise, Arrive, Released, TimerFires,
         RecordSyncTimeout, CheckPeers, SubscribeFails, SubmitFails, ReceiveFails,
         Fail, FailRound, ExecutePanics, Panics, Accept, Subscribe, Submit,
         ReceiveEvent, Deliver, vars
    <2>4. received[c] >= MessagesPerClient /\ seen[c] \in SUBSET Index
      BY <2>3 DEF ReceivedAll, BenchTypeInv, BenchTypeOK
    <2>5. PICK counted \in SUBSET seen[c] : Cardinality(counted) = received[c]
      BY <2>2 DEF TallyInv, Tally
    <2>6. counted = Index
      BY <2>4, <2>5, IndicesCounted
    <2>. QED  BY <2>2, <2>4, <2>6
  <1>2. BenchInv => BenchTypeInv
    BY DEF BenchInv
  <1>3. BenchSpec => []BenchTypeInv
    BY <1>2, BenchInvariance, PTL
  <1>4. BenchSpec => []TallyInv
    BY <1>3, TallyInit, TallyStep, PTL DEF BenchSpec
  <1>. QED  BY <1>1, <1>3, <1>4, PTL DEF BenchSpec, CompleteRounds

-----------------------------------------------------------------------------
(* What main reports. *)

\* The clients before the j-th with something to report.
Told(j) == {c \in Client : c < j /\ (pc[c] = "panicked" \/ failures[c] # <<>>)}

\* What has been collected is what the clients joined have left, all of which have
\* ended; the report is about all of it.
MainInv ==
  /\ joined \in 0 .. N
  /\ allSuccesses \subseteq Client \X Round
  /\ allFailures \in Seq(ReportedKind)
  /\ ~Spawned =>
       joined = 0 /\ allFailures = <<>> /\ allSuccesses = {} /\ report = NoReport
  /\ \A c \in Client : c < joined => pc[c] \in {"done", "panicked"}
  /\ \A c \in Client, r \in Round :
       <<c, r>> \in allSuccesses <=> c < joined /\ pc[c] = "done" /\ r \in successes[c]
  /\ Len(allFailures) >= Cardinality(Told(joined))
  /\ joined = N /\ exit \in {"success", "failure"} =>
       report = [failedClients |-> Len(allFailures),
                 roundsWithAnySuccess |->
                   Cardinality({success[2] : success \in allSuccesses})]
  /\ exit = "success" => ~(allFailures # <<>> /\ allSuccesses = {})

LEMMA ToldFinite == IsFiniteSet(Told(joined)) /\ Cardinality(Told(joined)) \in Nat
  BY ClientsCounted, FS_Subset, FS_CardinalityType DEF Told

LEMMA MainStart == MainInit => MainInv
  <1>. SUFFICES ASSUME MainInit PROVE MainInv
    OBVIOUS
  <1>1. Told(joined) = {} /\ Client = 0 .. N - 1 /\ N \in Nat
    BY ParametersAssumption DEF MainInit, Told, Client
  <1>2. allFailures = <<>> /\ allSuccesses = {} /\ joined = 0 /\ exit = "starting"
    BY DEF MainInit
  <1>3. Len(allFailures) >= Cardinality(Told(joined))
    BY <1>1, <1>2, FS_EmptySet
  <1>4. allFailures \in Seq(ReportedKind) /\ report = NoReport /\ ~Spawned
    BY <1>2 DEF MainInit, Spawned
  <1>. QED  BY <1>1, <1>2, <1>3, <1>4 DEF MainInv

\* Whoever has ended stays as it is.
LEMMA EndedStays ==
  ASSUME TypeInv, Next, NEW c \in Client, pc[c] \in {"done", "panicked"}
  PROVE  UNCHANGED <<pc[c], successes[c], failures[c]>>
  BY DEF Next, Advance, RunClient, Arrive, Released, TimerFires, RecordSyncTimeout, Publish,
         RoundSucceeds, SucceedRound, RoundFails, FailRound, Panics, CheckPeers,
         EnterNextRound, Goto, PushFailure, TypeInv, TypeOK

\* One more client joined.
LEMMA ToldNext ==
  ASSUME MainInv, joined < N
  PROVE  /\ joined \in Client
         /\ Cardinality(Told(joined + 1)) <= Cardinality(Told(joined)) + 1
         /\ ~(pc[joined] = "panicked" \/ failures[joined] # <<>>) =>
              Told(joined + 1) = Told(joined)
  <1>1. joined \in Client /\ joined \in Nat /\ Client \subseteq Nat
    BY ParametersAssumption DEF MainInv, Client
  <1>2. \A c \in Client : c < joined + 1 <=> c < joined \/ c = joined
    BY <1>1
  <1>3. CASE pc[joined] = "panicked" \/ failures[joined] # <<>>
    <2>0. \A c \in Client : c \in Told(joined + 1) <=> c \in Told(joined) \/ c = joined
      BY <1>2, <1>3 DEF Told
    <2>1. Told(joined + 1) = Told(joined) \cup {joined} /\ joined \notin Told(joined)
      <3>1. /\ Told(joined) \subseteq Client /\ Told(joined + 1) \subseteq Client
            /\ joined \notin Told(joined)
        BY <1>1 DEF Told
      <3>. QED  BY <1>1, <2>0, <3>1
    <2>2. Cardinality(Told(joined) \cup {joined}) = Cardinality(Told(joined)) + 1
      BY <2>1, ToldFinite, FS_AddElement
    <2>3. Cardinality(Told(joined + 1)) = Cardinality(Told(joined)) + 1
      BY <2>1, <2>2
    <2>4. Cardinality(Told(joined)) \in Nat
      BY ToldFinite
    <2>. QED  BY <1>1, <1>3, <2>3, <2>4
  <1>4. CASE ~(pc[joined] = "panicked" \/ failures[joined] # <<>>)
    <2>1. Told(joined + 1) = Told(joined)
      BY <1>1, <1>2, <1>4 DEF Told
    <2>. QED  BY <1>1, <2>1, ToldFinite
  <1>. QED  BY <1>3, <1>4

LEMMA JoinStep == TypeInv /\ MainInv /\ Join => MainInv'
  <1>. SUFFICES ASSUME TypeInv, MainInv, Join PROVE MainInv'
    OBVIOUS
  <1>t. /\ joined \in Nat /\ joined < N /\ N \in Nat /\ joined' = joined + 1
        /\ joined \in Client /\ Client \subseteq Nat
        /\ exit = "running" /\ exit' = exit
        /\ failures[joined] \in Seq(FailureKind) /\ successes[joined] \subseteq Round
        /\ UNCHANGED <<pc, successes, failures>>
        /\ allFailures \in Seq(ReportedKind)
    BY ToldNext, ParametersAssumption
       DEF Join, MainInv, Client, vars, TypeInv, TypeOK
  <1>n. /\ Cardinality(Told(joined)) \in Nat /\ Cardinality(Told(joined + 1)) \in Nat
        /\ Len(allFailures) >= Cardinality(Told(joined))
        /\ Cardinality(Told(joined + 1)) <= Cardinality(Told(joined)) + 1
        /\ ~(pc[joined] = "panicked" \/ failures[joined] # <<>>) =>
             Told(joined + 1) = Told(joined)
    <2>1. Cardinality(Told(joined + 1)) \in Nat
      BY ClientsCounted, FS_Subset, FS_CardinalityType DEF Told
    <2>2. Len(allFailures) >= Cardinality(Told(joined))
      BY DEF MainInv
    <2>. QED  BY <1>t, <2>1, <2>2, ToldNext, ToldFinite
  <1>1. /\ allFailures' \in Seq(ReportedKind)
        /\ Len(allFailures') >= Cardinality(Told(joined + 1))
    <2>1. CASE pc[joined] = "done" /\ allFailures' = allFailures \o failures[joined]
      <3>1. /\ allFailures' \in Seq(ReportedKind)
            /\ Len(allFailures') = Len(allFailures) + Len(failures[joined])
            /\ failures[joined] # <<>> => Len(failures[joined]) >= 1
        BY <1>t, <2>1 DEF ReportedKind
      <3>. QED  BY <1>t, <1>n, <2>1, <3>1
    <2>2. CASE allFailures' = allFailures \o JoinErrors
      <3>1. /\ allFailures' \in Seq(ReportedKind)
            /\ Len(allFailures') = Len(allFailures) + 1
        BY <1>t, <2>2 DEF ReportedKind, JoinErrors
      <3>. QED  BY <1>t, <1>n, <3>1
    <2>. QED  BY <2>1, <2>2 DEF Join
  <1>2. Told(joined)' = Told(joined + 1)
    BY <1>t DEF Told
  <1>3. /\ allSuccesses' \subseteq Client \X Round
        /\ \A c \in Client, r \in Round :
             <<c, r>> \in allSuccesses' <=>
               c < joined + 1 /\ pc[c] = "done" /\ r \in successes[c]
    <2>1. CASE pc[joined] = "done" /\
               allSuccesses' = allSuccesses \cup ({joined} \X successes[joined])
      BY <1>t, <2>1 DEF MainInv
    <2>2. CASE pc[joined] = "panicked" /\ UNCHANGED allSuccesses
      BY <1>t, <2>2 DEF MainInv
    <2>. QED  BY <2>1, <2>2 DEF Join
  <1>4. \A c \in Client : c < joined + 1 => pc[c] \in {"done", "panicked"}
    BY <1>t DEF MainInv, Join
  <1>. QED  BY <1>t, <1>1, <1>2, <1>3, <1>4 DEF MainInv, Spawned

LEMMA MainStep == TypeInv /\ MainInv /\ [MainNext]_allVars => MainInv'
  <1>. SUFFICES ASSUME TypeInv, MainInv, [MainNext]_allVars PROVE MainInv'
    OBVIOUS
  <1>u. CASE UNCHANGED allVars
    BY <1>u DEF allVars, vars, mainVars, MainInv, Told, Spawned
  <1>1. CASE ParseMessagesPattern \/ ConnectToEndpoints
    <2>1. /\ exit \in {"starting", "connecting"}
          /\ exit' \in {"connecting", "running", "failure"}
          /\ UNCHANGED <<vars, joined, allSuccesses, allFailures, report>>
      BY <1>1 DEF ParseMessagesPattern, ConnectToEndpoints, GoOn
    <2>2. /\ joined = 0 /\ allFailures = <<>> /\ allSuccesses = {}
          /\ report = NoReport
      BY <2>1 DEF MainInv, Spawned
    <2>3. report' = [failedClients |-> Len(allFailures),
                     roundsWithAnySuccess |->
                       Cardinality({success[2] : success \in allSuccesses})]
      <3>1. {success[2] : success \in allSuccesses} = {} /\ Len(allFailures) = 0
        BY <2>2
      <3>. QED  BY <2>1, <2>2, <3>1, FS_EmptySet DEF NoReport
    <2>4. Told(joined)' = Told(joined)
      BY <2>1 DEF Told, vars
    <2>. QED  BY <2>1, <2>2, <2>3, <2>4 DEF MainInv, Spawned, vars
  <1>2. CASE Join
    BY <1>2, JoinStep
  <1>3. CASE ReportAndExit
    <2>1. Told(joined)' = Told(joined)
      BY <1>3 DEF ReportAndExit, Told, vars
    <2>. QED  BY <1>3, <2>1 DEF ReportAndExit, MainInv, Spawned, vars
  <1>4. CASE ClientStep
    <2>1. \A c \in Client : c < joined => UNCHANGED <<pc[c], successes[c], failures[c]>>
      BY <1>4, EndedStays DEF ClientStep, MainInv
    <2>2. UNCHANGED mainVars
      BY <1>4 DEF ClientStep
    <2>3. Told(joined)' = Told(joined)
      BY <2>1, <2>2 DEF Told, mainVars
    <2>. QED  BY <2>1, <2>2, <2>3 DEF MainInv, mainVars, Spawned
  <1>. QED  BY <1>u, <1>1, <1>2, <1>3, <1>4 DEF MainNext, Main

\* What main reports, and the status it exits with, are true of the tasks, for any
\* failures and panics in any order: a run reported without failures is complete,
\* no failure and no success is lost, and success means that a round completed.
THEOREM ReportIsTrue == MainSpec => []ReportTrue
  <1>1. MainInit => TypeInv /\ Accounts
    BY TypeInit, AccountsInit DEF MainInit
  <1>2. TypeInv /\ Accounts /\ [MainNext]_allVars => (TypeInv /\ Accounts)'
    <2>. SUFFICES ASSUME [MainNext]_allVars PROVE [Next]_vars
      BY TypeStep, AccountsStep
    <2>. QED  BY DEF MainNext, Main, ParseMessagesPattern, ConnectToEndpoints, GoOn,
                     Join, ReportAndExit, ClientStep, allVars
  <1>3. TypeInv /\ Accounts /\ MainInv => ReportTrue
    <2>. SUFFICES ASSUME TypeInv, Accounts, MainInv, joined = N,
                         exit \in {"success", "failure"}
                  PROVE  CleanReportMeansAllRounds /\ NothingLost /\ ExitMeansProgress
      BY DEF ReportTrue
    <2>t. /\ N \in Nat /\ \A c \in Client : c < joined
          /\ NumRounds \in Nat
      BY ParametersAssumption DEF Client
    <2>r. /\ report.failedClients = Len(allFailures)
          /\ report.roundsWithAnySuccess =
               Cardinality({success[2] : success \in allSuccesses})
      BY DEF MainInv
    <2>n. Len(allFailures) \in Nat /\ Len(allFailures) >= Cardinality(Told(joined))
      BY DEF MainInv
    <2>1. CleanReportMeansAllRounds
      <3>. SUFFICES ASSUME allFailures = <<>>, NEW c \in Client
                    PROVE  successes[c] = Round
        BY DEF CleanReportMeansAllRounds
      <3>1. Cardinality(Told(joined)) = 0
        BY <2>n, ToldFinite
      <3>2. Told(joined) = {}
        BY <3>1, ToldFinite, FS_EmptySet
      <3>3. pc[c] = "done" /\ failures[c] = <<>>
        BY <2>t, <3>2 DEF Told, MainInv
      <3>4. round[c] = NumRounds /\ Cardinality(Lost(c)) = 0
        BY <3>3 DEF Accounts, AccountInv, StopsEarly
      <3>5. Lost(c) = {}
        BY <3>4, LostFinite, FS_EmptySet DEF TypeInv
      <3>. QED  BY <3>4, <3>5 DEF Lost, Round, Accounts, AccountInv
    <2>2. NothingLost
      <3>1. stored \cup {c \in Client : pc[c] = "panicked"} \subseteq Told(joined)
        BY <2>t DEF Told, Accounts, AccountInv, TypeInv, TypeOK
      <3>2. Cardinality(stored \cup {c \in Client : pc[c] = "panicked"})
              \in 0 .. Cardinality(Told(joined))
        BY <3>1, ToldFinite, FS_Subset, FS_CardinalityType
      <3>3. \A c \in Client, r \in Round :
              (<<c, r>> \in allSuccesses) <=> (pc[c] = "done" /\ r \in successes[c])
        BY <2>t DEF MainInv
      <3>. QED  BY <2>n, <2>r, <3>2, <3>3, ToldFinite DEF NothingLost
    <2>3. ExitMeansProgress
      <3>. SUFFICES ASSUME exit = "success", N > 0, NumRounds > 0
                    PROVE  Cardinality({success[2] : success \in allSuccesses}) > 0
        BY <2>r DEF ExitMeansProgress
      <3>1. PICK pair : pair \in allSuccesses
        <4>1. CASE allSuccesses # {}
          BY <4>1
        <4>2. CASE allFailures = <<>>
          <5>1. 0 \in Client /\ 1 \in Round
            BY <2>t DEF Client, Round
          <5>2. successes[0] = Round
            BY <2>1, <4>2, <5>1 DEF CleanReportMeansAllRounds
          <5>3. Told(joined) = {}
            BY <2>n, <4>2, ToldFinite, FS_EmptySet
          <5>4. pc[0] = "done"
            BY <2>t, <5>1, <5>3 DEF Told, MainInv
          <5>5. <<0, 1>> \in allSuccesses
            BY <2>t, <5>1, <5>2, <5>4 DEF MainInv
          <5>. QED  BY <5>5
        <4>. QED  BY <4>1, <4>2 DEF MainInv
      <3>. DEFINE R == {success[2] : success \in allSuccesses}
      <3>2. R \subseteq 1 .. NumRounds /\ pair[2] \in R
        BY <3>1 DEF MainInv, Round
      <3>3. IsFiniteSet(R)
        <4>1. IsFiniteSet(1 .. NumRounds)
          BY <2>t, FS_Interval
        <4>. HIDE DEF R
        <4>. QED  BY <3>2, <4>1, FS_Subset
      <3>4. Cardinality(R) \in Nat /\ Cardinality(R) # 0
        BY <3>2, <3>3, FS_EmptySet, FS_CardinalityType
      <3>. QED  BY <3>4
    <2>. QED  BY <2>1, <2>2, <2>3
  <1>4. MainInit /\ [][MainNext]_allVars => [](TypeInv /\ Accounts)
    BY <1>1, <1>2, PTL
  <1>5. MainInit /\ [][MainNext]_allVars => []MainInv
    BY <1>4, MainStart, MainStep, PTL
  <1>. QED  BY <1>3, <1>4, <1>5, PTL DEF MainSpec
=============================================================================
