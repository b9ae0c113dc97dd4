------------------------------- MODULE Cohort -------------------------------
(***************************************************************************)
(* The clients of statement-latency-bench (src/src/bench.rs).  Every       *)
(* client runs run_client as a task of its own: it synchronises at a       *)
(* startup barrier, then runs its rounds, and between two rounds consults  *)
(* the shared peer_failed flag and waits at the same barrier again.  A     *)
(* round (execute_round) is seen here only through what other clients can  *)
(* observe of it: statements are published, and the round succeeds, fails  *)
(* with some FailureKind, or the task panics.  LatencyBench details it.    *)
(*                                                                         *)
(* External code modelled from its use: tokio's Barrier (arrived,          *)
(* generation, ticket) and timeout.                                        *)
(***************************************************************************)
EXTENDS Integers, Sequences, FiniteSets, Functions

CONSTANTS
  N,                  \* number of clients (--num-clients)
  NumRounds,          \* --num-rounds
  MessagesPerClient,  \* messages_per_client(--messages-pattern)
  FailFast            \* --fail-fast

ASSUME ParametersAssumption ==
  /\ N \in Nat
  /\ NumRounds \in Nat
  /\ MessagesPerClient \in Nat
  /\ FailFast \in BOOLEAN

Client == 0 .. (N - 1)
Round == 1 .. NumRounds

\* Mutant of Neighbour: the ring is off by one, everybody reads from itself.
OwnNeighbour(c) == c % N

\* main: each client subscribes to the next one in the ring.
Neighbour(c) == (c + 1) % N

\* The FailureKinds a client can push; "RoundFailed" stands for the six that
\* execute_round returns.
FailureKind ==
  {"RoundFailed", "PeerFailed", "InterRoundSyncTimeout", "StartupSyncTimeout"}

VARIABLES
  pc,          \* where each client is in run_client
  round,       \* the round it is in, 0 before the first one
  successes,   \* the rounds whose RoundStats it has pushed
  failures,    \* the failures it has pushed, in order
  published,   \* the rounds of which the nodes hold statements of this client
  stored,      \* the clients that have executed peer_failed.store(true)
  arrived,     \* Barrier: arrivals counted in the current generation
  generation,  \* Barrier: the current generation
  ticket       \* the generation in which a client last arrived

barrierVars == <<arrived, generation, ticket>>
vars == <<pc, round, successes, failures, published, stored, barrierVars>>

Location ==
  {"arriving",   \* about to poll barrier.wait() for the first time
   "waiting",    \* counted by the barrier, the timer running
   "expired",    \* timeout() has returned Err, not yet acted upon
   "inRound",    \* inside execute_round
   "checking",   \* round succeeded, about to load peer_failed
   "done",       \* run_client has returned
   "panicked"}   \* the task has panicked

TypeOK ==
  /\ pc \in [Client -> Location]
  /\ round \in [Client -> 0 .. NumRounds]
  /\ successes \in [Client -> SUBSET Round]
  /\ failures \in [Client -> Seq(FailureKind)]
  /\ published \in [Client -> SUBSET Round]
  /\ stored \in SUBSET Client
  /\ arrived \in Nat
  /\ generation \in Nat \ {0}
  /\ ticket \in [Client -> Nat]

Init ==
  /\ pc = [c \in Client |-> "arriving"]
  /\ round = [c \in Client |-> 0]
  /\ successes = [c \in Client |-> {}]
  /\ failures = [c \in Client |-> <<>>]
  /\ published = [c \in Client |-> {}]
  /\ stored = {}
  /\ arrived = 0
  /\ generation = 1
  /\ ticket = [c \in Client |-> 0]

-----------------------------------------------------------------------------
(* The loop of run_client. *)

Goto(c, location) == pc' = [pc EXCEPT ![c] = location]

\* Mutant of EnterNextRound: one round too many.
EnterExtraRound(c) ==
  IF round[c] <= NumRounds
  THEN Goto(c, "inRound") /\ round' = [round EXCEPT ![c] = @ + 1]
  ELSE Goto(c, "done") /\ UNCHANGED round

\* The head of `for round in 1..(num_rounds + 1)`.
EnterNextRound(c) ==
  IF round[c] < NumRounds
  THEN Goto(c, "inRound") /\ round' = [round EXCEPT ![c] = @ + 1]
  ELSE Goto(c, "done") /\ UNCHANGED round

PushFailure(c, kind) == failures' = [failures EXCEPT ![c] = Append(@, kind)]

\* peer_failed.store(true).  The flag is kept as the set of its writers.
StorePeerFailed(c) == stored' = stored \cup {c}

\* What a relaxed load of peer_failed may return: a client sees its own store,
\* that of another client only once it has become visible.
LoadPeerFailed(c) ==
  IF c \in stored THEN {TRUE} ELSE {b \in BOOLEAN : b => stored # {}}

-----------------------------------------------------------------------------
(* The barrier, once per client at startup and after every round but the   *)
(* last.  Dropping a wait that timed out leaves its arrival counted.       *)

\* Mutant of Arrive: opening the barrier does not reset what it has counted.
ArriveWithoutReset(c) ==
  /\ pc[c] = "arriving"
  /\ ticket' = [ticket EXCEPT ![c] = generation]
  /\ arrived' = arrived + 1
  /\ IF arrived + 1 = N
     THEN generation' = generation + 1 /\ EnterNextRound(c)
     ELSE Goto(c, "waiting") /\ UNCHANGED <<round, generation>>
  /\ UNCHANGED <<successes, failures, published, stored>>

\* Mutant of Arrive: the barrier is made for one client.
ArriveAlone(c) ==
  /\ pc[c] = "arriving"
  /\ ticket' = [ticket EXCEPT ![c] = generation]
  /\ generation' = generation + 1
  /\ EnterNextRound(c)
  /\ UNCHANGED <<successes, failures, published, stored, arrived>>

\* The first poll of barrier.wait(): the N-th arrival opens the barrier and
\* goes on, every other one waits with a ticket for the current generation.
Arrive(c) ==
  /\ pc[c] = "arriving"
  /\ ticket' = [ticket EXCEPT ![c] = generation]
  /\ IF arrived + 1 = N
     THEN /\ arrived' = 0
          /\ generation' = generation + 1
          /\ EnterNextRound(c)
     ELSE /\ arrived' = arrived + 1
          /\ Goto(c, "waiting")
          /\ UNCHANGED <<round, generation>>
  /\ UNCHANGED <<successes, failures, published, stored>>

\* The wait resolves once the generation of its ticket is over.
Released(c) ==
  /\ pc[c] = "waiting"
  /\ ticket[c] < generation
  /\ EnterNextRound(c)
  /\ UNCHANGED <<successes, failures, published, stored, barrierVars>>

\* Mutant of TimerFires: barrier.wait() without a timeout.
TimerNeverFires(c) == pc[c] = "expired" /\ UNCHANGED vars

\* timeout() polls the wait before its timer, so only an unreleased wait can
\* expire.  Acting upon it is a later step: the barrier may open in between.
TimerFires(c) ==
  /\ pc[c] = "waiting"
  /\ ticket[c] = generation
  /\ Goto(c, "expired")
  /\ UNCHANGED <<round, successes, failures, published, stored, barrierVars>>

\* Mutant of RecordSyncTimeout: the result does not mention the timeout.
LeaveOnSyncTimeout(c) ==
  /\ pc[c] = "expired"
  /\ StorePeerFailed(c)
  /\ Goto(c, "done")
  /\ UNCHANGED <<round, successes, failures, published, barrierVars>>

\* The failure branches of the two barrier waits: they push, store and leave.
RecordSyncTimeout(c) ==
  /\ pc[c] = "expired"
  /\ PushFailure(c, IF round[c] = 0
                    THEN "StartupSyncTimeout" ELSE "InterRoundSyncTimeout")
  /\ StorePeerFailed(c)
  /\ Goto(c, "done")
  /\ UNCHANGED <<round, successes, published, barrierVars>>

-----------------------------------------------------------------------------
(* A round, and the two ways in which run_client handles its result. *)

SucceedRound(c) ==
  /\ successes' = [successes EXCEPT ![c] = @ \cup {round[c]}]
  /\ Goto(c, IF round[c] < NumRounds THEN "checking" ELSE "done")
  /\ UNCHANGED <<round, failures, published, stored, barrierVars>>

\* Mutant of FailRound: without the `continue`, a failed client synchronises.
FailRoundAndSynchronise(c) ==
  /\ PushFailure(c, "RoundFailed")
  /\ StorePeerFailed(c)
  /\ Goto(c, IF FailFast \/ round[c] = NumRounds THEN "done" ELSE "arriving")
  /\ UNCHANGED <<round, successes, published, barrierVars>>

\* A failed round skips the pause, the flag and the barrier.
FailRound(c) ==
  /\ PushFailure(c, "RoundFailed")
  /\ StorePeerFailed(c)
  /\ IF FailFast
     THEN Goto(c, "done") /\ UNCHANGED round
     ELSE EnterNextRound(c)
  /\ UNCHANGED <<successes, published, barrierVars>>

\* A node accepts the first of the client's statements of a round, of this one or
\* late, of one that has failed.
Publish(c) ==
  /\ MessagesPerClient > 0
  /\ \E r \in (1 .. round[c]) \ successes[c] :
       r \notin published[c] /\ published' = [published EXCEPT ![c] = @ \cup {r}]
  /\ UNCHANGED <<pc, round, successes, failures, stored, barrierVars>>

\* The topics subscribed to are those of the neighbour in this very round: if
\* statements are expected, the neighbour has published some.
RoundSucceeds(c) ==
  /\ pc[c] = "inRound"
  /\ MessagesPerClient > 0 => round[c] \in published[Neighbour(c)]
  /\ SucceedRound(c)

RoundFails(c) ==
  /\ pc[c] = "inRound"
  /\ FailRound(c)

\* Inside a round a task can panic: a clock before 1970, or the product
\* (sent_count + 1) * round when overflow checks are on.  The flag stays as is.
Panics(c) ==
  /\ pc[c] = "inRound"
  /\ MessagesPerClient > 0
  /\ Goto(c, "panicked")
  /\ UNCHANGED <<round, successes, failures, published, stored, barrierVars>>

\* Mutant of CheckPeers: no barrier between rounds.
CheckPeersAndGoOn(c) ==
  /\ pc[c] = "checking"
  /\ \E peerFailed \in LoadPeerFailed(c) :
       IF peerFailed
       THEN PushFailure(c, "PeerFailed") /\ Goto(c, "done") /\ UNCHANGED round
       ELSE EnterNextRound(c) /\ UNCHANGED failures
  /\ UNCHANGED <<successes, published, stored, barrierVars>>

\* After a successful round: stop if peer_failed is seen set, else go and wait.
CheckPeers(c) ==
  /\ pc[c] = "checking"
  /\ \E peerFailed \in LoadPeerFailed(c) :
       IF peerFailed
       THEN PushFailure(c, "PeerFailed") /\ Goto(c, "done")
       ELSE Goto(c, "arriving") /\ UNCHANGED failures
  /\ UNCHANGED <<round, successes, published, stored, barrierVars>>

-----------------------------------------------------------------------------
RunClient(c) ==
  \/ Arrive(c)
  \/ Released(c)
  \/ TimerFires(c)
  \/ RecordSyncTimeout(c)
  \/ RoundSucceeds(c)
  \/ RoundFails(c)
  \/ Panics(c)
  \/ CheckPeers(c)

Advance(c) == RunClient(c) \/ Publish(c)

Next == \E c \in Client : Advance(c)

Spec == Init /\ [][Next]_vars

\* Each task is polled by the runtime, and everything it awaits resolves: the
\* barrier and the receive loop have timers, RPC requests jsonrpsee's.  Nothing is
\* assumed of the nodes.
Fairness == \A c \in Client : WF_vars(RunClient(c))

FairSpec == Spec /\ Fairness

-----------------------------------------------------------------------------
(* Properties. *)

Running(c) == pc[c] \in {"arriving", "waiting", "inRound", "checking"}

\* What the barrier has counted is exactly the clients whose last arrival was
\* in the current generation, those that timed out and left included; the
\* N-th of them never stays counted.
BarrierAccounting ==
  /\ arrived = Cardinality({c \in Client : ticket[c] = generation})
  /\ N > 0 => arrived < N

\* Rounds are aligned although peer_failed is a hint that may be read stale and
\* waiters abandon the barrier: a client that has not failed starts round r
\* only when every client, failed ones included, has succeeded in all rounds
\* before r.
BarrierSound ==
  \A c \in Client :
    Running(c) /\ c \notin stored =>
      \A d \in Client : 1 .. (round[c] - 1) \subseteq successes[d]

\* A client reports PeerFailed only when a peer has failed: in a ring of two or
\* more, a client that failed a round and went on alone cannot succeed in a
\* later one, and so stop on its own flag, unless a peer has failed as well.
PeerFailedMeansPeer ==
  \A c \in Client :
    (\E i \in DOMAIN failures[c] : failures[c][i] = "PeerFailed") =>
      \E d \in stored : d # c

\* The results of a client that has returned account for each of its rounds
\* exactly once: there is one failure per round that did not succeed, a failed
\* round is not counted as a synchronisation timeout in addition, and a client
\* that leaves before the last round says why.
StopsEarly(c) ==
  /\ failures[c] # <<>>
  /\ failures[c][Len(failures[c])] # "RoundFailed"

RoundsAccounted ==
  \A c \in Client : pc[c] = "done" =>
    /\ LET lost == (1 .. round[c]) \ successes[c]
       IN  IF StopsEarly(c)
           THEN Len(failures[c]) = Cardinality(lost) + 1 /\ round[c] \notin lost
           ELSE Len(failures[c]) = Cardinality(lost)
                  /\ (round[c] = NumRounds \/ FailFast)
    /\ \A i \in 1 .. (Len(failures[c]) - 1) : failures[c][i] = "RoundFailed"

\* A client that has failed never takes part in the barrier again: its stale
\* arrival may count once, it never counts twice.
FailedStaysAway ==
  [][\A c \in stored : ticket'[c] = ticket[c]]_vars

\* Whatever its peers do, crash included, every client returns.
Termination == \A c \in Client : <>[](pc[c] \in {"done", "panicked"})

-----------------------------------------------------------------------------
(* The inductive invariant behind BarrierSound and PeerFailedMeansPeer.     *)

\* Where a client stands with the barrier: nobody is more than one generation
\* behind, tickets count the rounds completed, and a client that has not failed
\* holds the ticket of its round.
TicketInv(c) ==
  /\ ticket[c] <= generation
  /\ ticket[c] >= generation - 1
  /\ 1 .. (ticket[c] - 1) \subseteq successes[c]
  /\ c \notin stored => round[c] < generation
  /\ c \notin stored /\ pc[c] \in {"arriving", "inRound", "checking"}
       => ticket[c] = round[c]
  /\ pc[c] \in {"waiting", "expired"} => ticket[c] = round[c] + 1
  /\ pc[c] \in {"arriving", "waiting", "expired"} => c \notin stored

\* Rounds are numbered from 1 once a client is in the loop.
InLoop == \A c \in Client : pc[c] \in {"inRound", "checking"} => round[c] > 0

\* Where it stands with its rounds: after a failure it runs ahead of its ticket.
RoundInv(c) ==
  /\ pc[c] \in {"arriving", "checking"} /\ round[c] > 0
       => round[c] \in successes[c]
  /\ pc[c] \in {"inRound", "checking"} /\ c \in stored => round[c] > ticket[c]
  /\ published[c] \subseteq 1 .. round[c]

\* A client that failed and then succeeded in a round of its own has a peer
\* that failed.
PeerInv(c) ==
  pc[c] = "checking" /\ c \in stored => \E d \in stored : d # c

IndInv ==
  /\ InLoop
  /\ BarrierAccounting
  /\ \A c \in Client : TicketInv(c) /\ RoundInv(c)

RingInv == (\A c \in Client : PeerInv(c)) /\ PeerFailedMeansPeer
=============================================================================
