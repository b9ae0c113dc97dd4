---------------------------- MODULE CohortProofs ----------------------------
(***************************************************************************)
(* Proofs about Cohort, for every number of clients and rounds.            *)
(***************************************************************************)
EXTENDS CohortLockstep, FiniteSetTheorems, TLAPS

\* There are N clients.
LEMMA ClientsCounted == IsFiniteSet(Client) /\ Cardinality(Client) = N
  <1>1. IsFiniteSet(0 .. (N-1)) /\ Cardinality(0 .. (N-1)) =
          IF 0 > N-1 THEN 0 ELSE (N-1) - 0 + 1
    BY FS_Interval, ParametersAssumption
  <1>. QED  BY <1>1, ParametersAssumption DEF Client

\* In a ring of two or more a client has another client as its neighbour.
LEMMA NeighbourIsPeer ==
  ASSUME N # 1, NEW c \in Client
  PROVE  Neighbour(c) \in Client /\ Neighbour(c) # c
  <1>. N \in Nat /\ c \in 0 .. (N-1)
    BY ParametersAssumption DEF Client
  <1>1. CASE c + 1 < N
    <2>1. (c + 1) % N = c + 1
      BY <1>1
    <2>. QED  BY <1>1, <2>1 DEF Client, Neighbour
  <1>2. CASE c + 1 = N
    <2>1. (c + 1) % N = 0
      BY <1>2
    <2>. QED  BY <1>2, <2>1 DEF Client, Neighbour
  <1>. QED  BY <1>1, <1>2

-----------------------------------------------------------------------------
(* Type correctness. *)

TypeInv == TypeOK /\ InLoop

LEMMA TypeInit == Init => TypeInv
  BY ParametersAssumption
     DEF Init, TypeInv, TypeOK, InLoop, Location, Client, Round

\* Entering the next round keeps the program counter and the round in type.
LEMMA EnterNextRoundType ==
  ASSUME TypeInv, NEW c \in Client, EnterNextRound(c)
  PROVE  /\ pc' \in [Client -> Location]
         /\ round' \in [Client -> 0 .. NumRounds]
         /\ InLoop'
  <1>1. round \in [Client -> 0 .. NumRounds] /\ pc \in [Client -> Location]
    BY DEF TypeInv, TypeOK
  <1>2. CASE round[c] < NumRounds
    <2>1. round[c] + 1 \in 0 .. NumRounds /\ round[c] + 1 > 0
      BY <1>1, <1>2, ParametersAssumption
    <2>. QED
      BY <1>1, <1>2, <2>1 DEF EnterNextRound, Goto, Location, TypeInv, InLoop
  <1>3. CASE ~(round[c] < NumRounds)
    BY <1>1, <1>3 DEF EnterNextRound, Goto, Location, TypeInv, InLoop
  <1>. QED  BY <1>2, <1>3

LEMMA TypeStep == TypeInv /\ [Next]_vars => TypeInv'
  <1>. SUFFICES ASSUME TypeInv, [Next]_vars PROVE TypeInv'
    OBVIOUS
  <1>u. CASE UNCHANGED vars
    BY <1>u DEF vars, barrierVars, TypeInv, TypeOK, InLoop
  <1>n. ASSUME NEW c \in Client, Advance(c) PROVE TypeInv'
    <2>t. round[c] \in 0 .. NumRounds
      BY DEF TypeInv, TypeOK
    <2>1. CASE Arrive(c)
      <3>1. /\ arrived' \in Nat
            /\ generation' \in Nat \ {0}
            /\ ticket' \in [Client -> Nat]
        BY <2>1 DEF Arrive, TypeInv, TypeOK
      <3>2. /\ pc' \in [Client -> Location]
            /\ round' \in [Client -> 0 .. NumRounds]
            /\ InLoop'
        BY <2>1, EnterNextRoundType
           DEF Arrive, TypeInv, TypeOK, InLoop, Goto, Location
      <3>. QED  BY <2>1, <3>1, <3>2 DEF Arrive, TypeInv, TypeOK
    <2>2. CASE Released(c)
      BY <2>2, EnterNextRoundType DEF Released, TypeInv, TypeOK, barrierVars
    <2>3. CASE TimerFires(c)
      BY <2>3 DEF TimerFires, TypeInv, TypeOK, InLoop, barrierVars, Goto,
                  Location
    <2>4. CASE RecordSyncTimeout(c)
      BY <2>4 DEF RecordSyncTimeout, TypeInv, TypeOK, InLoop, barrierVars,
                  Goto, Location, PushFailure, StorePeerFailed, FailureKind
    <2>5. CASE Publish(c)
      <3>1. PICK r \in 1 .. round[c] :
              published' = [published EXCEPT ![c] = published[c] \cup {r}]
        BY <2>5 DEF Publish
      <3>2. r \in Round
        BY <2>t, ParametersAssumption DEF TypeInv, TypeOK, Round
      <3>3. published' \in [Client -> SUBSET Round]
        BY <3>1, <3>2 DEF TypeInv, TypeOK
      <3>. QED  BY <2>5, <3>3 DEF Publish, TypeInv, TypeOK, InLoop, barrierVars
    <2>6. CASE RoundSucceeds(c)
      <3>1. round[c] \in Round
        BY <2>6, <2>t DEF RoundSucceeds, SucceedRound, TypeInv, InLoop, Round
      <3>. QED
        BY <2>6, <3>1 DEF RoundSucceeds, SucceedRound, TypeInv, TypeOK, InLoop,
                          barrierVars,
                          Goto, Location, Round
    <2>7. CASE RoundFails(c)
      <3>1. /\ failures' \in [Client -> Seq(FailureKind)]
            /\ stored' \in SUBSET Client
        BY <2>7 DEF RoundFails, FailRound, TypeInv, TypeOK, PushFailure,
                    StorePeerFailed,
                    FailureKind
      <3>2. /\ pc' \in [Client -> Location]
            /\ round' \in [Client -> 0 .. NumRounds]
            /\ InLoop'
        BY <2>7, EnterNextRoundType
           DEF RoundFails, FailRound, TypeInv, TypeOK, InLoop, Goto, Location
      <3>. QED
        BY <2>7, <3>1, <3>2 DEF RoundFails, FailRound, TypeInv, TypeOK,
                                barrierVars
    <2>8. CASE Panics(c)
      BY <2>8 DEF Panics, TypeInv, TypeOK, InLoop, barrierVars, Goto, Location
    <2>9. CASE CheckPeers(c)
      <3>1. /\ failures' \in [Client -> Seq(FailureKind)]
            /\ pc' \in [Client -> Location]
            /\ InLoop'
        <4>1. CASE PushFailure(c, "PeerFailed") /\ Goto(c, "done")
          BY <2>9, <4>1 DEF CheckPeers, TypeInv, TypeOK, InLoop, Goto,
                            Location, PushFailure, FailureKind
        <4>2. CASE Goto(c, "arriving") /\ UNCHANGED failures
          BY <2>9, <4>2 DEF CheckPeers, TypeInv, TypeOK, InLoop, Goto, Location
        <4>. QED  BY <2>9, <4>1, <4>2 DEF CheckPeers
      <3>. QED  BY <2>9, <3>1 DEF CheckPeers, TypeInv, TypeOK, barrierVars
    <2>. QED  BY <1>n, <2>1, <2>2, <2>3, <2>4, <2>5, <2>6, <2>7, <2>8, <2>9
              DEF Advance, RunClient
  <1>. QED  BY <1>u, <1>n DEF Next

\* Every variable keeps to its type, whatever the clients do.
THEOREM TypeCorrect == Spec => []TypeOK
  <1>1. Init => TypeInv
    BY TypeInit
  <1>2. TypeInv /\ [Next]_vars => TypeInv'
    BY TypeStep
  <1>3. TypeInv => TypeOK
    BY DEF TypeInv
  <1>. QED  BY <1>1, <1>2, <1>3, PTL DEF Spec

-----------------------------------------------------------------------------
(* The barrier. *)

Counted == {c \in Client : ticket[c] = generation}

LEMMA CountedFinite == IsFiniteSet(Counted) /\ Cardinality(Counted) \in Nat
  <1>1. Counted \in SUBSET Client
    BY DEF Counted
  <1>. QED  BY <1>1, ClientsCounted, FS_Subset, FS_CardinalityType

\* One more arrival counts one more client.
LEMMA OneMoreCounted ==
  ASSUME TypeOK, BarrierAccounting, NEW c \in Client, ticket[c] # generation
  PROVE  Cardinality(Counted \cup {c}) = arrived + 1
  <1>1. c \notin Counted
    BY DEF Counted
  <1>2. Cardinality(Counted) = arrived
    BY DEF BarrierAccounting, Counted
  <1>. QED  BY <1>1, <1>2, CountedFinite, FS_AddElement

\* When the last arrival opens the barrier, everybody else is counted.
LEMMA LastArrival ==
  ASSUME TypeOK, BarrierAccounting, NEW c \in Client, ticket[c] # generation,
         arrived + 1 = N
  PROVE  \A d \in Client : d # c => ticket[d] = generation
  <1>1. Counted \cup {c} \in SUBSET Client
    BY DEF Counted
  <1>2. Cardinality(Counted \cup {c}) = N
    BY OneMoreCounted
  <1>3. Counted \cup {c} = Client
    BY <1>1, <1>2, ClientsCounted, FS_Subset
  <1>. QED  BY <1>3 DEF Counted

LEMMA AccountingFrame ==
  ASSUME BarrierAccounting, UNCHANGED barrierVars
  PROVE  BarrierAccounting'
  BY DEF BarrierAccounting, barrierVars

LEMMA IndInit == Init => IndInv
  <1>. SUFFICES ASSUME Init PROVE IndInv
    OBVIOUS
  <1>1. BarrierAccounting
    <2>1. {c \in Client : ticket[c] = generation} = {}
      BY DEF Init
    <2>. QED  BY <2>1, FS_EmptySet, ParametersAssumption
              DEF Init, BarrierAccounting
  <1>2. \A c \in Client : TicketInv(c) /\ RoundInv(c)
    BY DEF Init, TicketInv, RoundInv
  <1>. QED  BY <1>1, <1>2, TypeInit DEF IndInv, TypeInv

\* An arrival keeps the invariant: it either joins the count, or, everybody
\* else being counted, opens the barrier with every ticket in the generation.
LEMMA IndArrive ==
  ASSUME TypeInv, IndInv, NEW c \in Client, Arrive(c)
  PROVE  BarrierAccounting' /\ \A d \in Client : TicketInv(d)' /\ RoundInv(d)'
  <1>t. /\ round \in [Client -> 0 .. NumRounds]
        /\ pc \in [Client -> Location]
        /\ ticket \in [Client -> Nat]
        /\ generation \in Nat \ {0}
        /\ arrived \in Nat
        /\ N \in Nat /\ N > 0
    BY ParametersAssumption DEF TypeInv, TypeOK, Client
  <1>c. /\ ticket[c] = round[c] /\ ticket[c] < generation
        /\ generation = round[c] + 1
    BY <1>t DEF IndInv, TicketInv, Arrive
  <1>a. BarrierAccounting
    BY DEF IndInv
  <1>1. CASE arrived + 1 = N
    <2>1. \A d \in Client : d # c => ticket[d] = generation
      BY <1>1, <1>a, <1>c, <1>t, LastArrival DEF TypeInv
    <2>2. /\ ticket' = [d \in Client |-> generation]
          /\ generation' = generation + 1
      BY <1>1, <1>t, <2>1 DEF Arrive
    <2>3. arrived' = 0 /\ EnterNextRound(c)
      BY <1>1 DEF Arrive
    <2>4. BarrierAccounting'
      <3>1. {d \in Client : ticket'[d] = generation'} = {}
        BY <1>t, <2>2
      <3>. QED  BY <1>t, <2>3, <3>1, FS_EmptySet DEF BarrierAccounting
    <2>5. ASSUME NEW d \in Client PROVE TicketInv(d)' /\ RoundInv(d)'
      <3>1. TicketInv(d) /\ RoundInv(d)
        BY DEF IndInv
      <3>2. UNCHANGED <<successes, stored, published>>
        BY DEF Arrive
      <3>3. CASE d = c
        BY <1>c, <1>t, <2>2, <2>3, <3>1, <3>2, <3>3
           DEF EnterNextRound, Goto, TicketInv, RoundInv, Arrive
      <3>4. CASE d # c
        <4>1. pc'[d] = pc[d] /\ round'[d] = round[d]
          BY <1>t, <2>3, <3>4 DEF EnterNextRound, Goto
        <4>2. ticket'[d] = ticket[d]
          BY <2>1, <2>2, <3>4
        <4>. QED  BY <1>t, <2>1, <2>2, <3>1, <3>2, <3>4, <4>1, <4>2
                  DEF TicketInv, RoundInv
      <3>. QED  BY <3>3, <3>4
    <2>. QED  BY <2>4, <2>5
  <1>2. CASE arrived + 1 # N
    <2>1. /\ arrived' = arrived + 1
          /\ generation' = generation
          /\ ticket' = [ticket EXCEPT ![c] = generation]
          /\ pc' = [pc EXCEPT ![c] = "waiting"]
          /\ UNCHANGED <<round, successes, stored, published>>
      BY <1>2 DEF Arrive, Goto
    <2>2. BarrierAccounting'
      <3>1. {d \in Client : ticket'[d] = generation'} = Counted \cup {c}
        BY <1>t, <2>1 DEF Counted
      <3>2. Cardinality(Counted \cup {c}) = arrived + 1
        BY <1>a, <1>c, <1>t, OneMoreCounted DEF TypeInv
      <3>. QED  BY <1>2, <1>a, <1>t, <2>1, <3>1, <3>2 DEF BarrierAccounting
    <2>3. ASSUME NEW d \in Client PROVE TicketInv(d)' /\ RoundInv(d)'
      <3>1. TicketInv(d) /\ RoundInv(d)
        BY DEF IndInv
      <3>2. CASE d = c
        BY <1>c, <1>t, <2>1, <3>1, <3>2 DEF TicketInv, RoundInv, Arrive
      <3>3. CASE d # c
        BY <1>t, <2>1, <3>1, <3>3 DEF TicketInv, RoundInv
      <3>. QED  BY <3>2, <3>3
    <2>. QED  BY <2>2, <2>3
  <1>. QED  BY <1>1, <1>2

-----------------------------------------------------------------------------
(* The inductive step, one action at a time. *)

\* Steps of c that leave the barrier alone concern only what is said of c.
LEMMA OtherClients ==
  ASSUME TypeInv, IndInv, NEW c \in Client, Advance(c),
         UNCHANGED barrierVars, NEW d \in Client, d # c
  PROVE  TicketInv(d)' /\ RoundInv(d)'
  <1>1. /\ pc'[d] = pc[d]
        /\ round'[d] = round[d]
        /\ successes'[d] = successes[d]
        /\ published'[d] = published[d]
        /\ d \in stored' <=> d \in stored
    BY DEF Advance, RunClient, Arrive, Released, TimerFires, RecordSyncTimeout, Publish,
           RoundSucceeds, SucceedRound, RoundFails, FailRound, Panics,
           CheckPeers, EnterNextRound, Goto,
           StorePeerFailed, TypeInv, TypeOK
  <1>. QED  BY <1>1 DEF IndInv, TicketInv, RoundInv, barrierVars

LEMMA IndStep == TypeInv /\ IndInv /\ [Next]_vars => IndInv'
  <1>. SUFFICES ASSUME TypeInv, IndInv, [Next]_vars PROVE IndInv'
    OBVIOUS
  <1>loop. InLoop'
    BY TypeStep DEF TypeInv
  <1>u. CASE UNCHANGED vars
    <2>1. BarrierAccounting'
      BY <1>u, AccountingFrame DEF IndInv, vars
    <2>2. \A d \in Client : TicketInv(d)' /\ RoundInv(d)'
      BY <1>u DEF IndInv, vars, barrierVars, TicketInv, RoundInv
    <2>. QED  BY <1>loop, <2>1, <2>2 DEF IndInv
  <1>n. ASSUME NEW c \in Client, Advance(c) PROVE IndInv'
    <2>t. /\ round \in [Client -> 0 .. NumRounds] /\ round[c] \in 0 .. NumRounds
          /\ pc \in [Client -> Location]
          /\ ticket[c] \in Nat
          /\ generation \in Nat \ {0}
          /\ successes \in [Client -> SUBSET Round]
          /\ published \in [Client -> SUBSET Round]
          /\ NumRounds \in Nat
      BY ParametersAssumption DEF TypeInv, TypeOK
    <2>i. TicketInv(c) /\ RoundInv(c) /\ InLoop
      BY DEF IndInv
    <2>1. CASE Arrive(c)
      BY <1>loop, <2>1, IndArrive DEF IndInv
    <2>frame. ASSUME UNCHANGED barrierVars, TicketInv(c)', RoundInv(c)'
              PROVE IndInv'
      <3>1. BarrierAccounting'
        BY <2>frame, AccountingFrame DEF IndInv
      <3>2. \A d \in Client : TicketInv(d)' /\ RoundInv(d)'
        BY <1>n, <2>frame, OtherClients
      <3>. QED  BY <1>loop, <3>1, <3>2 DEF IndInv
    <2>2. CASE Released(c)
      <3>1. TicketInv(c)' /\ RoundInv(c)'
        BY <2>t, <2>i, <2>2
           DEF Released, EnterNextRound, Goto, barrierVars, TicketInv, RoundInv
      <3>. QED  BY <2>2, <2>frame, <3>1 DEF Released
    <2>3. CASE TimerFires(c)
      <3>1. TicketInv(c)' /\ RoundInv(c)'
        BY <2>t, <2>i, <2>3
           DEF TimerFires, Goto, barrierVars, TicketInv, RoundInv
      <3>. QED  BY <2>3, <2>frame, <3>1 DEF TimerFires
    <2>4. CASE RecordSyncTimeout(c)
      <3>1. TicketInv(c)' /\ RoundInv(c)'
        BY <2>t, <2>i, <2>4
           DEF RecordSyncTimeout, StorePeerFailed, Goto, barrierVars,
               TicketInv, RoundInv
      <3>. QED  BY <2>4, <2>frame, <3>1 DEF RecordSyncTimeout
    <2>5. CASE Publish(c)
      <3>0. PICK r \in 1 .. round[c] :
              published' = [published EXCEPT ![c] = published[c] \cup {r}]
        BY <2>5 DEF Publish
      <3>p. published'[c] \subseteq 1 .. round[c]
        BY <2>t, <2>i, <3>0 DEF RoundInv
      <3>1. TicketInv(c)' /\ RoundInv(c)'
        BY <2>t, <2>i, <2>5, <3>p
           DEF Publish, barrierVars, TicketInv, RoundInv, InLoop
      <3>. QED  BY <2>5, <2>frame, <3>1 DEF Publish
    <2>6. CASE RoundSucceeds(c)
      <3>1. TicketInv(c)' /\ RoundInv(c)'
        BY <2>t, <2>i, <2>6
           DEF RoundSucceeds, SucceedRound, Goto, barrierVars, TicketInv,
               RoundInv, InLoop
      <3>. QED  BY <2>6, <2>frame, <3>1 DEF RoundSucceeds, SucceedRound
    <2>7. CASE RoundFails(c)
      <3>1. TicketInv(c)' /\ RoundInv(c)'
        BY <2>t, <2>i, <2>7
           DEF RoundFails, FailRound, EnterNextRound, Goto, StorePeerFailed,
               barrierVars,
               TicketInv, RoundInv, InLoop
      <3>. QED  BY <2>7, <2>frame, <3>1 DEF RoundFails, FailRound
    <2>8. CASE Panics(c)
      <3>1. TicketInv(c)' /\ RoundInv(c)'
        BY <2>t, <2>i, <2>8
           DEF Panics, Goto, barrierVars, TicketInv, RoundInv, InLoop
      <3>. QED  BY <2>8, <2>frame, <3>1 DEF Panics
    <2>9. CASE CheckPeers(c)
      <3>1. pc'[c] = "done" \/ (pc'[c] = "arriving" /\ c \notin stored)
        BY <2>t, <2>9 DEF CheckPeers, LoadPeerFailed, Goto
      <3>2. TicketInv(c)' /\ RoundInv(c)'
        BY <2>t, <2>i, <2>9, <3>1
           DEF CheckPeers, barrierVars, TicketInv, RoundInv, InLoop
      <3>. QED  BY <2>9, <2>frame, <3>2 DEF CheckPeers
    <2>. QED  BY <1>n, <2>1, <2>2, <2>3, <2>4, <2>5, <2>6, <2>7, <2>8, <2>9
              DEF Advance, RunClient
  <1>. QED  BY <1>u, <1>n DEF Next

LEMMA Inductive == Spec => [](TypeInv /\ IndInv)
  <1>1. Init => TypeInv /\ IndInv
    BY TypeInit, IndInit
  <1>2. (TypeInv /\ IndInv) /\ [Next]_vars => (TypeInv /\ IndInv)'
    BY TypeStep, IndStep
  <1>. QED  BY <1>1, <1>2, PTL DEF Spec

\* The barrier counts the arrivals of the current generation, those of clients
\* that gave up included, and never keeps N of them.
THEOREM BarrierCounts == Spec => []BarrierAccounting
  <1>1. IndInv => BarrierAccounting
    BY DEF IndInv
  <1>. QED  BY <1>1, Inductive, PTL

LEMMA IndInvImpliesSound == TypeInv /\ IndInv => BarrierSound
  <1>. SUFFICES ASSUME TypeInv, IndInv,
                       NEW c \in Client, Running(c), c \notin stored,
                       NEW d \in Client
                PROVE  1 .. (round[c] - 1) \subseteq successes[d]
    BY DEF BarrierSound
  <1>1. /\ ticket[d] \in Nat /\ round[c] \in Nat /\ generation \in Nat
    BY ParametersAssumption DEF TypeInv, TypeOK
  <1>2. round[c] <= ticket[d]
    <2>1. round[c] < generation
      BY DEF IndInv, TicketInv
    <2>2. ticket[d] >= generation - 1
      BY DEF IndInv, TicketInv
    <2>. QED  BY <1>1, <2>1, <2>2
  <1>3. 1 .. (ticket[d] - 1) \subseteq successes[d]
    BY DEF IndInv, TicketInv
  <1>4. 1 .. (round[c] - 1) \subseteq 1 .. (ticket[d] - 1)
    BY <1>1, <1>2
  <1>. QED  BY <1>3, <1>4

\* A client that has not failed is in round r only when every client has
\* succeeded in all the rounds before r: neither the stale reads of peer_failed
\* nor the arrivals left behind by timeouts can open the barrier too early.
THEOREM BarrierIsSound == Spec => []BarrierSound
  BY Inductive, IndInvImpliesSound, PTL

-----------------------------------------------------------------------------
(* Failed clients and the barrier. *)

\* A client that has failed never arrives at the barrier again.
THEOREM FailedNeverArrive == Spec => FailedStaysAway
  <1>1. TypeInv /\ IndInv /\ [Next]_vars
          => [\A c \in stored : ticket'[c] = ticket[c]]_vars
    <2>. SUFFICES ASSUME TypeInv, IndInv, Next, NEW d \in stored
                  PROVE  ticket'[d] = ticket[d]
      OBVIOUS
    <2>1. d \in Client /\ ticket \in [Client -> Nat]
      BY DEF TypeInv, TypeOK
    <2>2. PICK c \in Client : Advance(c)
      BY DEF Next
    <2>3. CASE Arrive(c)
      <3>1. c # d
        BY <2>1, <2>3 DEF Arrive, IndInv, TicketInv
      <3>. QED  BY <2>1, <2>3, <3>1 DEF Arrive
    <2>4. CASE ~Arrive(c)
      BY <2>2, <2>4 DEF Advance, RunClient, Released, TimerFires, RecordSyncTimeout,
            Publish, RoundSucceeds, SucceedRound, RoundFails, FailRound,
            Panics, CheckPeers, barrierVars
    <2>. QED  BY <2>3, <2>4
  <1>. QED  BY <1>1, Inductive, PTL DEF Spec, FailedStaysAway

-----------------------------------------------------------------------------
(* PeerFailed. *)

HasPeerFailed(c) == \E i \in DOMAIN failures[c] : failures[c][i] = "PeerFailed"

LEMMA RingInit == Init => RingInv
  BY DEF Init, RingInv, PeerInv, PeerFailedMeansPeer

\* A client that failed, ran ahead on its own and succeeds has got a statement
\* of that round from its neighbour, which can have gone that far only by
\* failing, too: the barrier cannot have opened without the client.
LEMMA AheadTogether ==
  ASSUME TypeInv, IndInv, N # 1, MessagesPerClient > 0,
         NEW c \in Client, c \in stored, RoundSucceeds(c)
  PROVE  Neighbour(c) \in stored /\ Neighbour(c) # c
  <1>1. Neighbour(c) \in Client /\ Neighbour(c) # c
    BY NeighbourIsPeer
  <1>. DEFINE n == Neighbour(c)
  <1>2. /\ round[c] \in Nat /\ round[n] \in Nat
        /\ ticket[c] \in Nat /\ generation \in Nat
    BY <1>1, ParametersAssumption DEF TypeInv, TypeOK
  <1>3. round[c] > ticket[c] /\ ticket[c] >= generation - 1
    BY DEF IndInv, TicketInv, RoundInv, RoundSucceeds, SucceedRound
  <1>4. round[c] <= round[n]
    <2>1. round[c] \in published[n]
      BY DEF RoundSucceeds, SucceedRound
    <2>2. published[n] \subseteq 1 .. round[n]
      BY <1>1 DEF IndInv, RoundInv
    <2>. QED  BY <1>2, <2>1, <2>2
  <1>5. ~(round[n] < generation)
    BY <1>2, <1>3, <1>4
  <1>6. n \in stored
    BY <1>1, <1>5 DEF IndInv, TicketInv
  <1>. QED  BY <1>1, <1>6

\* Only CheckPeers writes PeerFailed, and nothing is removed from stored.
LEMMA HasPeerFailedFrame ==
  ASSUME TypeInv, NEW c \in Client, Advance(c), NEW d \in Client,
         HasPeerFailed(d)', ~HasPeerFailed(d)
  PROVE  d = c /\ CheckPeers(c) /\ TRUE \in LoadPeerFailed(c)
  <1>f. failures \in [Client -> Seq(FailureKind)]
    BY DEF TypeInv, TypeOK
  <1>1. failures' # failures
    BY DEF HasPeerFailed
  <1>2. ASSUME NEW kind \in FailureKind, kind # "PeerFailed"
        PROVE  ~PushFailure(c, kind)
    <2>. SUFFICES ASSUME PushFailure(c, kind) PROVE FALSE
      OBVIOUS
    <2>1. CASE d # c
      BY <1>f, <2>1 DEF PushFailure, HasPeerFailed
    <2>2. CASE d = c
      <3>1. failures'[c] = Append(failures[c], kind)
        BY <1>f DEF PushFailure
      <3>2. PICK i \in DOMAIN failures'[c] : failures'[c][i] = "PeerFailed"
        BY <2>2 DEF HasPeerFailed
      <3>3. failures[c] \in Seq(FailureKind)
        BY <1>f
      <3>4. i \in 1 .. Len(failures[c]) /\ failures[c][i] = "PeerFailed"
        BY <1>2, <3>1, <3>2, <3>3
      <3>. QED  BY <2>2, <3>3, <3>4 DEF HasPeerFailed
    <2>. QED  BY <2>1, <2>2
  <1>3. CheckPeers(c)
    BY <1>1, <1>2 DEF Advance, RunClient, Arrive, Released, TimerFires,
       RecordSyncTimeout, Publish, RoundSucceeds, SucceedRound, RoundFails,
       FailRound, Panics, FailureKind
  <1>4. PICK peerFailed \in LoadPeerFailed(c) :
          IF peerFailed
          THEN PushFailure(c, "PeerFailed") /\ Goto(c, "done")
          ELSE Goto(c, "arriving") /\ UNCHANGED failures
    BY <1>3 DEF CheckPeers
  <1>5. peerFailed = TRUE /\ PushFailure(c, "PeerFailed")
    BY <1>1, <1>4 DEF LoadPeerFailed
  <1>6. d = c
    BY <1>f, <1>5 DEF PushFailure, HasPeerFailed
  <1>. QED  BY <1>3, <1>4, <1>5, <1>6

LEMMA RingStep ==
  ASSUME N # 1, MessagesPerClient > 0
  PROVE  TypeInv /\ IndInv /\ RingInv /\ [Next]_vars => RingInv'
  <1>. SUFFICES ASSUME TypeInv, IndInv, RingInv, [Next]_vars PROVE RingInv'
    OBVIOUS
  <1>u. CASE UNCHANGED vars
    BY <1>u DEF vars, RingInv, PeerInv, PeerFailedMeansPeer
  <1>n. ASSUME NEW c \in Client, Advance(c) PROVE RingInv'
    <2>1. stored \subseteq stored'
      BY <1>n DEF Advance, RunClient, Arrive, Released, TimerFires, RecordSyncTimeout,
            Publish, RoundSucceeds, SucceedRound, RoundFails, FailRound,
            Panics, CheckPeers,
            StorePeerFailed
    <2>2. ASSUME NEW d \in Client PROVE PeerInv(d)'
      <3>. SUFFICES ASSUME pc'[d] = "checking", d \in stored'
                    PROVE  \E e \in stored' : e # d
        BY DEF PeerInv
      <3>1. CASE pc[d] = "checking" /\ d \in stored
        BY <2>1, <3>1 DEF RingInv, PeerInv
      <3>2. CASE ~(pc[d] = "checking" /\ d \in stored)
        <4>1. d = c /\ RoundSucceeds(c) /\ c \in stored
          BY <1>n, <3>2 DEF TypeInv, TypeOK, Advance, RunClient, Arrive, Released,
               TimerFires, RecordSyncTimeout, Publish, RoundSucceeds,
               SucceedRound,
               RoundFails, FailRound, Panics, CheckPeers, EnterNextRound, Goto,
               StorePeerFailed
        <4>. QED  BY <2>1, <4>1, AheadTogether
      <3>. QED  BY <3>1, <3>2
    <2>3. ASSUME NEW d \in Client, HasPeerFailed(d)'
          PROVE  \E e \in stored' : e # d
      <3>1. CASE HasPeerFailed(d)
        BY <2>1, <3>1 DEF RingInv, PeerFailedMeansPeer, HasPeerFailed
      <3>2. CASE ~HasPeerFailed(d)
        <4>1. d = c /\ pc[c] = "checking" /\ TRUE \in LoadPeerFailed(c)
          BY <1>n, <2>3, <3>2, HasPeerFailedFrame DEF CheckPeers
        <4>2. CASE c \in stored
          BY <2>1, <4>1, <4>2 DEF RingInv, PeerInv
        <4>3. CASE c \notin stored
          BY <2>1, <4>1, <4>3 DEF LoadPeerFailed
        <4>. QED  BY <4>2, <4>3
      <3>. QED  BY <3>1, <3>2
    <2>. QED  BY <2>2, <2>3 DEF RingInv, PeerFailedMeansPeer, HasPeerFailed
  <1>. QED  BY <1>u, <1>n DEF Next

\* In a cohort of at least two clients that exchange at least one message a
\* round, PeerFailed is never reported by a client that alone has failed.
THEOREM PeerFailedIsTrue ==
  ASSUME N # 1, MessagesPerClient > 0
  PROVE  Spec => []PeerFailedMeansPeer
  <1>1. Init => RingInv
    BY RingInit
  <1>2. TypeInv /\ IndInv /\ RingInv /\ [Next]_vars => RingInv'
    BY RingStep
  <1>3. RingInv => PeerFailedMeansPeer
    BY DEF RingInv
  <1>. QED  BY <1>1, <1>2, <1>3, Inductive, PTL DEF Spec

-----------------------------------------------------------------------------
(* The results of the clients. *)

\* The rounds entered in which a client has not succeeded, the current one
\* included.
Lost(c) == (1 .. round[c]) \ successes[c]

OnlyRoundsFailed(c) ==
  \A i \in DOMAIN failures[c] : failures[c][i] = "RoundFailed"

\* Each round lost has its failure, except for the one the client is in; it says
\* nothing else before it returns.
AccountInv(c) ==
  /\ successes[c] \subseteq 1 .. round[c]
  /\ pc[c] # "done" => OnlyRoundsFailed(c)
  /\ pc[c] = "inRound" =>
       round[c] \in Lost(c) /\ Len(failures[c]) + 1 = Cardinality(Lost(c))
  /\ pc[c] \in {"arriving", "waiting", "expired", "checking"} =>
       round[c] \notin Lost(c) /\ Len(failures[c]) = Cardinality(Lost(c))
  /\ c \in stored => failures[c] # <<>>
  /\ pc[c] = "done" =>
       /\ \A i \in 1 .. (Len(failures[c]) - 1) : failures[c][i] = "RoundFailed"
       /\ failures[c] = <<>> => round[c] = NumRounds
       /\ IF StopsEarly(c)
          THEN Len(failures[c]) = Cardinality(Lost(c)) + 1 /\ round[c] \notin Lost(c)
          ELSE Len(failures[c]) = Cardinality(Lost(c))
                 /\ (round[c] = NumRounds \/ FailFast)

Accounts == \A c \in Client : AccountInv(c)

LEMMA LostFinite ==
  ASSUME TypeOK, NEW c \in Client
  PROVE  IsFiniteSet(Lost(c)) /\ Cardinality(Lost(c)) \in Nat
  <1>1. IsFiniteSet(1 .. round[c]) /\ Lost(c) \in SUBSET (1 .. round[c])
    BY FS_Interval DEF TypeOK, Lost
  <1>. QED  BY <1>1, FS_Subset, FS_CardinalityType

\* The next round is lost until it succeeds.
LEMMA OneMoreLost ==
  ASSUME TypeOK, NEW c \in Client, successes[c] \subseteq 1 .. round[c]
  PROVE  /\ round[c] + 1 \in (1 .. round[c] + 1) \ successes[c]
         /\ Cardinality((1 .. round[c] + 1) \ successes[c])
              = Cardinality(Lost(c)) + 1
  <1>1. round[c] \in Nat
    BY DEF TypeOK
  <1>2. /\ (1 .. round[c] + 1) \ successes[c] = Lost(c) \cup {round[c] + 1}
        /\ round[c] + 1 \notin Lost(c)
    BY <1>1 DEF Lost
  <1>. QED  BY <1>2, LostFinite, FS_AddElement

\* Going on to the next round, with a failure for each round lost so far.
LEMMA EnterAccounts ==
  ASSUME TypeInv, NEW c \in Client, EnterNextRound(c), UNCHANGED successes,
         successes[c] \subseteq 1 .. round[c],
         failures'[c] \in Seq(FailureKind), OnlyRoundsFailed(c)',
         Len(failures'[c]) = Cardinality(Lost(c)),
         c \in stored' => failures'[c] # <<>>
  PROVE  AccountInv(c)'
  <1>t. /\ TypeOK /\ round[c] \in Nat /\ NumRounds \in Nat
        /\ pc \in [Client -> Location] /\ round \in [Client -> 0 .. NumRounds]
    BY ParametersAssumption DEF TypeInv, TypeOK
  <1>1. CASE round[c] < NumRounds
    <2>1. pc'[c] = "inRound" /\ round'[c] = round[c] + 1
      BY <1>1, <1>t DEF EnterNextRound, Goto
    <2>2. Lost(c)' = (1 .. round[c] + 1) \ successes[c]
      BY <2>1 DEF Lost
    <2>3. successes'[c] \subseteq 1 .. round'[c]
      BY <1>t, <2>1
    <2>. QED  BY <1>t, <2>1, <2>2, <2>3, OneMoreLost DEF AccountInv
  <1>2. CASE ~(round[c] < NumRounds)
    <2>1. pc'[c] = "done" /\ round' = round /\ round[c] = NumRounds
      BY <1>2, <1>t DEF EnterNextRound, Goto
    <2>2. ~StopsEarly(c)'
      BY DEF StopsEarly, OnlyRoundsFailed
    <2>3. Lost(c)' = Lost(c)
      BY <2>1 DEF Lost
    <2>4. \A i \in 1 .. (Len(failures'[c]) - 1) : failures'[c][i] = "RoundFailed"
      BY DEF OnlyRoundsFailed
    <2>. QED  BY <2>1, <2>2, <2>3, <2>4 DEF AccountInv
  <1>. QED  BY <1>1, <1>2

\* One more failure, and what it says.
LEMMA PushAccounts ==
  ASSUME TypeOK, NEW c \in Client, NEW kind \in FailureKind, PushFailure(c, kind),
         OnlyRoundsFailed(c)
  PROVE  /\ failures'[c] \in Seq(FailureKind) /\ failures'[c] # <<>>
         /\ Len(failures'[c]) = Len(failures[c]) + 1
         /\ failures'[c][Len(failures'[c])] = kind
         /\ \A i \in 1 .. (Len(failures'[c]) - 1) : failures'[c][i] = "RoundFailed"
  <1>1. failures[c] \in Seq(FailureKind)
    BY DEF TypeOK
  <1>2. failures'[c] = Append(failures[c], kind)
    BY DEF TypeOK, PushFailure
  <1>. QED  BY <1>1, <1>2 DEF OnlyRoundsFailed

LEMMA AccountsOthers ==
  ASSUME TypeInv, Accounts, NEW c \in Client, Advance(c), NEW d \in Client, d # c
  PROVE  AccountInv(d)'
  <1>1. /\ pc'[d] = pc[d] /\ round'[d] = round[d]
        /\ successes'[d] = successes[d] /\ failures'[d] = failures[d]
        /\ d \in stored' <=> d \in stored
    BY DEF Advance, RunClient, Arrive, Released, TimerFires, RecordSyncTimeout, Publish,
           RoundSucceeds, SucceedRound, RoundFails, FailRound, Panics, CheckPeers,
           EnterNextRound, Goto, StorePeerFailed, PushFailure, TypeInv, TypeOK
  <1>2. Lost(d)' = Lost(d)
    BY <1>1 DEF Lost
  <1>. QED  BY <1>1, <1>2 DEF Accounts, AccountInv, OnlyRoundsFailed, StopsEarly

LEMMA AccountsInit == Init => Accounts
  <1>. SUFFICES ASSUME Init, NEW c \in Client PROVE AccountInv(c)
    BY DEF Accounts
  <1>1. Lost(c) = {}
    BY DEF Init, Lost
  <1>. QED  BY <1>1, FS_EmptySet DEF Init, AccountInv, OnlyRoundsFailed

LEMMA AccountsStep == TypeInv /\ Accounts /\ [Next]_vars => Accounts'
  <1>. SUFFICES ASSUME TypeInv, Accounts, [Next]_vars PROVE Accounts'
    OBVIOUS
  <1>u. CASE UNCHANGED vars
    BY <1>u DEF vars, Accounts, AccountInv, Lost, OnlyRoundsFailed, StopsEarly
  <1>n. ASSUME NEW c \in Client, Advance(c) PROVE AccountInv(c)'
    <2>t. /\ TypeOK /\ round[c] \in 0 .. NumRounds /\ NumRounds \in Nat
          /\ pc \in [Client -> Location] /\ failures[c] \in Seq(FailureKind)
          /\ successes \in [Client -> SUBSET Round]
      BY ParametersAssumption DEF TypeInv, TypeOK
    <2>i. AccountInv(c)
      BY DEF Accounts
    <2>l. UNCHANGED <<round, successes>> => Lost(c)' = Lost(c)
      BY DEF Lost
    <2>1. CASE Arrive(c) \/ Released(c)
      <3>1. CASE EnterNextRound(c)
        BY <2>1, <2>t, <2>i, <3>1, EnterAccounts
           DEF Arrive, Released, AccountInv, OnlyRoundsFailed
      <3>2. CASE Goto(c, "waiting") /\ UNCHANGED <<round, generation>>
        BY <2>1, <2>t, <2>i, <2>l, <3>2
           DEF Arrive, Released, Goto, AccountInv, OnlyRoundsFailed
      <3>. QED  BY <2>1, <3>1, <3>2 DEF Arrive, Released
    <2>2. CASE TimerFires(c)
      BY <2>2, <2>t, <2>i, <2>l DEF TimerFires, Goto, AccountInv, OnlyRoundsFailed
    <2>3. CASE RecordSyncTimeout(c)
      <3>1. PICK kind \in {"StartupSyncTimeout", "InterRoundSyncTimeout"} :
              PushFailure(c, kind)
        BY <2>3 DEF RecordSyncTimeout
      <3>2. pc'[c] = "done" /\ UNCHANGED <<round, successes>>
        BY <2>3, <2>t DEF RecordSyncTimeout, Goto
      <3>3. OnlyRoundsFailed(c) /\ kind \in FailureKind
        BY <2>3, <2>i DEF RecordSyncTimeout, AccountInv, FailureKind
      <3>4. StopsEarly(c)'
        BY <2>t, <3>1, <3>3, PushAccounts DEF StopsEarly
      <3>. QED  BY <2>3, <2>t, <2>i, <2>l, <3>1, <3>2, <3>3, <3>4, PushAccounts
                DEF RecordSyncTimeout, AccountInv
    <2>4. CASE Publish(c)
      <3>1. UNCHANGED <<pc, round, successes, failures, stored>>
        BY <2>4 DEF Publish
      <3>. QED  BY <2>t, <2>i, <2>l, <3>1 DEF AccountInv, OnlyRoundsFailed, StopsEarly
    <2>5. CASE RoundSucceeds(c)
      <3>1. /\ pc[c] = "inRound" /\ UNCHANGED <<round, failures, stored>>
            /\ pc'[c] = IF round[c] < NumRounds THEN "checking" ELSE "done"
            /\ successes'[c] = successes[c] \cup {round[c]}
        BY <2>5, <2>t DEF RoundSucceeds, SucceedRound, Goto
      <3>2. Lost(c)' = Lost(c) \ {round[c]} /\ round[c] \in Lost(c)
        BY <2>i, <3>1 DEF Lost, AccountInv
      <3>3. Cardinality(Lost(c)') = Cardinality(Lost(c)) - 1
        <4>1. Cardinality(Lost(c) \ {round[c]}) = Cardinality(Lost(c)) - 1
          BY <2>t, <3>2, LostFinite, FS_RemoveElement
        <4>. QED  BY <3>2, <4>1
      <3>4. Len(failures'[c]) = Cardinality(Lost(c)') /\ OnlyRoundsFailed(c)'
        BY <2>t, <2>i, <3>1, <3>3, LostFinite DEF AccountInv, OnlyRoundsFailed
      <3>5. ~StopsEarly(c)'
        BY <2>t, <3>1, <3>4 DEF StopsEarly, OnlyRoundsFailed
      <3>6. successes'[c] \subseteq 1 .. round'[c]
        BY <2>t, <2>i, <3>1, <3>2 DEF AccountInv, Lost
      <3>. QED  BY <2>t, <2>i, <3>1, <3>2, <3>4, <3>5, <3>6
                DEF AccountInv, OnlyRoundsFailed
    <2>6. CASE RoundFails(c)
      <3>1. /\ pc[c] = "inRound" /\ PushFailure(c, "RoundFailed")
            /\ UNCHANGED successes
        BY <2>6 DEF RoundFails, FailRound
      <3>2. /\ failures'[c] \in Seq(FailureKind) /\ failures'[c] # <<>>
            /\ Len(failures'[c]) = Cardinality(Lost(c))
            /\ OnlyRoundsFailed(c)'
        BY <2>t, <2>i, <3>1, PushAccounts
           DEF AccountInv, OnlyRoundsFailed, FailureKind
      <3>3. CASE EnterNextRound(c)
        BY <2>i, <3>1, <3>2, <3>3, EnterAccounts DEF AccountInv
      <3>4. CASE FailFast /\ Goto(c, "done") /\ UNCHANGED round
        <4>1. pc'[c] = "done"
          BY <2>t, <3>4 DEF Goto
        <4>2. ~StopsEarly(c)'
          BY <3>2 DEF StopsEarly, OnlyRoundsFailed
        <4>. QED  BY <2>i, <2>l, <3>1, <3>2, <3>4, <4>1, <4>2
                  DEF AccountInv, OnlyRoundsFailed
      <3>. QED  BY <2>6, <3>3, <3>4 DEF RoundFails, FailRound
    <2>7. CASE Panics(c)
      BY <2>7, <2>t, <2>i, <2>l DEF Panics, Goto, AccountInv, OnlyRoundsFailed
    <2>8. CASE CheckPeers(c)
      <3>1. CASE PushFailure(c, "PeerFailed") /\ Goto(c, "done")
        <4>1. pc'[c] = "done" /\ UNCHANGED <<round, successes>>
          BY <2>8, <2>t, <3>1 DEF CheckPeers, Goto
        <4>2. OnlyRoundsFailed(c) /\ "PeerFailed" \in FailureKind
          BY <2>8, <2>i DEF CheckPeers, AccountInv, FailureKind
        <4>3. StopsEarly(c)'
          BY <2>t, <3>1, <4>2, PushAccounts DEF StopsEarly
        <4>. QED  BY <2>8, <2>t, <2>i, <2>l, <3>1, <4>1, <4>2, <4>3, PushAccounts
                  DEF CheckPeers, AccountInv
      <3>2. CASE Goto(c, "arriving") /\ UNCHANGED failures
        BY <2>8, <2>t, <2>i, <2>l, <3>2
           DEF CheckPeers, Goto, AccountInv, OnlyRoundsFailed
      <3>. QED  BY <2>8, <3>1, <3>2 DEF CheckPeers
    <2>. QED  BY <1>n, <2>1, <2>2, <2>3, <2>4, <2>5, <2>6, <2>7, <2>8 DEF Advance, RunClient
  <1>. QED  BY <1>u, <1>n, AccountsOthers DEF Next, Accounts

\* The results of a client that has returned account for each round exactly
\* once: one failure per round that did not succeed, and at most one more,
\* which comes last and says why it left.
THEOREM RoundsAreAccounted == Spec => []RoundsAccounted
  <1>1. Accounts => RoundsAccounted
    BY DEF Accounts, AccountInv, RoundsAccounted, Lost
  <1>. QED  BY <1>1, TypeInit, TypeStep, AccountsInit, AccountsStep, PTL DEF Spec

-----------------------------------------------------------------------------
(* The cohort implements Lockstep. *)

\* Successes are of rounds entered, a client has none yet of the round it is in,
\* nor ever one of the round in which it failed, whoever is in a round has come
\* through the startup barrier, and no success runs ahead of the ticket before
\* the first failure.
StreakInv ==
  \A c \in Client :
    /\ successes[c] \subseteq 1 .. round[c]
    /\ pc[c] = "inRound" => round[c] \notin successes[c]
    /\ c \in stored => ticket[c] \notin successes[c]
    /\ c \notin stored => successes[c] \subseteq 1 .. ticket[c]
    /\ ticket[c] = 0 => round[c] = 0

LEMMA StreakInit == Init => StreakInv
  BY DEF Init, StreakInv

LEMMA StreakStep == TypeInv /\ IndInv /\ StreakInv /\ [Next]_vars => StreakInv'
  <1>. SUFFICES ASSUME TypeInv, IndInv, StreakInv, [Next]_vars PROVE StreakInv'
    OBVIOUS
  <1>u. CASE UNCHANGED vars
    BY <1>u DEF vars, barrierVars, StreakInv
  <1>n. ASSUME NEW c \in Client, Advance(c) PROVE StreakInv'
    <2>t. /\ round \in [Client -> 0 .. NumRounds]
          /\ pc \in [Client -> Location]
          /\ ticket \in [Client -> Nat] /\ generation \in Nat \ {0}
          /\ successes \in [Client -> SUBSET Round]
          /\ NumRounds \in Nat
      BY ParametersAssumption DEF TypeInv, TypeOK
    <2>i. TicketInv(c) /\ InLoop
      BY DEF IndInv
    <2>1. CASE Arrive(c)
      BY <2>t, <2>i, <2>1
         DEF Arrive, EnterNextRound, Goto, StreakInv, TicketInv
    <2>2. CASE Released(c)
      BY <2>t, <2>i, <2>2
         DEF Released, EnterNextRound, Goto, barrierVars, StreakInv, TicketInv
    <2>3. CASE TimerFires(c)
      BY <2>t, <2>i, <2>3 DEF TimerFires, Goto, barrierVars, StreakInv
    <2>4. CASE RecordSyncTimeout(c)
      BY <2>t, <2>i, <2>4
         DEF RecordSyncTimeout, StorePeerFailed, Goto, barrierVars, StreakInv,
             TicketInv
    <2>5. CASE Publish(c)
      BY <2>5 DEF Publish, barrierVars, StreakInv
    <2>6. CASE RoundSucceeds(c)
      BY <2>t, <2>i, <2>6
         DEF RoundSucceeds, SucceedRound, Goto, barrierVars, StreakInv,
             TicketInv, InLoop,
             IndInv, RoundInv
    <2>7. CASE RoundFails(c)
      BY <2>t, <2>i, <2>7
         DEF RoundFails, FailRound, EnterNextRound, StorePeerFailed, Goto,
             barrierVars,
             StreakInv, TicketInv, InLoop
    <2>8. CASE Panics(c)
      BY <2>t, <2>8 DEF Panics, Goto, barrierVars, StreakInv
    <2>9. CASE CheckPeers(c)
      BY <2>t, <2>9 DEF CheckPeers, Goto, barrierVars, StreakInv
    <2>. QED  BY <1>n, <2>1, <2>2, <2>3, <2>4, <2>5, <2>6, <2>7, <2>8, <2>9
              DEF Advance, RunClient
  <1>. QED  BY <1>u, <1>n DEF Next

\* A step that neither succeeds in a round nor arrives at the barrier keeps
\* every streak; an arrival keeps it too, since it follows a success.
LEMMA StreakKept ==
  ASSUME TypeInv, IndInv, StreakInv, NEW c \in Client, Advance(c),
         ~(RoundSucceeds(c) /\ c \notin stored), NEW d \in Client
  PROVE  Streak(d)' = Streak(d)
  <1>t. /\ ticket \in [Client -> Nat] /\ generation \in Nat \ {0}
        /\ successes \in [Client -> SUBSET Round]
        /\ round[c] \in Nat
    BY ParametersAssumption DEF TypeInv, TypeOK
  <1>1. CASE Arrive(c)
    <2>1. CASE d = c
      <3>1. ticket[c] = round[c] /\ generation = round[c] + 1
        BY <1>t, <1>1 DEF Arrive, IndInv, TicketInv
      <3>2. Streak(c) = round[c]
        BY <1>t, <1>1, <3>1 DEF Streak, Arrive, IndInv, RoundInv
      <3>3. ticket'[c] = round[c] + 1 /\ ticket'[c] \notin successes'[c]
        BY <1>t, <1>1, <3>1 DEF Arrive, StreakInv
      <3>. QED  BY <1>t, <2>1, <3>2, <3>3 DEF Streak
    <2>2. CASE d # c
      BY <1>t, <1>1, <2>2 DEF Arrive, Streak
    <2>. QED  BY <2>1, <2>2
  <1>2. CASE RoundSucceeds(c)
    <2>1. c \in stored /\ round[c] > ticket[c]
      BY <1>2 DEF IndInv, RoundInv, RoundSucceeds, SucceedRound
    <2>2. (ticket[d] \in successes'[d]) <=> (ticket[d] \in successes[d])
      BY <1>t, <1>2, <2>1 DEF RoundSucceeds, SucceedRound
    <2>. QED  BY <1>2, <2>2 DEF RoundSucceeds, SucceedRound, Streak, barrierVars
  <1>3. CASE ~Arrive(c) /\ ~RoundSucceeds(c)
    BY <1>3 DEF Advance, RunClient, Released, TimerFires, RecordSyncTimeout, Publish,
                RoundFails, FailRound, Panics, CheckPeers, barrierVars, Streak
  <1>. QED  BY <1>1, <1>2, <1>3

\* A client that succeeds in a round without having failed takes the abstract
\* step: everybody has completed all the rounds before it.
LEMMA SuccessCompletes ==
  ASSUME TypeInv, IndInv, StreakInv, NEW c \in Client, RoundSucceeds(c),
         c \notin stored
  PROVE  Abstract!Complete(c)
  <1>. DEFINE completed == [d \in Client |-> Streak(d)]
  <1>t. /\ ticket \in [Client -> Nat] /\ generation \in Nat \ {0}
        /\ successes \in [Client -> SUBSET Round]
        /\ round[c] \in 1 .. NumRounds /\ NumRounds \in Nat
    BY ParametersAssumption DEF TypeInv, TypeOK, InLoop, RoundSucceeds,
                                SucceedRound
  <1>1. ticket[c] = round[c] /\ round[c] < generation
    BY DEF RoundSucceeds, SucceedRound, IndInv, TicketInv
  <1>2. Streak(c) = round[c] - 1
    BY <1>t, <1>1 DEF RoundSucceeds, SucceedRound, StreakInv, Streak
  <1>3. \A d \in Client : Streak(d) >= round[c] - 1
    <2>. SUFFICES ASSUME NEW d \in Client PROVE Streak(d) >= round[c] - 1
      OBVIOUS
    <2>1. ticket[d] >= round[c]
      BY <1>t, <1>1 DEF IndInv, TicketInv
    <2>. QED  BY <1>t, <2>1 DEF Streak
  <1>4. Streak(c)' = round[c]
    BY <1>t, <1>1 DEF RoundSucceeds, SucceedRound, barrierVars, Streak
  <1>5. \A d \in Client : d # c => Streak(d)' = Streak(d)
    BY <1>t DEF RoundSucceeds, SucceedRound, barrierVars, Streak
  <1>6. completed' = [completed EXCEPT ![c] = @ + 1]
    <2>1. \A d \in Client :
            Streak(d)' = IF d = c THEN Streak(d) + 1 ELSE Streak(d)
      BY <1>t, <1>2, <1>4, <1>5
    <2>2. completed' =
            [d \in Client |-> IF d = c THEN Streak(d) + 1 ELSE Streak(d)]
      BY <2>1 DEF Streak
    <2>. QED  BY <2>2
  <1>. QED  BY <1>t, <1>2, <1>3, <1>6 DEF Abstract!Complete

\* A cohort goes through its rounds in lockstep, whatever fails in it: every
\* behaviour of the code is a behaviour of the abstract specification.
THEOREM CohortInLockstep == Spec => InLockstep
  <1>1. Init => Abstract!Init
    BY DEF Init, Abstract!Init, Streak
  <1>2. TypeInv /\ IndInv /\ StreakInv /\ [Next]_vars
          => [Abstract!Next]_([c \in Client |-> Streak(c)])
    <2>. SUFFICES ASSUME TypeInv, IndInv, StreakInv, [Next]_vars
                  PROVE  \/ Abstract!Next
                         \/ UNCHANGED [c \in Client |-> Streak(c)]
      OBVIOUS
    <2>u. CASE UNCHANGED vars
      BY <2>u DEF vars, barrierVars, Streak
    <2>n. ASSUME NEW c \in Client, Advance(c)
          PROVE  Abstract!Next \/ UNCHANGED [d \in Client |-> Streak(d)]
      <3>1. CASE RoundSucceeds(c) /\ c \notin stored
        BY <3>1, SuccessCompletes DEF Abstract!Next
      <3>2. CASE ~(RoundSucceeds(c) /\ c \notin stored)
        BY <2>n, <3>2, StreakKept
      <3>. QED  BY <3>1, <3>2
    <2>. QED  BY <2>u, <2>n DEF Next
  <1>3. Spec => []StreakInv
    BY StreakInit, StreakStep, Inductive, PTL DEF Spec
  <1>. QED
    BY <1>1, <1>2, <1>3, Inductive, PTL DEF Spec, InLockstep, Abstract!Spec

\* The streak that the refinement reads off the ticket is what it is meant to be:
\* the client has succeeded in every round up to it and not in the next one.
THEOREM StreaksAreGapless == Spec => []StreakIsGapless
  <1>1. TypeInv /\ IndInv /\ StreakInv => StreakIsGapless
    <2>. SUFFICES ASSUME TypeInv, IndInv, StreakInv, NEW c \in Client
                  PROVE  /\ 1 .. Streak(c) \subseteq successes[c]
                         /\ (Streak(c) + 1) \notin successes[c]
      BY DEF StreakIsGapless
    <2>t. /\ ticket[c] \in Nat /\ round[c] \in Nat
          /\ 1 .. (ticket[c] - 1) \subseteq successes[c]
      BY ParametersAssumption DEF TypeInv, TypeOK, IndInv, TicketInv
    <2>1. CASE ticket[c] = 0
      BY <2>t, <2>1 DEF StreakInv, Streak
    <2>2. CASE ticket[c] # 0 /\ ticket[c] \in successes[c]
      BY <2>t, <2>2 DEF StreakInv, Streak
    <2>3. CASE ticket[c] # 0 /\ ticket[c] \notin successes[c]
      BY <2>t, <2>3 DEF StreakInv, Streak
    <2>. QED  BY <2>1, <2>2, <2>3
  <1>2. Spec => []StreakInv
    BY StreakInit, StreakStep, Inductive, PTL DEF Spec
  <1>. QED  BY <1>1, <1>2, Inductive, PTL

\* Nobody is ever two rounds ahead of anybody with what it has completed, however
\* far ahead a failed client runs alone: what Lockstep promises, of the code.
THEOREM StreaksWithinOneRound == Spec => []Abstract!WithinOneRound
  <1>. DEFINE completed == [c \in Client |-> Streak(c)]
              Inv == /\ completed \in [Client -> Nat]
                     /\ Abstract!WithinOneRound
  <1>1. Abstract!Init => Inv
    BY DEF Abstract!Init, Abstract!WithinOneRound
  <1>2. Inv /\ [Abstract!Next]_completed => Inv'
    <2>. SUFFICES ASSUME Inv, [Abstract!Next]_completed PROVE Inv'
      OBVIOUS
    <2>. HIDE DEF completed
    <2>w. \A p, q \in Client : completed[p] <= completed[q] + 1
      BY DEF Abstract!WithinOneRound, completed
    <2>1. ASSUME NEW c \in Client, Abstract!Complete(c) PROVE Inv'
      <3>1. /\ completed' = [completed EXCEPT ![c] = @ + 1]
            /\ \A d \in Client : completed[d] >= completed[c]
        BY <2>1 DEF Abstract!Complete, completed
      <3>2. completed' \in [Client -> Nat]
        BY <3>1
      <3>3. \A p, q \in Client : completed'[p] <= completed'[q] + 1
        BY <2>w, <3>1
      <3>. QED  BY <3>2, <3>3 DEF Abstract!WithinOneRound, completed
    <2>2. CASE UNCHANGED completed
      BY <2>w, <2>2 DEF Abstract!WithinOneRound, completed
    <2>. QED  BY <2>1, <2>2 DEF Abstract!Next
  <1>3. Abstract!Spec => []Inv
    BY <1>1, <1>2, PTL DEF Abstract!Spec
  <1>. QED  BY <1>3, CohortInLockstep, PTL DEF InLockstep

-----------------------------------------------------------------------------
\* All that the proofs add to the properties, for TLC, and that streaks are what
\* they are called.
Strengthening == IndInv /\ RingInv /\ Accounts /\ StreakInv /\ StreakIsGapless
=============================================================================
