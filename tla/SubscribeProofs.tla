--------------------------- MODULE SubscribeProofs ---------------------------
(***************************************************************************)
(* Proofs about SubscribeBench, for every number of endpoints and reads,   *)
(* every timeout and every finite set of statements.                       *)
(***************************************************************************)
EXTENDS SubscribeBench, FiniteSetTheorems, TLAPS

-----------------------------------------------------------------------------
(* Sums over a sequence of events, by their partial sums. *)

\* Starting from x, the statements of s add up to y.
AddsUp(s, x, y) ==
  \E t \in [0 .. Len(s) -> Nat] :
    /\ t[0] = x /\ t[Len(s)] = y
    /\ \A i \in 1 .. Len(s) : t[i] = t[i - 1] + s[i].n

LEMMA EmptyAddsUp == \A x, y : x \in Nat => (AddsUp(<<>>, x, y) <=> x = y)
  <1>. SUFFICES ASSUME NEW x \in Nat, NEW y PROVE AddsUp(<<>>, x, y) <=> x = y
    OBVIOUS
  <1>1. Len(<<>>) = 0 /\ 1 .. 0 = {}
    OBVIOUS
  <1>2. ASSUME AddsUp(<<>>, x, y) PROVE x = y
    BY <1>1, <1>2 DEF AddsUp
  <1>3. ASSUME x = y PROVE AddsUp(<<>>, x, y)
    <2>. DEFINE t == [i \in 0 .. 0 |-> x]
    <2>1. t \in [0 .. 0 -> Nat] /\ t[0] = x
      OBVIOUS
    <2>. HIDE DEF t
    <2>. QED  BY <1>1, <1>3, <2>1 DEF AddsUp
  <1>. QED  BY <1>2, <1>3

LEMMA AppendAddsUp ==
  ASSUME NEW S, NEW s \in Seq(S), NEW e \in S, e.n \in Nat,
         NEW x, NEW y \in Nat, AddsUp(s, x, y)
  PROVE  AddsUp(Append(s, e), x, y + e.n)
  <1>. DEFINE a == Append(s, e)
              n == Len(s)
  <1>1. n \in Nat /\ Len(a) = n + 1 /\ a[n + 1] = e /\ \A i \in 1 .. n : a[i] = s[i]
    OBVIOUS
  <1>2. PICK t \in [0 .. n -> Nat] :
          /\ t[0] = x /\ t[n] = y
          /\ \A i \in 1 .. n : t[i] = t[i - 1] + s[i].n
    BY DEF AddsUp
  <1>. HIDE DEF a, n
  <1>. DEFINE u == [i \in 0 .. (n + 1) |-> IF i = n + 1 THEN y + e.n ELSE t[i]]
  <1>3. u \in [0 .. (n + 1) -> Nat]
    BY <1>1, <1>2
  <1>4. u[n + 1] = y + e.n /\ \A i \in 0 .. n : u[i] = t[i]
    BY <1>1
  <1>. HIDE DEF u
  <1>5. u[0] = x /\ u[n] = y
    BY <1>1, <1>2, <1>4
  <1>6. ASSUME NEW i \in 1 .. (n + 1) PROVE u[i] = u[i - 1] + a[i].n
    <2>1. CASE i = n + 1
      BY <1>1, <1>4, <1>5, <2>1
    <2>2. CASE i \in 1 .. n
      <3>1. i - 1 \in 0 .. n /\ i \in 0 .. n
        BY <1>1, <2>2
      <3>. QED  BY <1>1, <1>2, <1>4, <2>2, <3>1
    <2>. QED  BY <1>1, <2>1, <2>2
  <1>7. AddsUp(a, x, y + e.n)
    BY <1>1, <1>3, <1>4, <1>5, <1>6 DEF AddsUp
  <1>. QED  BY <1>7 DEF a

LEMMA TailAddsUp ==
  ASSUME NEW S, NEW s \in Seq(S), s # <<>>, Head(s).n \in Nat,
         NEW x \in Nat, NEW y, AddsUp(s, x, y)
  PROVE  AddsUp(Tail(s), x + Head(s).n, y)
  <1>. DEFINE r == Tail(s)
              n == Len(r)
  <1>1. /\ n \in Nat /\ Len(s) = n + 1 /\ Head(s) = s[1]
        /\ \A i \in 1 .. n : r[i] = s[i + 1]
    OBVIOUS
  <1>2. PICK t \in [0 .. (n + 1) -> Nat] :
          /\ t[0] = x /\ t[n + 1] = y
          /\ \A i \in 1 .. (n + 1) : t[i] = t[i - 1] + s[i].n
    BY <1>1 DEF AddsUp
  <1>. HIDE DEF r, n
  <1>. DEFINE u == [i \in 0 .. n |-> t[i + 1]]
  <1>3. u \in [0 .. n -> Nat]
    BY <1>1, <1>2
  <1>4. \A i \in 0 .. n : u[i] = t[i + 1]
    OBVIOUS
  <1>. HIDE DEF u
  <1>5. u[0] = x + Head(s).n
    <2>1. 0 \in 0 .. n /\ 1 \in 1 .. (n + 1)
      BY <1>1
    <2>2. t[1] = t[0] + s[1].n
      BY <1>2, <2>1
    <2>. QED  BY <1>1, <1>2, <1>4, <2>1, <2>2
  <1>6. u[n] = y
    BY <1>1, <1>2, <1>4
  <1>7. ASSUME NEW i \in 1 .. n PROVE u[i] = u[i - 1] + r[i].n
    <2>1. i \in 0 .. n /\ i - 1 \in 0 .. n /\ i + 1 \in 1 .. (n + 1)
          /\ i - 1 + 1 = i /\ i + 1 - 1 = i
      BY <1>1
    <2>2. u[i] = t[i + 1] /\ u[i - 1] = t[i]
      BY <1>4, <2>1
    <2>3. t[i + 1] = t[i] + s[i + 1].n
      BY <1>2, <2>1
    <2>. QED  BY <1>1, <2>2, <2>3
  <1>8. AddsUp(r, x + Head(s).n, y)
    BY <1>1, <1>3, <1>5, <1>6, <1>7 DEF AddsUp, n
  <1>. QED  BY <1>8 DEF r

-----------------------------------------------------------------------------
(* The inductive invariant. *)

\* Between reads there is no subscription and nothing is collected.
ClosedInv ==
  ~Open => /\ toDump = {} /\ ~dumping /\ toPush = {} /\ again = 0 /\ stream = <<>>
           /\ received = 0 /\ waited = 0

\* The endpoints before the current one are done, those after it untouched.
DoneAt(e) == IF seed[e] = "Failed" THEN successes[e] = 0 /\ failures[e] = 1
                                   ELSE successes[e] + failures[e] = ReadsPerNode

CountsInv ==
  /\ (pc = "finished") <=> (endpoint = Endpoints + 1)
  /\ \A e \in Endpoint : e < endpoint => DoneAt(e)
  /\ \A e \in Endpoint : e > endpoint => successes[e] = 0 /\ failures[e] = 0
  /\ pc # "finished" =>
       /\ successes[endpoint] + failures[endpoint] < ReadsPerNode
       /\ seed[endpoint] # "Failed" \/ pc = "seed"
       /\ pc = "seed" => successes[endpoint] = 0 /\ failures[endpoint] = 0

\* The status is that of all reads.
ExitInv ==
  exit # "running" =>
    pc = "finished" /\ (exit = "success" <=> ~(assertOnce /\ SomeFailed))

\* Which mode leads where; a live event is awaited when the dump brought nothing.
ModeInv ==
  /\ pc = "live" => topicOverride /\ ~assertOnce /\ received = 0
  /\ pc = "idle" => assertOnce

\* An event that completes the dump, or follows it.
Completes(event) == event.kind = "statements" /\ event.last

\* The end of a stream is its last event.  What follows the dump is not empty, and
\* while its last event has not been read it is in the stream.
StreamInv ==
  /\ \A i \in DOMAIN stream : stream[i].kind # "statements" => i = Len(stream)
  /\ \A i \in DOMAIN stream : Completes(stream[i]) => ~dumping
  /\ \A i, j \in DOMAIN stream :
       i < j /\ Completes(stream[i]) /\ stream[j].kind = "statements" =>
         stream[j].n > 0
  /\ pc = "dump" /\ ~dumping => \E i \in DOMAIN stream : Completes(stream[i])
  /\ pc \in {"live", "idle"} =>
       /\ ~dumping
       /\ \A i \in DOMAIN stream : stream[i].kind = "statements" => stream[i].n > 0

\* What the node holds has been pushed, or is to be, once.
NodeInv ==
  /\ toDump \cap toPush = {}
  /\ Open /\ ~dumping => toDump = {}

\* What the node has pushed was collected or is in the stream.
TallyInv == Open => AddsUp(stream, received, Pushed)

IndInv ==
  /\ TypeOK /\ ClosedInv /\ CountsInv /\ ExitInv /\ ModeInv /\ StreamInv /\ NodeInv
  /\ TallyInv

-----------------------------------------------------------------------------
(* The start, and the steps of which the reads are made. *)

AnyEvent == Event \cup {Closed, StreamError}

LEMMA EventsOfStream ==
  /\ \A e \in AnyEvent : e.n \in Nat
  /\ \A e \in AnyEvent : e.kind = "statements" \/ e.n = 0
  <1>1. Cardinality(Statement) \in Nat
    BY ConfigAssumption, FS_CardinalityType
  <1>. QED  BY <1>1 DEF AnyEvent, Event, Closed, StreamError

LEMMA InitHolds == ASSUME Init PROVE IndInv
  <1>1. Endpoints \in Nat /\ ReadsPerNode \in Nat \ {0} /\ Timeout \in Nat \ {0}
        /\ Redelivered \in Nat
    BY ConfigAssumption
  <1>2. TypeOK
    <2>1. topicOverride \in BOOLEAN /\ assertOnce \in BOOLEAN
      BY DEF Init
    <2>6. pc \in Location /\ endpoint \in 1 .. (Endpoints + 1)
      BY <1>1 DEF Init, Location
    <2>2. /\ successes \in [Endpoint -> 0 .. ReadsPerNode]
          /\ failures \in [Endpoint -> 0 .. ReadsPerNode]
          /\ seed \in [Endpoint -> SeedStatus]
      BY <1>1 DEF Init, SeedStatus
    <2>3. /\ received \in Nat /\ waited \in 0 .. Timeout
          /\ exit \in {"running", "success", "failure"} /\ again \in 0 .. Redelivered
      BY <1>1 DEF Init
    <2>4. store \subseteq Statement /\ toDump \subseteq store /\ toPush \subseteq store
          /\ dumping \in BOOLEAN
      BY DEF Init
    <2>5. stream \in Seq(Event \cup {Closed, StreamError})
      BY DEF Init
    <2>. QED  BY <2>1, <2>2, <2>3, <2>4, <2>5, <2>6 DEF TypeOK
  <1>3. ~Open
    BY DEF Init, Open
  <1>4. ClosedInv
    BY DEF Init, ClosedInv
  <1>5. CountsInv
    BY <1>1 DEF Init, CountsInv, Endpoint
  <1>6. ExitInv /\ ModeInv
    BY DEF Init, ExitInv, ModeInv
  <1>7. StreamInv
    BY DEF Init, StreamInv
  <1>8. NodeInv /\ TallyInv
    BY <1>3 DEF Init, NodeInv, TallyInv
  <1>. QED  BY <1>2, <1>4, <1>5, <1>6, <1>7, <1>8 DEF IndInv

\* An endpoint that is being visited is one of them.
LEMMA Visited ==
  ASSUME TypeOK, CountsInv, pc # "finished"
  PROVE  endpoint \in Endpoint /\ endpoint \in Nat /\ endpoint <= Endpoints
         /\ Endpoints \in Nat
         /\ successes[endpoint] \in Nat /\ failures[endpoint] \in Nat
         /\ ReadsPerNode \in Nat \ {0}
  <1>1. endpoint \in Endpoint /\ endpoint \in Nat /\ endpoint <= Endpoints
        /\ Endpoints \in Nat /\ ReadsPerNode \in Nat \ {0}
    BY ConfigAssumption DEF TypeOK, CountsInv, Endpoint
  <1>. QED  BY <1>1 DEF TypeOK

\* The loop goes on when all is reported of an endpoint and nothing else changed.
LEMMA NextEndpointCounts ==
  ASSUME TypeOK, CountsInv, pc # "finished", NextEndpoint,
         \A e \in Endpoint : e = endpoint => DoneAt(e)',
         \A e \in Endpoint : e # endpoint =>
           /\ successes'[e] = successes[e] /\ failures'[e] = failures[e]
           /\ seed'[e] = seed[e]
  PROVE  CountsInv'
  <1>1. endpoint \in Endpoint /\ endpoint \in Nat /\ endpoint <= Endpoints
        /\ Endpoints \in Nat /\ ReadsPerNode \in Nat \ {0}
    BY Visited
  <1>2. /\ endpoint' = endpoint + 1
        /\ pc' = IF endpoint < Endpoints THEN "seed" ELSE "finished"
    BY DEF NextEndpoint
  <1>3. ASSUME NEW e \in Endpoint, e < endpoint' PROVE DoneAt(e)'
    <2>1. e < endpoint \/ e = endpoint
      BY <1>1, <1>2, <1>3 DEF Endpoint
    <2>2. CASE e < endpoint
      <3>1. DoneAt(e) /\ e # endpoint
        BY <1>1, <2>2 DEF CountsInv, Endpoint
      <3>. QED  BY <3>1 DEF DoneAt
    <2>3. CASE e = endpoint
      BY <2>3
    <2>. QED  BY <2>1, <2>2, <2>3
  <1>4. ASSUME NEW e \in Endpoint, e >= endpoint'
        PROVE  successes'[e] = 0 /\ failures'[e] = 0
    <2>1. e > endpoint /\ e # endpoint
      BY <1>1, <1>2, <1>4 DEF Endpoint
    <2>. QED  BY <2>1 DEF CountsInv
  <1>5. \A e \in Endpoint : e > endpoint' => e >= endpoint'
    BY <1>1, <1>2 DEF Endpoint
  <1>6. CASE endpoint < Endpoints
    <2>1. endpoint' \in Endpoint /\ endpoint' >= endpoint' /\ endpoint' # Endpoints + 1
      BY <1>1, <1>2, <1>6 DEF Endpoint
    <2>2. pc' = "seed"
      BY <1>2, <1>6
    <2>3. successes'[endpoint'] = 0 /\ failures'[endpoint'] = 0
      BY <1>4, <2>1
    <2>4. successes'[endpoint'] + failures'[endpoint'] < ReadsPerNode
      BY <1>1, <2>3
    <2>. QED  BY <1>3, <1>4, <1>5, <2>1, <2>2, <2>3, <2>4 DEF CountsInv
  <1>7. CASE ~(endpoint < Endpoints)
    <2>1. endpoint' = Endpoints + 1 /\ pc' = "finished"
      BY <1>1, <1>2, <1>7
    <2>. QED  BY <1>3, <1>4, <1>5, <2>1 DEF CountsInv
  <1>. QED  BY <1>6, <1>7

\* Without a subscription most of the invariant is immediate.
LEMMA ClosedHolds ==
  ASSUME TypeOK, UNCHANGED options, CountsInv', ExitInv',
         pc' \in {"seed", "subscribe", "finished"},
         endpoint' \in 1 .. (Endpoints + 1),
         successes' \in [Endpoint -> 0 .. ReadsPerNode],
         failures' \in [Endpoint -> 0 .. ReadsPerNode],
         seed' \in [Endpoint -> SeedStatus],
         exit' \in {"running", "success", "failure"},
         store' \subseteq Statement,
         toDump' = {}, dumping' = FALSE, toPush' = {}, again' = 0, stream' = <<>>,
         received' = 0, waited' = 0
  PROVE  IndInv'
  <1>1. ~Open'
    BY DEF Open
  <1>2. ClosedInv' /\ ModeInv' /\ NodeInv' /\ TallyInv'
    BY <1>1 DEF ClosedInv, ModeInv, NodeInv, TallyInv
  <1>3. StreamInv'
    BY DEF StreamInv
  <1>4. TypeOK'
    <2>1. topicOverride' \in BOOLEAN /\ assertOnce' \in BOOLEAN
      BY DEF TypeOK, options
    <2>2. pc' \in Location
      BY DEF Location
    <2>3. received' \in Nat /\ waited' \in 0 .. Timeout /\ again' \in 0 .. Redelivered
      BY ConfigAssumption
    <2>4. toDump' \subseteq store' /\ toPush' \subseteq store'
      OBVIOUS
    <2>5. stream' \in Seq(Event \cup {Closed, StreamError})
      OBVIOUS
    <2>6. dumping' \in BOOLEAN
      OBVIOUS
    <2>. QED  BY <2>1, <2>2, <2>3, <2>4, <2>5, <2>6 DEF TypeOK
  <1>. QED  BY <1>2, <1>3, <1>4 DEF IndInv

LEMMA NextEndpointType ==
  ASSUME TypeOK, CountsInv, pc # "finished", NextEndpoint
  PROVE  /\ pc' \in {"seed", "finished"}
         /\ endpoint' \in 1 .. (Endpoints + 1)
         /\ store' \subseteq Statement
  <1>1. endpoint \in Nat /\ endpoint <= Endpoints /\ Endpoints \in Nat /\ endpoint >= 1
    BY Visited DEF Endpoint
  <1>2. store \subseteq Statement
    BY DEF TypeOK
  <1>3. pc' \in {"seed", "finished"} /\ store' \subseteq Statement
    BY <1>2 DEF NextEndpoint
  <1>4. endpoint' = endpoint + 1
    BY DEF NextEndpoint
  <1>. QED  BY <1>1, <1>3, <1>4

LEMMA EndReadHolds ==
  ASSUME IndInv, NEW ok \in BOOLEAN, pc = "subscribe" \/ Open, EndRead(ok),
         UNCHANGED options
  PROVE  IndInv'
  <1>1. pc \notin {"finished", "seed"} /\ TypeOK /\ CountsInv
    BY DEF IndInv, Open
  <1>2. /\ endpoint \in Endpoint /\ endpoint \in Nat
        /\ successes[endpoint] \in Nat /\ failures[endpoint] \in Nat
        /\ ReadsPerNode \in Nat \ {0}
        /\ successes[endpoint] + failures[endpoint] < ReadsPerNode
        /\ seed[endpoint] # "Failed"
    BY <1>1, Visited DEF CountsInv
  <1>3. /\ successes' = [successes EXCEPT ![endpoint] =
                           IF ok THEN successes[endpoint] + 1 ELSE successes[endpoint]]
        /\ failures' = [failures EXCEPT ![endpoint] =
                          IF ok THEN failures[endpoint] ELSE failures[endpoint] + 1]
        /\ seed' = seed /\ exit' = exit /\ received' = 0 /\ waited' = 0
    BY DEF EndRead, Forget
  <1>4. toDump' = {} /\ dumping' = FALSE /\ toPush' = {} /\ again' = 0 /\ stream' = <<>>
    BY DEF EndRead, DropSubscription
  <1>5. \A e \in Endpoint : e # endpoint =>
          successes'[e] = successes[e] /\ failures'[e] = failures[e] /\ seed'[e] = seed[e]
    BY <1>1, <1>3 DEF TypeOK
  <1>6. /\ successes'[endpoint] =
             IF ok THEN successes[endpoint] + 1 ELSE successes[endpoint]
        /\ failures'[endpoint] =
             IF ok THEN failures[endpoint] ELSE failures[endpoint] + 1
        /\ seed'[endpoint] = seed[endpoint]
    BY <1>1, <1>2, <1>3 DEF TypeOK
  <1>7. successes'[endpoint] + failures'[endpoint]
          = successes[endpoint] + failures[endpoint] + 1
    BY <1>2, <1>6
  <1>8. /\ successes' \in [Endpoint -> 0 .. ReadsPerNode]
        /\ failures' \in [Endpoint -> 0 .. ReadsPerNode]
    <2>1. successes'[endpoint] \in 0 .. ReadsPerNode
          /\ failures'[endpoint] \in 0 .. ReadsPerNode
      BY <1>2, <1>6
    <2>. QED  BY <1>1, <1>3, <1>6, <2>1 DEF TypeOK
  <1>9. exit = "running"
    BY <1>1 DEF IndInv, ExitInv
  <1>10. CASE MoreReads(successes[endpoint] + failures[endpoint] + 1)
    <2>1. pc' = "subscribe" /\ endpoint' = endpoint /\ store' = store
      BY <1>10 DEF EndRead
    <2>2. successes'[endpoint] + failures'[endpoint] < ReadsPerNode
      BY <1>7, <1>10 DEF MoreReads
    <2>3. CountsInv'
      <3>1. ASSUME NEW e \in Endpoint, e < endpoint PROVE DoneAt(e)'
        BY <1>1, <1>2, <1>5, <3>1 DEF CountsInv, DoneAt, Endpoint
      <3>2. ASSUME NEW e \in Endpoint, e > endpoint
            PROVE  successes'[e] = 0 /\ failures'[e] = 0
        BY <1>1, <1>2, <1>5, <3>2 DEF CountsInv, Endpoint
      <3>3. endpoint # Endpoints + 1
        BY <1>1 DEF CountsInv
      <3>. QED  BY <1>2, <1>6, <2>1, <2>2, <3>1, <3>2, <3>3 DEF CountsInv
    <2>4. store' \subseteq Statement /\ endpoint' \in 1 .. (Endpoints + 1)
          /\ seed' \in [Endpoint -> SeedStatus]
          /\ exit' \in {"running", "success", "failure"}
      BY <1>1, <1>3, <2>1 DEF TypeOK
    <2>5. ExitInv'
      BY <1>3, <1>9 DEF ExitInv
    <2>. QED  BY <1>1, <1>3, <1>4, <1>8, <2>1, <2>3, <2>4, <2>5, ClosedHolds
  <1>11. CASE ~MoreReads(successes[endpoint] + failures[endpoint] + 1)
    <2>1. NextEndpoint
      BY <1>11 DEF EndRead
    <2>2. successes'[endpoint] + failures'[endpoint] = ReadsPerNode
      BY <1>2, <1>7, <1>11 DEF MoreReads
    <2>3. CountsInv'
      <3>1. \A e \in Endpoint : e = endpoint => DoneAt(e)'
        BY <1>2, <1>6, <2>2 DEF DoneAt
      <3>. QED  BY <1>1, <1>5, <2>1, <3>1, NextEndpointCounts
    <2>4. /\ pc' \in {"seed", "finished"}
          /\ endpoint' \in 1 .. (Endpoints + 1)
          /\ store' \subseteq Statement
      BY <1>1, <2>1, NextEndpointType
    <2>5. /\ seed' \in [Endpoint -> SeedStatus]
          /\ exit' \in {"running", "success", "failure"}
      BY <1>1, <1>3 DEF TypeOK
    <2>6. ExitInv'
      BY <1>3, <1>9 DEF ExitInv
    <2>. QED  BY <1>1, <1>3, <1>4, <1>8, <2>3, <2>4, <2>5, <2>6, ClosedHolds
  <1>. QED  BY <1>10, <1>11

LEMMA SeedHolds ==
  ASSUME IndInv, NotSeeded \/ SeedSubmitted \/ SeedFailed, UNCHANGED options
  PROVE  IndInv'
  <1>1. pc = "seed" /\ ~Open /\ TypeOK /\ CountsInv /\ exit = "running"
    BY DEF NotSeeded, SeedSubmitted, SeedFailed, Open, IndInv, ExitInv
  <1>2. UNCHANGED <<exit, received, waited, nodeVars>>
    BY DEF NotSeeded, SeedSubmitted, SeedFailed
  <1>3. /\ toDump' = {} /\ dumping' = FALSE /\ toPush' = {} /\ again' = 0
        /\ stream' = <<>> /\ received' = 0 /\ waited' = 0
    <2>1. dumping \in BOOLEAN /\ ~dumping
      BY <1>1 DEF IndInv, ClosedInv, TypeOK
    <2>2. toDump = {} /\ toPush = {} /\ again = 0 /\ stream = <<>> /\ received = 0
          /\ waited = 0
      BY <1>1 DEF IndInv, ClosedInv
    <2>. QED  BY <1>2, <2>1, <2>2 DEF nodeVars
  <1>4. endpoint \in Endpoint /\ endpoint \in Nat /\ ReadsPerNode \in Nat \ {0}
    BY <1>1, Visited
  <1>5. ExitInv' /\ exit' \in {"running", "success", "failure"}
    BY <1>1, <1>2 DEF ExitInv
  <1>6. CASE NotSeeded \/ SeedSubmitted
    <2>1. PICK status \in {"NotSeeded", "Submitted"} :
            seed' = [seed EXCEPT ![endpoint] = status]
      BY <1>6 DEF NotSeeded, SeedSubmitted
    <2>2. UNCHANGED <<endpoint, successes, failures>> /\ pc' = "subscribe"
      BY <1>6 DEF NotSeeded, SeedSubmitted
    <2>3. store' \subseteq Statement
      <3>1. store \subseteq Statement
        BY <1>1 DEF TypeOK
      <3>. QED  BY <1>6, <3>1 DEF NotSeeded, SeedSubmitted
    <2>4. seed' \in [Endpoint -> SeedStatus]
      BY <1>1, <2>1 DEF TypeOK, SeedStatus
    <2>5. /\ seed'[endpoint] # "Failed"
          /\ \A e \in Endpoint : e # endpoint => seed'[e] = seed[e]
      BY <1>1, <1>4, <2>1 DEF TypeOK
    <2>6. CountsInv'
      <3>1. ASSUME NEW e \in Endpoint, e < endpoint PROVE DoneAt(e)'
        <4>1. e # endpoint /\ DoneAt(e)
          BY <1>1, <1>4, <3>1 DEF CountsInv, Endpoint
        <4>. QED  BY <2>2, <2>5, <4>1 DEF DoneAt
      <3>. QED  BY <1>1, <2>2, <2>5, <3>1 DEF CountsInv
    <2>7. /\ endpoint' \in 1 .. (Endpoints + 1)
          /\ successes' \in [Endpoint -> 0 .. ReadsPerNode]
          /\ failures' \in [Endpoint -> 0 .. ReadsPerNode]
      BY <1>1, <2>2 DEF TypeOK
    <2>. QED  BY <1>1, <1>3, <1>5, <2>2, <2>3, <2>4, <2>6, <2>7, ClosedHolds
  <1>7. CASE SeedFailed
    <2>1. /\ seed' = [seed EXCEPT ![endpoint] = "Failed"]
          /\ failures' = [failures EXCEPT ![endpoint] = 1]
          /\ successes' = successes /\ NextEndpoint
      BY <1>7 DEF SeedFailed
    <2>2. seed' \in [Endpoint -> SeedStatus]
      BY <1>1, <2>1 DEF TypeOK, SeedStatus
    <2>3. /\ successes' \in [Endpoint -> 0 .. ReadsPerNode]
          /\ failures' \in [Endpoint -> 0 .. ReadsPerNode]
      BY <1>1, <1>4, <2>1 DEF TypeOK
    <2>4. /\ pc' \in {"seed", "finished"}
          /\ endpoint' \in 1 .. (Endpoints + 1)
          /\ store' \subseteq Statement
      BY <1>1, <2>1, NextEndpointType
    <2>5. /\ seed'[endpoint] = "Failed" /\ failures'[endpoint] = 1
          /\ successes'[endpoint] = 0
      BY <1>1, <1>4, <2>1 DEF TypeOK, CountsInv
    <2>6. \A e \in Endpoint : e # endpoint =>
            /\ successes'[e] = successes[e] /\ failures'[e] = failures[e]
            /\ seed'[e] = seed[e]
      BY <1>1, <2>1 DEF TypeOK
    <2>7. \A e \in Endpoint : e = endpoint => DoneAt(e)'
      BY <2>5 DEF DoneAt
    <2>8. CountsInv'
      BY <1>1, <2>1, <2>6, <2>7, NextEndpointCounts
    <2>. QED  BY <1>1, <1>3, <1>5, <2>2, <2>3, <2>4, <2>8, ClosedHolds
  <1>. QED  BY <1>6, <1>7

LEMMA ExitHolds == ASSUME IndInv, Exit, UNCHANGED options PROVE IndInv'
  <1>1. /\ pc = "finished" /\ ~Open /\ TypeOK
        /\ exit' = IF assertOnce /\ SomeFailed THEN "failure" ELSE "success"
        /\ UNCHANGED <<pc, endpoint, successes, failures, seed, received, waited,
                       store, nodeVars>>
    BY DEF Exit, Open, IndInv
  <1>2. /\ toDump' = {} /\ dumping' = FALSE /\ toPush' = {} /\ again' = 0
        /\ stream' = <<>> /\ received' = 0 /\ waited' = 0
    <2>1. dumping \in BOOLEAN /\ ~dumping
      BY <1>1 DEF IndInv, ClosedInv, TypeOK
    <2>2. toDump = {} /\ toPush = {} /\ again = 0 /\ stream = <<>> /\ received = 0
          /\ waited = 0
      BY <1>1 DEF IndInv, ClosedInv
    <2>. QED  BY <1>1, <2>1, <2>2 DEF nodeVars
  <1>3. CountsInv'
    BY <1>1 DEF IndInv, CountsInv, DoneAt
  <1>4. ExitInv' /\ exit' \in {"running", "success", "failure"}
    <2>1. assertOnce' = assertOnce /\ SomeFailed' = SomeFailed
      BY <1>1 DEF options, SomeFailed
    <2>2. CASE assertOnce /\ SomeFailed
      BY <1>1, <2>1, <2>2 DEF ExitInv
    <2>3. CASE ~(assertOnce /\ SomeFailed)
      BY <1>1, <2>1, <2>3 DEF ExitInv
    <2>. QED  BY <2>2, <2>3
  <1>5. /\ endpoint' \in 1 .. (Endpoints + 1)
        /\ successes' \in [Endpoint -> 0 .. ReadsPerNode]
        /\ failures' \in [Endpoint -> 0 .. ReadsPerNode]
        /\ seed' \in [Endpoint -> SeedStatus]
        /\ store' \subseteq Statement
    BY <1>1 DEF TypeOK
  <1>. QED  BY <1>1, <1>2, <1>3, <1>4, <1>5, ClosedHolds

-----------------------------------------------------------------------------
(* The steps of an open subscription. *)

LEMMA FrameType ==
  ASSUME TypeOK, UNCHANGED <<reportVars, options>>, pc' \in Location,
         received' \in Nat, waited' \in 0 .. Timeout,
         store' \subseteq Statement, toDump' \subseteq store', toPush' \subseteq store',
         dumping' \in BOOLEAN, again' \in 0 .. Redelivered, stream' \in Seq(AnyEvent)
  PROVE  TypeOK'
  <1>1. topicOverride' \in BOOLEAN /\ assertOnce' \in BOOLEAN
    BY DEF TypeOK, options
  <1>2. /\ endpoint' \in 1 .. (Endpoints + 1)
        /\ successes' \in [Endpoint -> 0 .. ReadsPerNode]
        /\ failures' \in [Endpoint -> 0 .. ReadsPerNode]
        /\ seed' \in [Endpoint -> SeedStatus]
        /\ exit' \in {"running", "success", "failure"}
    BY DEF TypeOK, reportVars
  <1>. QED  BY <1>1, <1>2 DEF TypeOK, AnyEvent

LEMMA FrameReport ==
  ASSUME CountsInv, ExitInv, UNCHANGED <<reportVars, options>>,
         pc' = pc \/ {pc, pc'} \cap {"seed", "finished"} = {}
  PROVE  CountsInv' /\ ExitInv'
  <1>1. UNCHANGED <<endpoint, successes, failures, seed, exit, assertOnce>>
    BY DEF reportVars, options
  <1>2. (pc' = "finished" <=> pc = "finished") /\ (pc' = "seed" <=> pc = "seed")
    OBVIOUS
  <1>3. CountsInv'
    BY <1>1, <1>2 DEF CountsInv, DoneAt
  <1>4. ExitInv'
    BY <1>1, <1>2 DEF ExitInv, SomeFailed
  <1>. QED  BY <1>3, <1>4

\* The statements pushed are counted.
LEMMA PushedType ==
  ASSUME TypeOK
  PROVE  /\ IsFiniteSet(store) /\ IsFiniteSet(store \ (toDump \cup toPush))
         /\ Cardinality(store \ (toDump \cup toPush)) \in Nat
         /\ Redelivered - again \in Nat /\ Pushed \in Nat
  <1>1. IsFiniteSet(store)
    BY ConfigAssumption, FS_Subset DEF TypeOK
  <1>2. IsFiniteSet(store \ (toDump \cup toPush))
    BY <1>1, FS_Subset
  <1>3. Cardinality(store \ (toDump \cup toPush)) \in Nat
    BY <1>2, FS_CardinalityType
  <1>4. Redelivered - again \in Nat
    BY ConfigAssumption DEF TypeOK
  <1>. QED  BY <1>1, <1>2, <1>3, <1>4 DEF Pushed

LEMMA OpenHolds == ASSUME IndInv, OpenSubscription, UNCHANGED options PROVE IndInv'
  <1>1. pc = "subscribe" /\ ~Open /\ TypeOK
    BY DEF OpenSubscription, Open, IndInv
  <1>2. /\ pc' = "dump" /\ Open'
        /\ toDump' = store /\ store' = store /\ dumping' = TRUE
        /\ again' = Redelivered
        /\ toPush' = {} /\ stream' = <<>> /\ received' = 0 /\ waited' = 0
        /\ UNCHANGED <<reportVars, options>>
    BY <1>1 DEF OpenSubscription, IndInv, ClosedInv, Open
  <1>3. TypeOK'
    <2>1. store' \subseteq Statement /\ toDump' \subseteq store' /\ toPush' \subseteq store'
      BY <1>1, <1>2 DEF TypeOK
    <2>2. received' \in Nat /\ waited' \in 0 .. Timeout /\ again' \in 0 .. Redelivered
      BY <1>2, ConfigAssumption
    <2>3. stream' \in Seq(AnyEvent)
      BY <1>2
    <2>4. pc' \in Location /\ dumping' \in BOOLEAN
      BY <1>2 DEF Location
    <2>. QED  BY <1>1, <1>2, <2>1, <2>2, <2>3, <2>4, FrameType
  <1>4. CountsInv' /\ ExitInv'
    BY <1>1, <1>2, FrameReport DEF IndInv
  <1>5. ClosedInv' /\ ModeInv' /\ NodeInv'
    BY <1>2 DEF ClosedInv, ModeInv, NodeInv
  <1>6. StreamInv'
    BY <1>2 DEF StreamInv
  <1>7. TallyInv'
    <2>1. store' \ (toDump' \cup toPush') = {}
      BY <1>2
    <2>2. Pushed' = 0
      BY <1>2, <2>1, FS_EmptySet, ConfigAssumption DEF Pushed
    <2>3. AddsUp(<<>>, 0, 0)
      BY EmptyAddsUp
    <2>. QED  BY <1>2, <2>2, <2>3 DEF TallyInv
  <1>. QED  BY <1>3, <1>4, <1>5, <1>6, <1>7 DEF IndInv

\* An event is pushed.
LEMMA PushStream ==
  ASSUME TypeOK, StreamInv, Open, ~Ended, NEW event \in AnyEvent, Push(event),
         pc' = pc, dumping' \in BOOLEAN, dumping' => dumping,
         Completes(event) => ~dumping',
         event.kind = "statements" => event.n > 0 \/ dumping,
         dumping /\ ~dumping' => Completes(event)
  PROVE  StreamInv'
  <1>. DEFINE n == Len(stream)
  <1>1. stream \in Seq(AnyEvent)
    BY DEF TypeOK, AnyEvent
  <1>2. /\ n \in Nat /\ DOMAIN stream = 1 .. n /\ Len(stream') = n + 1
        /\ DOMAIN stream' = 1 .. (n + 1)
        /\ stream'[n + 1] = event /\ \A i \in 1 .. n : stream'[i] = stream[i]
    BY <1>1 DEF Push
  <1>3. \A i \in 1 .. n : stream[i].kind = "statements"
    <2>. SUFFICES ASSUME NEW i \in 1 .. n, stream[i].kind # "statements" PROVE FALSE
      OBVIOUS
    <2>1. i = n
      BY <1>2 DEF StreamInv
    <2>2. stream # <<>>
      BY <1>1, <1>2
    <2>. QED  BY <2>1, <2>2 DEF Ended
  <1>4. /\ \A i \in 1 .. n : Completes(stream[i]) => ~dumping
        /\ \A i, j \in 1 .. n :
             i < j /\ Completes(stream[i]) /\ stream[j].kind = "statements" =>
               stream[j].n > 0
        /\ pc = "dump" /\ ~dumping => \E i \in 1 .. n : Completes(stream[i])
        /\ pc \in {"live", "idle"} =>
             /\ ~dumping
             /\ \A i \in 1 .. n : stream[i].kind = "statements" => stream[i].n > 0
    BY <1>2 DEF StreamInv
  <1>. HIDE DEF n
  <1>5. \A i \in 1 .. (n + 1) : i \in 1 .. n \/ i = n + 1
    BY <1>2
  <1>6. \A i \in DOMAIN stream' : stream'[i].kind # "statements" => i = Len(stream')
    BY <1>2, <1>3, <1>5
  <1>7. \A i \in DOMAIN stream' : Completes(stream'[i]) => ~dumping'
    BY <1>2, <1>4, <1>5
  <1>8. \A i, j \in DOMAIN stream' :
          i < j /\ Completes(stream'[i]) /\ stream'[j].kind = "statements" =>
            stream'[j].n > 0
    <2>. SUFFICES ASSUME NEW i \in 1 .. (n + 1), NEW j \in 1 .. (n + 1), i < j,
                         Completes(stream'[i]), stream'[j].kind = "statements"
                  PROVE  stream'[j].n > 0
      BY <1>2
    <2>1. i \in 1 .. n
      BY <1>2
    <2>2. Completes(stream[i])
      BY <1>2, <2>1
    <2>3. CASE j \in 1 .. n
      BY <1>2, <1>4, <2>1, <2>2, <2>3
    <2>4. CASE j = n + 1
      BY <1>2, <1>4, <2>1, <2>2, <2>4
    <2>. QED  BY <1>5, <2>3, <2>4
  <1>9. pc' = "dump" /\ ~dumping' => \E i \in DOMAIN stream' : Completes(stream'[i])
    <2>. SUFFICES ASSUME pc' = "dump", ~dumping'
                  PROVE  \E i \in DOMAIN stream' : Completes(stream'[i])
      OBVIOUS
    <2>1. CASE dumping
      <3>1. n + 1 \in DOMAIN stream' /\ Completes(stream'[n + 1])
        BY <1>2, <2>1
      <3>. QED  BY <3>1
    <2>2. CASE ~dumping
      <3>1. PICK i \in 1 .. n : Completes(stream[i])
        BY <1>4, <2>2
      <3>2. i \in DOMAIN stream' /\ stream'[i] = stream[i]
        BY <1>2
      <3>. QED  BY <3>1, <3>2
    <2>. QED  BY <2>1, <2>2
  <1>10. pc' \in {"live", "idle"} =>
           /\ ~dumping'
           /\ \A i \in DOMAIN stream' :
                stream'[i].kind = "statements" => stream'[i].n > 0
    BY <1>2, <1>4, <1>5
  <1>. QED  BY <1>6, <1>7, <1>8, <1>9, <1>10 DEF StreamInv

LEMMA PushHolds ==
  ASSUME IndInv, Open, ~Ended, NodeFrame, UNCHANGED options, store' = store,
         NEW event \in AnyEvent, Push(event),
         toDump' \subseteq store, toPush' \subseteq store, dumping' \in BOOLEAN,
         again' \in 0 .. Redelivered, NodeInv', Pushed' = Pushed + event.n,
         dumping' => dumping, Completes(event) => ~dumping',
         event.kind = "statements" => event.n > 0 \/ dumping,
         dumping /\ ~dumping' => Completes(event)
  PROVE  IndInv'
  <1>1. TypeOK /\ StreamInv /\ stream \in Seq(AnyEvent)
    BY DEF IndInv, TypeOK, AnyEvent
  <1>2. UNCHANGED <<reportVars, options>> /\ pc' = pc /\ received' = received
        /\ waited' = waited /\ Open'
    BY DEF NodeFrame, Open
  <1>3. StreamInv'
    BY <1>1, <1>2, PushStream
  <1>4. stream' = Append(stream, event) /\ stream' \in Seq(AnyEvent)
    BY <1>1 DEF Push
  <1>5. TypeOK'
    <2>1. pc' \in Location /\ received' \in Nat /\ waited' \in 0 .. Timeout
          /\ store' \subseteq Statement
      BY <1>1, <1>2 DEF TypeOK
    <2>. QED  BY <1>1, <1>2, <1>4, <2>1, FrameType
  <1>6. CountsInv' /\ ExitInv'
    BY <1>2, FrameReport DEF IndInv
  <1>7. ClosedInv' /\ ModeInv'
    BY <1>2 DEF IndInv, ClosedInv, ModeInv, options
  <1>8. TallyInv'
    <2>1. event.n \in Nat /\ Pushed \in Nat
      BY <1>1, EventsOfStream, PushedType
    <2>2. AddsUp(stream, received, Pushed)
      BY DEF IndInv, TallyInv
    <2>3. AddsUp(Append(stream, event), received, Pushed + event.n)
      BY <1>1, <2>1, <2>2, AppendAddsUp
    <2>. QED  BY <1>2, <1>4, <2>3 DEF TallyInv
  <1>. QED  BY <1>3, <1>5, <1>6, <1>7, <1>8 DEF IndInv

\* An event of n statements, n being at most what there is.
LEMMA StatementsType ==
  ASSUME NEW n \in 0 .. Cardinality(Statement), NEW last \in BOOLEAN
  PROVE  /\ Statements(n, last) \in AnyEvent
         /\ Statements(n, last).n = n
         /\ Completes(Statements(n, last)) <=> last
         /\ Statements(n, last).kind = "statements"
  BY DEF Statements, AnyEvent, Event, Completes

LEMMA PushDumpHolds == ASSUME IndInv, PushDump, UNCHANGED options PROVE IndInv'
  <1>1. /\ Open /\ dumping /\ ~Ended /\ NodeFrame
        /\ UNCHANGED <<store, toPush, again>>
        /\ TypeOK /\ NodeInv
    BY DEF PushDump, IndInv
  <1>2. PICK batch \in SUBSET toDump :
          /\ batch = {} => toDump = {}
          /\ Push(Statements(Cardinality(batch), batch = toDump))
          /\ toDump' = toDump \ batch
          /\ dumping' = (batch # toDump)
    BY DEF PushDump
  <1>3. /\ toDump \subseteq store /\ toPush \subseteq store /\ store \subseteq Statement
        /\ toDump \cap toPush = {} /\ again \in 0 .. Redelivered
    BY <1>1 DEF TypeOK, NodeInv
  <1>4. IsFiniteSet(Statement) /\ batch \subseteq Statement
    BY <1>3, ConfigAssumption
  <1>5. IsFiniteSet(batch) /\ Cardinality(batch) \in 0 .. Cardinality(Statement)
    <2>1. IsFiniteSet(batch) /\ Cardinality(batch) <= Cardinality(Statement)
      BY <1>4, FS_Subset
    <2>2. Cardinality(batch) \in Nat /\ Cardinality(Statement) \in Nat
      BY <1>4, <2>1, FS_CardinalityType
    <2>. QED  BY <2>1, <2>2
  <1>. DEFINE last == batch = toDump
              event == Statements(Cardinality(batch), last)
  <1>6. last \in BOOLEAN
    OBVIOUS
  <1>7. /\ event \in AnyEvent /\ event.n = Cardinality(batch)
        /\ Completes(event) <=> last
    BY <1>5, <1>6, StatementsType
  <1>8. dumping' \in BOOLEAN /\ (dumping' <=> ~last)
    BY <1>2
  <1>9. NodeInv'
    BY <1>1, <1>2, <1>3, <1>8 DEF NodeInv
  <1>10. Pushed' = Pushed + Cardinality(batch)
    <2>. DEFINE left == store \ (toDump \cup toPush)
    <2>1. store' \ (toDump' \cup toPush') = left \cup batch /\ left \cap batch = {}
      BY <1>1, <1>2, <1>3
    <2>2. IsFiniteSet(left) /\ Cardinality(left) \in Nat /\ Redelivered - again \in Nat
      BY <1>1, PushedType
    <2>3. Pushed = Cardinality(left) + (Redelivered - again)
      BY DEF Pushed
    <2>4. Pushed' = Cardinality(left \cup batch) + (Redelivered - again)
      BY <1>1, <2>1 DEF Pushed
    <2>. HIDE DEF left
    <2>5. Cardinality(left \cup batch)
            = Cardinality(left) + Cardinality(batch) - Cardinality(left \cap batch)
      BY <1>5, <2>2, FS_Union
    <2>6. Cardinality(left \cap batch) = 0
      BY <2>1, FS_EmptySet
    <2>7. Cardinality(batch) \in Nat
      BY <1>5, FS_CardinalityType
    <2>. QED  BY <2>2, <2>3, <2>4, <2>5, <2>6, <2>7
  <1>11. toDump' \subseteq store /\ toPush' \subseteq store /\ store' = store
         /\ again' \in 0 .. Redelivered /\ Push(event)
    BY <1>1, <1>2, <1>3
  <1>. HIDE DEF event
  <1>. QED  BY <1>1, <1>7, <1>8, <1>9, <1>10, <1>11, PushHolds

LEMMA PushLiveHolds == ASSUME IndInv, PushLive, UNCHANGED options PROVE IndInv'
  <1>1. /\ Open /\ ~dumping /\ ~Ended /\ NodeFrame
        /\ UNCHANGED <<store, toDump, dumping>>
        /\ Push(Statements(1, TRUE))
        /\ TypeOK /\ NodeInv
    BY DEF PushLive, IndInv
  <1>2. /\ toDump = {} /\ toPush \subseteq store /\ store \subseteq Statement
        /\ again \in 0 .. Redelivered /\ Redelivered \in Nat
    BY <1>1, ConfigAssumption DEF TypeOK, NodeInv
  <1>. DEFINE event == Statements(1, TRUE)
              left == store \ (toDump \cup toPush)
  <1>3. store # {}
    BY <1>2 DEF PushLive
  <1>4. event \in AnyEvent /\ event.n = 1 /\ Completes(event)
    <2>1. IsFiniteSet(Statement) /\ Statement # {}
      BY <1>2, <1>3, ConfigAssumption
    <2>2. Cardinality(Statement) \in Nat /\ Cardinality(Statement) # 0
      BY <2>1, FS_CardinalityType, FS_EmptySet
    <2>3. 1 \in 0 .. Cardinality(Statement)
      BY <2>2
    <2>. QED  BY <2>3, StatementsType
  <1>5. /\ IsFiniteSet(left) /\ Cardinality(left) \in Nat /\ Redelivered - again \in Nat
        /\ Pushed = Cardinality(left) + (Redelivered - again)
    BY <1>1, PushedType DEF Pushed
  <1>6. Pushed' = Cardinality(store \ (toDump \cup toPush')) + (Redelivered - again')
    BY <1>1 DEF Pushed
  <1>7. /\ toPush' \subseteq store /\ again' \in 0 .. Redelivered
        /\ Pushed' = Pushed + 1
    <2>1. CASE \E s \in toPush : toPush' = toPush \ {s} /\ again' = again
      <3>. PICK s \in toPush : toPush' = toPush \ {s} /\ again' = again
        BY <2>1
      <3>1. store \ (toDump \cup toPush') = left \cup {s} /\ s \notin left
        BY <1>2
      <3>. HIDE DEF left
      <3>2. Cardinality(left \cup {s}) = Cardinality(left) + 1
        BY <1>5, <3>1, FS_AddElement
      <3>3. toPush' \subseteq store /\ again' = again
        BY <1>2
      <3>4. Pushed' = Cardinality(left) + 1 + (Redelivered - again)
        BY <1>6, <3>1, <3>2, <3>3
      <3>. QED  BY <1>2, <1>5, <3>3, <3>4
    <2>2. CASE again > 0 /\ again' = again - 1 /\ toPush' = toPush
      <3>1. Pushed' = Cardinality(left) + (Redelivered - again')
        BY <1>6, <2>2
      <3>. HIDE DEF left
      <3>. QED  BY <1>2, <1>5, <2>2, <3>1
    <2>. QED  BY <2>1, <2>2 DEF PushLive
  <1>8. NodeInv'
    BY <1>1, <1>2 DEF NodeInv
  <1>9. toDump' \subseteq store /\ dumping' \in BOOLEAN /\ ~dumping' /\ store' = store
    BY <1>1, <1>2 DEF TypeOK
  <1>. HIDE DEF event
  <1>10. Push(event)
    BY <1>1 DEF event
  <1>. QED  BY <1>1, <1>4, <1>7, <1>8, <1>9, <1>10, PushHolds

LEMMA EndStreamHolds == ASSUME IndInv, EndStream, UNCHANGED options PROVE IndInv'
  <1>1. /\ Open /\ ~Ended /\ NodeFrame
        /\ UNCHANGED <<store, toDump, dumping, toPush, again>>
        /\ TypeOK /\ NodeInv
    BY DEF EndStream, IndInv
  <1>2. PICK event \in {Closed, StreamError} : Push(event)
    BY DEF EndStream
  <1>3. /\ event \in AnyEvent /\ event.n = 0 /\ ~Completes(event)
        /\ event.kind # "statements"
    BY DEF AnyEvent, Closed, StreamError, Completes
  <1>4. NodeInv' /\ Pushed' = Pushed
    BY <1>1 DEF NodeInv, Pushed, Open, NodeFrame
  <1>5. Pushed' = Pushed + event.n
    BY <1>1, <1>3, <1>4, PushedType
  <1>6. /\ toDump' \subseteq store /\ toPush' \subseteq store /\ store' = store
        /\ dumping' \in BOOLEAN /\ again' \in 0 .. Redelivered
    BY <1>1 DEF TypeOK
  <1>. QED  BY <1>1, <1>2, <1>3, <1>4, <1>5, <1>6, PushHolds

LEMMA ArrivesHolds == ASSUME IndInv, StatementArrives, UNCHANGED options PROVE IndInv'
  <1>1. /\ pc \notin {"seed", "finished"} /\ NodeFrame /\ TypeOK
        /\ UNCHANGED <<toDump, dumping, again, stream>>
    BY DEF StatementArrives, IndInv
  <1>2. PICK s \in Statement \ store :
          store' = store \cup {s}
          /\ toPush' = IF Open THEN toPush \cup {s} ELSE toPush
    BY DEF StatementArrives
  <1>3. UNCHANGED <<reportVars, options>> /\ pc' = pc /\ received' = received
        /\ waited' = waited /\ Open' = Open
    BY <1>1 DEF NodeFrame, Open
  <1>4. /\ store' \subseteq Statement /\ toDump' \subseteq store'
        /\ toPush' \subseteq store'
    BY <1>1, <1>2 DEF TypeOK
  <1>5. TypeOK'
    <2>1. /\ pc' \in Location /\ received' \in Nat /\ waited' \in 0 .. Timeout
          /\ dumping' \in BOOLEAN /\ again' \in 0 .. Redelivered
          /\ stream' \in Seq(AnyEvent)
      BY <1>1, <1>3 DEF TypeOK, AnyEvent
    <2>. QED  BY <1>1, <1>3, <1>4, <2>1, FrameType
  <1>6. CountsInv' /\ ExitInv'
    BY <1>3, FrameReport DEF IndInv
  <1>7. ClosedInv' /\ ModeInv' /\ StreamInv'
    BY <1>1, <1>2, <1>3 DEF IndInv, ClosedInv, ModeInv, StreamInv, options
  <1>8. NodeInv'
    BY <1>1, <1>2, <1>3 DEF IndInv, NodeInv, TypeOK
  <1>9. TallyInv'
    <2>. SUFFICES ASSUME Open' PROVE AddsUp(stream', received', Pushed')
      BY DEF TallyInv
    <2>1. store' \ (toDump' \cup toPush') = store \ (toDump \cup toPush)
      BY <1>1, <1>2, <1>3 DEF TypeOK
    <2>2. Pushed' = Pushed
      BY <1>1, <2>1 DEF Pushed
    <2>. QED  BY <1>1, <1>3, <2>2 DEF IndInv, TallyInv
  <1>. QED  BY <1>5, <1>6, <1>7, <1>8, <1>9 DEF IndInv

LEMMA TickHolds == ASSUME IndInv, Tick \/ UNCHANGED vars PROVE IndInv'
  <1>1. UNCHANGED <<options, pc, reportVars, received, store, nodeVars>> /\ TypeOK
    BY DEF Tick, vars, IndInv
  <1>2. UNCHANGED <<toDump, dumping, toPush, again, stream>> /\ Open' = Open
    BY <1>1 DEF nodeVars, Open
  <1>3. waited' \in 0 .. Timeout /\ (~Open => waited' = waited)
    BY <1>1, ConfigAssumption DEF Tick, vars, TypeOK
  <1>4. TypeOK'
    <2>1. /\ pc' \in Location /\ received' \in Nat
          /\ store' \subseteq Statement /\ toDump' \subseteq store'
          /\ toPush' \subseteq store'
          /\ dumping' \in BOOLEAN /\ again' \in 0 .. Redelivered
          /\ stream' \in Seq(AnyEvent)
      BY <1>1, <1>2 DEF TypeOK, AnyEvent
    <2>. QED  BY <1>1, <1>3, <2>1, FrameType
  <1>5. CountsInv' /\ ExitInv'
    BY <1>1, FrameReport DEF IndInv
  <1>6. ClosedInv' /\ ModeInv' /\ StreamInv' /\ NodeInv'
    BY <1>1, <1>2, <1>3 DEF IndInv, ClosedInv, ModeInv, StreamInv, NodeInv, options
  <1>7. TallyInv'
    <2>1. Pushed' = Pushed
      BY <1>1, <1>2 DEF Pushed
    <2>. QED  BY <1>1, <1>2, <2>1 DEF IndInv, TallyInv
  <1>. QED  BY <1>4, <1>5, <1>6, <1>7 DEF IndInv

\* An event is read and the read goes on.
LEMMA AwaitHolds ==
  ASSUME IndInv, UNCHANGED options, Open, stream # <<>>,
         Head(stream).kind = "statements", stream' = Tail(stream),
         NEW location \in {"dump", "live", "idle"},
         Await(location, received + Head(stream).n),
         location = "dump" => pc = "dump" /\ ~Head(stream).last,
         location # "dump" => Completes(Head(stream)) \/ pc = "idle",
         location = "live" =>
           topicOverride /\ ~assertOnce /\ received + Head(stream).n = 0,
         location = "idle" => assertOnce
  PROVE  IndInv'
  <1>1. TypeOK /\ stream \in Seq(AnyEvent)
    BY DEF IndInv, TypeOK, AnyEvent
  <1>2. Head(stream) \in AnyEvent /\ Head(stream).n \in Nat
    <2>1. Head(stream) \in AnyEvent
      BY <1>1
    <2>. QED  BY <2>1, EventsOfStream
  <1>3. /\ pc' = location /\ received' = received + Head(stream).n /\ waited' = 0
        /\ UNCHANGED <<reportVars, store, toDump, dumping, toPush, again>>
    BY DEF Await
  <1>4. Open' /\ {pc, pc'} \cap {"seed", "finished"} = {}
    BY <1>3 DEF Open
  <1>5. TypeOK'
    <2>1. pc' \in Location
      BY <1>3 DEF Location
    <2>2. received' \in Nat /\ waited' \in 0 .. Timeout
      BY <1>1, <1>2, <1>3, ConfigAssumption DEF TypeOK
    <2>3. /\ store' \subseteq Statement /\ toDump' \subseteq store'
          /\ toPush' \subseteq store'
          /\ dumping' \in BOOLEAN /\ again' \in 0 .. Redelivered
      BY <1>1, <1>3 DEF TypeOK
    <2>4. stream' \in Seq(AnyEvent)
      BY <1>1
    <2>. QED  BY <1>1, <1>3, <2>1, <2>2, <2>3, <2>4, FrameType
  <1>6. CountsInv' /\ ExitInv'
    BY <1>3, <1>4, FrameReport DEF IndInv
  <1>7. ClosedInv' /\ ModeInv' /\ NodeInv'
    BY <1>3, <1>4 DEF IndInv, ClosedInv, ModeInv, NodeInv, options
  <1>8. StreamInv'
    <2>. DEFINE n == Len(stream')
    <2>1. /\ n \in Nat /\ Len(stream) = n + 1 /\ DOMAIN stream' = 1 .. n
          /\ DOMAIN stream = 1 .. (n + 1)
          /\ Head(stream) = stream[1]
          /\ \A i \in 1 .. n : stream'[i] = stream[i + 1]
      BY <1>1
    <2>. HIDE DEF n
    <2>2. \A i \in 1 .. n : i + 1 \in DOMAIN stream /\ 1 \in DOMAIN stream
      BY <2>1
    <2>3. \A i \in 1 .. n : stream'[i].kind # "statements" => i = n
      <3>. SUFFICES ASSUME NEW i \in 1 .. n, stream[i + 1].kind # "statements"
                    PROVE  i = n
        BY <2>1
      <3>1. i + 1 = n + 1
        BY <2>1, <2>2 DEF IndInv, StreamInv
      <3>. QED  BY <2>1, <3>1
    <2>4. \A i \in 1 .. n : Completes(stream'[i]) => ~dumping'
      BY <1>3, <2>1, <2>2 DEF IndInv, StreamInv
    <2>5. \A i, j \in 1 .. n :
            i < j /\ Completes(stream'[i]) /\ stream'[j].kind = "statements" =>
              stream'[j].n > 0
      <3>. SUFFICES ASSUME NEW i \in 1 .. n, NEW j \in 1 .. n, i < j,
                           Completes(stream[i + 1]), stream[j + 1].kind = "statements"
                    PROVE  stream[j + 1].n > 0
        BY <2>1
      <3>1. i + 1 < j + 1
        BY <2>1
      <3>. QED  BY <2>2, <3>1 DEF IndInv, StreamInv
    <2>6. pc' = "dump" /\ ~dumping' => \E i \in 1 .. n : Completes(stream'[i])
      <3>. SUFFICES ASSUME pc' = "dump", ~dumping
                    PROVE  \E i \in 1 .. n : Completes(stream'[i])
        BY <1>3
      <3>1. PICK k \in DOMAIN stream : Completes(stream[k])
        BY <1>3 DEF IndInv, StreamInv
      <3>2. k # 1
        BY <1>3, <2>1, <3>1 DEF Completes
      <3>3. k - 1 \in 1 .. n /\ stream'[k - 1] = stream[k]
        BY <2>1, <3>2
      <3>. QED  BY <3>1, <3>3
    <2>7. ASSUME pc' \in {"live", "idle"}
          PROVE  /\ ~dumping'
                 /\ \A i \in 1 .. n : stream'[i].kind = "statements" => stream'[i].n > 0
      <3>1. CASE pc = "idle"
        BY <1>3, <2>1, <2>2, <3>1 DEF IndInv, StreamInv
      <3>2. CASE pc # "idle"
        <4>1. Completes(stream[1]) /\ 1 \in DOMAIN stream
          BY <1>3, <2>1, <2>7, <3>2
        <4>2. ~dumping
          BY <4>1 DEF IndInv, StreamInv
        <4>3. ASSUME NEW i \in 1 .. n, stream[i + 1].kind = "statements"
              PROVE  stream[i + 1].n > 0
          <5>1. 1 < i + 1
            BY <2>1
          <5>. QED  BY <2>2, <4>1, <4>3, <5>1 DEF IndInv, StreamInv
        <4>. QED  BY <1>3, <2>1, <4>2, <4>3
      <3>. QED  BY <3>1, <3>2
    <2>. QED  BY <2>1, <2>3, <2>4, <2>5, <2>6, <2>7 DEF StreamInv, n
  <1>9. TallyInv'
    <2>1. Pushed' = Pushed
      BY <1>3 DEF Pushed
    <2>2. received \in Nat /\ AddsUp(stream, received, Pushed)
      BY <1>1 DEF IndInv, TallyInv, TypeOK
    <2>3. AddsUp(Tail(stream), received + Head(stream).n, Pushed)
      BY <1>1, <1>2, <2>2, TailAddsUp
    <2>. QED  BY <1>3, <2>1, <2>3 DEF TallyInv
  <1>. QED  BY <1>5, <1>6, <1>7, <1>8, <1>9 DEF IndInv

LEMMA ReadHolds ==
  ASSUME IndInv, ReadDump \/ ReadLive \/ ReadIdle \/ TimesOut, UNCHANGED options
  PROVE  IndInv'
  <1>1. Open
    BY DEF ReadDump, ReadLive, ReadIdle, TimesOut, Open
  <1>2. ASSUME NEW ok, EndRead(ok), ok \in BOOLEAN PROVE IndInv'
    BY <1>1, <1>2, EndReadHolds
  <1>3. received \in Nat /\ (stream # <<>> => Head(stream).n \in Nat)
    <2>1. received \in Nat /\ stream \in Seq(AnyEvent)
      BY DEF IndInv, TypeOK, AnyEvent
    <2>2. stream # <<>> => Head(stream) \in AnyEvent
      BY <2>1
    <2>. QED  BY <2>1, <2>2, EventsOfStream
  <1>. DEFINE event == Head(stream)
              count == received + event.n
  <1>4. CASE ReadDump
    <2>0. pc = "dump" /\ stream # <<>>
      BY <1>4 DEF ReadDump
    <2>1. CASE event.kind = "statements" /\ ~event.last
               /\ stream' = Tail(stream) /\ Await("dump", count)
      BY <1>1, <2>0, <2>1, AwaitHolds
    <2>2. CASE event.kind = "statements" /\ event.last /\ assertOnce
               /\ stream' = Tail(stream) /\ Await("idle", count)
      BY <1>1, <2>0, <2>2, AwaitHolds DEF Completes
    <2>3. CASE event.kind = "statements" /\ event.last /\ ~assertOnce
               /\ count = 0 /\ topicOverride
               /\ stream' = Tail(stream) /\ Await("live", count)
      BY <1>1, <2>0, <2>3, AwaitHolds DEF Completes
    <2>4. CASE EndRead(count > 0)
      <3>1. EndRead(TRUE) \/ EndRead(FALSE)
        BY <2>4 DEF EndRead
      <3>. QED  BY <1>2, <3>1
    <2>5. CASE EndRead(FALSE)
      BY <1>2, <2>5
    <2>. QED  BY <1>4, <2>1, <2>2, <2>3, <2>4, <2>5 DEF ReadDump
  <1>5. CASE ReadLive
    <2>1. EndRead(event.n > 0)
      BY <1>5 DEF ReadLive
    <2>2. EndRead(TRUE) \/ EndRead(FALSE)
      BY <2>1 DEF EndRead
    <2>. QED  BY <1>2, <2>2
  <1>6. CASE ReadIdle
    <2>0. pc = "idle" /\ stream # <<>> /\ assertOnce
      BY <1>6 DEF ReadIdle, IndInv, ModeInv
    <2>1. CASE event.kind = "statements" /\ stream' = Tail(stream)
               /\ Await("idle", count)
      BY <1>1, <2>0, <2>1, AwaitHolds
    <2>2. CASE EndRead(ExactlyOnce(received))
      BY <1>2, <2>2 DEF ExactlyOnce
    <2>3. CASE EndRead(FALSE)
      BY <1>2, <2>3
    <2>. QED  BY <1>6, <2>1, <2>2, <2>3 DEF ReadIdle
  <1>7. CASE TimesOut
    <2>1. EndRead(pc = "idle" /\ ExactlyOnce(received))
      BY <1>7 DEF TimesOut
    <2>. QED  BY <1>2, <2>1
  <1>. QED  BY <1>4, <1>5, <1>6, <1>7

LEMMA NextHolds == ASSUME IndInv, [Next]_vars PROVE IndInv'
  <1>1. ASSUME SubscribeFails, UNCHANGED options PROVE IndInv'
    BY <1>1, EndReadHolds DEF SubscribeFails
  <1>2. CASE Reader
    BY <1>1, <1>2, SeedHolds, OpenHolds, ReadHolds, ExitHolds DEF Reader
  <1>3. CASE Node
    BY <1>3, ArrivesHolds, PushDumpHolds, PushLiveHolds, EndStreamHolds DEF Node
  <1>. QED  BY <1>2, <1>3, TickHolds DEF Next

LEMMA Invariant == Spec => []IndInv
  <1>. QED  BY InitHolds, NextHolds, PTL DEF Spec

-----------------------------------------------------------------------------
(* Theorems. *)

\* The state of the benchmark has the types stated; in particular no more reads are
\* counted than --reads-per-node, whatever the node pushes.
THEOREM TypeCorrect == Spec => []TypeOK
  <1>. IndInv => TypeOK
    BY DEF IndInv
  <1>. QED  BY Invariant, PTL

\* The report leaves nothing out, and the exit status of --assert-once follows from
\* all reads on all endpoints (run_subscribe_cmd).
THEOREM ReportIsTrue == Spec => []ReportTrue
  <1>1. ASSUME IndInv PROVE ReportTrue
    <2>. SUFFICES ASSUME exit # "running" PROVE ExitGate /\ ReportComplete
      BY DEF ReportTrue
    <2>1. /\ TypeOK /\ CountsInv /\ pc = "finished"
          /\ exit = "success" <=> ~(assertOnce /\ SomeFailed)
      BY <1>1 DEF IndInv, ExitInv
    <2>2. Endpoints \in Nat /\ ReadsPerNode \in Nat \ {0}
      BY ConfigAssumption
    <2>3. \A e \in Endpoint : DoneAt(e)
      BY <2>1, <2>2 DEF CountsInv, Endpoint
    <2>4. ReportComplete
      BY <2>3 DEF ReportComplete, DoneAt
    <2>5. ASSUME NEW e \in Endpoint
          PROVE  failures[e] > 0 <=> successes[e] # ReadsPerNode
      <3>1. successes[e] \in Nat /\ failures[e] \in Nat
        BY <2>1, <2>2 DEF TypeOK
      <3>2. \/ successes[e] = 0 /\ failures[e] = 1
            \/ successes[e] + failures[e] = ReadsPerNode
        BY <2>3 DEF DoneAt
      <3>. QED  BY <2>2, <3>1, <3>2
    <2>6. ExitGate
      BY <2>1, <2>5 DEF ExitGate, SomeFailed
    <2>. QED  BY <2>4, <2>6
  <1>. QED  BY <1>1, Invariant, PTL

\* Which count a read that returns adds to.
LEMMA EndReadCounts ==
  ASSUME TypeOK, CountsInv, pc \notin {"finished", "seed"}, NEW ok \in BOOLEAN,
         EndRead(ok)
  PROVE  (ReadSucceeds => ok) /\ (ReadFails => ~ok)
  <1>1. \A e \in Endpoint : successes[e] \in Nat /\ failures[e] \in Nat
    BY ConfigAssumption DEF TypeOK
  <1>2. ASSUME ~ok PROVE successes' = successes
    BY <1>2 DEF EndRead, TypeOK
  <1>3. ASSUME ok PROVE failures' = failures
    BY <1>3 DEF EndRead, TypeOK
  <1>. QED  BY <1>1, <1>2, <1>3 DEF ReadSucceeds, ReadFails

\* What has been collected is what was pushed, when nothing is left unread.
LEMMA AllCollected ==
  ASSUME IndInv, Open
  PROVE  /\ stream = <<>> => received = Pushed
         /\ stream # <<>> /\ Head(stream).kind # "statements" => received = Pushed
  <1>1. /\ received \in Nat /\ stream \in Seq(AnyEvent)
        /\ AddsUp(stream, received, Pushed)
    BY DEF IndInv, TypeOK, TallyInv, AnyEvent
  <1>2. stream = <<>> => received = Pushed
    BY <1>1, EmptyAddsUp
  <1>3. ASSUME stream # <<>>, Head(stream).kind # "statements"
        PROVE  received = Pushed
    <2>1. Head(stream) = stream[1] /\ 1 \in DOMAIN stream /\ Head(stream) \in AnyEvent
      BY <1>1, <1>3
    <2>2. 1 = Len(stream)
      BY <1>3, <2>1 DEF IndInv, StreamInv
    <2>3. stream[1].n = 0
      BY <1>3, <2>1, EventsOfStream
    <2>4. PICK t \in [0 .. 1 -> Nat] :
            t[0] = received /\ t[1] = Pushed /\ t[1] = t[1 - 1] + stream[1].n
      BY <1>1, <2>2 DEF AddsUp
    <2>. QED  BY <2>3, <2>4
  <1>. QED  BY <1>2, <1>3

\* A read that passes --assert-once was given one statement, once, from its opening
\* to the end of its window; a plain read fails because the stream ended, the dump
\* was not completed in time, or the node held nothing and pushed nothing
\* (drain_initial_batch, run_single_read, run_assert_once_read).
THEOREM VerdictIsTrue == Spec => VerdictTrue
  <1>. DEFINE Verdict == PassMeansOnce /\ FailureMeansAbsent
  <1>1. ASSUME IndInv, Next PROVE Verdict
    <2>1. ASSUME UNCHANGED <<successes, failures>> PROVE Verdict
      <3>1. \A e \in Endpoint : successes[e] \in Nat /\ failures[e] \in Nat
        BY <1>1, ConfigAssumption DEF IndInv, TypeOK
      <3>2. ~ReadSucceeds /\ ~ReadFails
        BY <2>1, <3>1 DEF ReadSucceeds, ReadFails
      <3>. QED  BY <3>2 DEF PassMeansOnce, FailureMeansAbsent
    <2>2. ASSUME ~Open, successes' = successes PROVE Verdict
      <3>1. ~ReadSucceeds
        <4>1. \A e \in Endpoint : successes[e] \in Nat
          BY <1>1, ConfigAssumption DEF IndInv, TypeOK
        <4>. QED  BY <2>2, <4>1 DEF ReadSucceeds
      <3>. QED  BY <2>2, <3>1 DEF PassMeansOnce, FailureMeansAbsent
    <2>3. ASSUME Open, NEW ok \in BOOLEAN, EndRead(ok)
          PROVE  (ReadSucceeds => ok) /\ (ReadFails => ~ok)
      BY <1>1, <2>3, EndReadCounts DEF IndInv, Open
    <2>. DEFINE event == Head(stream)
                count == received + event.n
    <2>4. received \in Nat /\ (stream # <<>> => event.n \in Nat)
      <3>1. received \in Nat /\ stream \in Seq(AnyEvent)
        BY <1>1 DEF IndInv, TypeOK, AnyEvent
      <3>2. stream # <<>> => event \in AnyEvent
        BY <3>1
      <3>. QED  BY <3>1, <3>2, EventsOfStream
    <2>5. CASE ReadDump
      <3>0. pc = "dump" /\ stream # <<>> /\ Open
        BY <2>5 DEF ReadDump, Open
      <3>1. CASE \E location : Await(location, count)
        BY <2>1, <3>1 DEF Await, reportVars
      <3>2. CASE event.kind = "statements" /\ ~assertOnce
                 /\ ~(count = 0 /\ topicOverride) /\ EndRead(count > 0)
        <4>1. CASE count > 0
          <5>1. EndRead(TRUE)
            BY <3>2, <4>1 DEF EndRead
          <5>2. ~ReadFails
            BY <2>3, <3>0, <5>1
          <5>. QED  BY <3>2, <5>2 DEF PassMeansOnce, FailureMeansAbsent
        <4>2. CASE ~(count > 0)
          <5>1. ~topicOverride
            BY <2>4, <3>0, <3>2, <4>2
          <5>. QED  BY <3>2, <5>1 DEF PassMeansOnce, FailureMeansAbsent
        <4>. QED  BY <4>1, <4>2
      <3>3. CASE event.kind # "statements" /\ EndRead(FALSE)
        <4>1. ~ReadSucceeds
          BY <2>3, <3>0, <3>3
        <4>. QED  BY <3>0, <3>3, <4>1 DEF PassMeansOnce, FailureMeansAbsent
      <3>. QED  BY <2>5, <3>1, <3>2, <3>3 DEF ReadDump
    <2>6. CASE ReadLive
      <3>0. pc = "live" /\ stream # <<>> /\ Open /\ ~assertOnce /\ EndRead(event.n > 0)
        BY <1>1, <2>6 DEF ReadLive, Open, IndInv, ModeInv
      <3>1. CASE event.n > 0
        <4>1. EndRead(TRUE)
          BY <3>0, <3>1 DEF EndRead
        <4>2. ~ReadFails
          BY <2>3, <3>0, <4>1
        <4>. QED  BY <3>0, <4>2 DEF PassMeansOnce, FailureMeansAbsent
      <3>2. CASE ~(event.n > 0)
        <4>1. event = stream[1] /\ 1 \in DOMAIN stream
          <5>1. stream \in Seq(AnyEvent)
            BY <1>1 DEF IndInv, TypeOK, AnyEvent
          <5>. QED  BY <3>0, <5>1
        <4>2. event.kind # "statements"
          BY <1>1, <3>0, <3>2, <4>1 DEF IndInv, StreamInv
        <4>. QED  BY <3>0, <4>2 DEF PassMeansOnce, FailureMeansAbsent
      <3>. QED  BY <3>1, <3>2
    <2>7. ASSUME pc = "idle", EndRead(ExactlyOnce(received)),
                 stream = <<>> \/ event.kind # "statements"
          PROVE  Verdict
      <3>1. assertOnce /\ Open /\ ~dumping
        BY <1>1, <2>7 DEF IndInv, ModeInv, StreamInv, Open
      <3>2. received = Pushed
        BY <1>1, <2>7, <3>1, AllCollected
      <3>3. ReadSucceeds => received = 1
        BY <2>3, <2>7, <3>1 DEF ExactlyOnce
      <3>. QED  BY <3>1, <3>2, <3>3 DEF PassMeansOnce, FailureMeansAbsent
    <2>8. CASE ReadIdle
      <3>0. pc = "idle" /\ Open /\ assertOnce
        BY <1>1, <2>8 DEF ReadIdle, Open, IndInv, ModeInv
      <3>1. CASE \E location : Await(location, count)
        BY <2>1, <3>1 DEF Await, reportVars
      <3>2. CASE event.kind = "closed" /\ EndRead(ExactlyOnce(received))
        BY <2>7, <3>0, <3>2
      <3>3. CASE EndRead(FALSE)
        <4>1. ~ReadSucceeds
          BY <2>3, <3>0, <3>3
        <4>. QED  BY <3>0, <4>1 DEF PassMeansOnce, FailureMeansAbsent
      <3>. QED  BY <2>8, <3>1, <3>2, <3>3 DEF ReadIdle
    <2>9. CASE TimesOut
      <3>0. Open /\ stream = <<>> /\ EndRead(pc = "idle" /\ ExactlyOnce(received))
        BY <2>9 DEF TimesOut
      <3>1. CASE pc = "idle"
        <4>1. EndRead(ExactlyOnce(received))
          BY <3>0, <3>1 DEF EndRead, ExactlyOnce
        <4>. QED  BY <2>7, <3>0, <3>1, <4>1
      <3>2. CASE pc # "idle"
        <4>1. EndRead(FALSE)
          BY <3>0, <3>2 DEF EndRead
        <4>2. ~ReadSucceeds
          BY <2>3, <3>0, <4>1
        <4>3. dumping \/ store \ toPush = {}
          <5>. SUFFICES ASSUME ~dumping PROVE store \ toPush = {}
            OBVIOUS
          <5>1. pc = "live"
            BY <1>1, <3>0, <3>2 DEF IndInv, StreamInv, Open
          <5>2. received = 0 /\ received = Pushed /\ toDump = {}
            BY <1>1, <3>0, <5>1, AllCollected DEF IndInv, ModeInv, NodeInv
          <5>3. /\ IsFiniteSet(store \ (toDump \cup toPush))
                /\ Cardinality(store \ (toDump \cup toPush)) \in Nat
                /\ Redelivered - again \in Nat
            BY <1>1, PushedType DEF IndInv
          <5>4. Cardinality(store \ (toDump \cup toPush)) = 0
            BY <5>2, <5>3 DEF Pushed
          <5>5. store \ (toDump \cup toPush) = {}
            BY <5>3, <5>4, FS_EmptySet
          <5>. QED  BY <5>2, <5>5
        <4>. QED  BY <3>0, <4>2, <4>3 DEF PassMeansOnce, FailureMeansAbsent
      <3>. QED  BY <3>1, <3>2
    <2>10. CASE SubscribeFails
      <3>1. ~Open /\ EndRead(FALSE)
        BY <2>10 DEF SubscribeFails, Open
      <3>2. successes' = successes
        BY <1>1, <3>1 DEF EndRead, IndInv, TypeOK
      <3>. QED  BY <2>2, <3>1, <3>2
    <2>11. CASE SeedFailed
      BY <2>2, <2>11 DEF SeedFailed, Open
    <2>12. CASE NotSeeded \/ SeedSubmitted \/ OpenSubscription \/ Exit
      BY <2>1, <2>12 DEF NotSeeded, SeedSubmitted, OpenSubscription, Exit, reportVars
    <2>13. CASE Node \/ Tick
      BY <2>1, <2>13 DEF Node, Tick, StatementArrives, PushDump, PushLive, EndStream,
         NodeFrame, reportVars
    <2>. QED  BY <1>1, <2>5, <2>6, <2>8, <2>9, <2>10, <2>11, <2>12, <2>13
              DEF Next, Reader
  <1>2. ASSUME IndInv, [Next]_vars PROVE [Verdict]_vars
    BY <1>1, <1>2
  <1>3. Spec => [][Verdict]_vars
    BY <1>2, Invariant, PTL DEF Spec
  <1>. QED  BY <1>3 DEF VerdictTrue
=============================================================================
