---------------------------- MODULE SubmitProofs ----------------------------
(***************************************************************************)
(* Proofs about SubmitBench, for every number of endpoints, iterations and *)
(* statements per batch, and every width of the indices and counts.        *)
(***************************************************************************)
EXTENDS SubmitBench, FiniteSetTheorems, TLAPS

-----------------------------------------------------------------------------
(* Remainders, and the lesser of two numbers. *)

LEMMA ModUnique ==
  ASSUME NEW m \in Nat \ {0}, NEW q \in Nat, NEW r \in 0 .. (m - 1)
  PROVE  (q * m + r) % m = r
  <1>. DEFINE x == q * m + r
              q2 == x \div m
              r2 == x % m
  <1>1. q * m \in Nat /\ x \in Nat
    OBVIOUS
  <1>2. q2 \in Nat /\ r2 \in 0 .. (m - 1) /\ x = q2 * m + r2
    BY <1>1
  <1>. HIDE DEF q2, r2
  <1>3. ~(q < q2)
    <2>. SUFFICES ASSUME q + 1 <= q2 PROVE FALSE
      BY <1>2
    <2>1. (q + 1) * m <= q2 * m /\ (q + 1) * m = q * m + m
      BY <1>2
    <2>. QED  BY <1>1, <1>2, <2>1
  <1>4. ~(q2 < q)
    <2>. SUFFICES ASSUME q2 + 1 <= q PROVE FALSE
      BY <1>2
    <2>1. (q2 + 1) * m <= q * m /\ (q2 + 1) * m = q2 * m + m
      BY <1>2
    <2>2. q2 * m \in Nat
      BY <1>2
    <2>. QED  BY <1>1, <1>2, <2>1, <2>2
  <1>5. q = q2
    BY <1>2, <1>3, <1>4
  <1>. QED  BY <1>1, <1>2, <1>5 DEF r2

LEMMA ModSmall == ASSUME NEW m \in Nat \ {0}, NEW r \in 0 .. (m - 1) PROVE r % m = r
  OBVIOUS

LEMMA ModSelf == ASSUME NEW m \in Nat \ {0} PROVE m % m = 0
  <1>1. (1 * m + 0) % m = 0
    BY ModUnique
  <1>. QED  BY <1>1

LEMMA ModCongruent ==
  ASSUME NEW m \in Nat \ {0}, NEW x \in Nat, NEW k \in Nat
  PROVE  (x + k * m) % m = x % m
  <1>. DEFINE q == x \div m
              r == x % m
  <1>1. q \in Nat /\ r \in 0 .. (m - 1) /\ x = q * m + r
    OBVIOUS
  <1>. HIDE DEF q, r
  <1>2. x + k * m = (q + k) * m + r /\ q + k \in Nat
    BY <1>1
  <1>3. ((q + k) * m + r) % m = r
    BY <1>1, <1>2, ModUnique
  <1>. QED  BY <1>2, <1>3 DEF r

LEMMA SaturatingAddMonotone ==
  ASSUME NEW a \in Nat, NEW b \in Nat
  PROVE  /\ SaturatingAdd(a, b) \in U32
         /\ \A c \in Nat : c >= b => SaturatingAdd(a, c) >= SaturatingAdd(a, b)
  <1>1. \A x, y \in Nat : Min({x, y}) = IF x <= y THEN x ELSE y
    <2>. SUFFICES ASSUME NEW x \in Nat, NEW y \in Nat
                  PROVE  Min({x, y}) = IF x <= y THEN x ELSE y
      OBVIOUS
    <2>1. \E z \in {x, y} : \A w \in {x, y} : z <= w
      OBVIOUS
    <2>2. /\ Min({x, y}) \in {x, y}
          /\ \A w \in {x, y} : Min({x, y}) <= w
      BY <2>1 DEF Min
    <2>. QED  BY <2>2
  <1>2. Modulus - 1 \in Nat
    BY SubmitAssumption
  <1>3. \A c \in Nat : SaturatingAdd(a, c) =
          IF a + c <= Modulus - 1 THEN a + c ELSE Modulus - 1
    BY <1>1, <1>2 DEF SaturatingAdd
  <1>. QED  BY <1>2, <1>3 DEF U32

-----------------------------------------------------------------------------
(* The inductive invariant. *)

\* An endpoint is left after its last batch only.
ControlInv ==
  /\ iterations \in Iteration /\ batchSize \in Batch /\ overflowChecks \in BOOLEAN
  /\ repeated \in BOOLEAN
  /\ (pc = "finished") <=> (endpoint = Endpoints + 1)
  /\ pc = "start" => batchIdx = 0
  /\ pc = "join" => DOMAIN answer = SubIdx

\* One sample for each batch that has been joined.
SamplesInv ==
  \A e \in Endpoint :
    samples[e] = IF e < endpoint THEN iterations
                 ELSE IF e = endpoint THEN batchIdx ELSE 0

\* Each sample stands for a batch, all of whose statements are counted.
CountsInv ==
  \A e \in Endpoint : \E k \in Nat :
    samples[e] * batchSize = successes[e] + failures[e] + k * Modulus

\* Where the statements of this batch end.
EndOfBatch == IF pc = "join" THEN (batchIdx + 1) * batchSize ELSE batchIdx * batchSize

\* What an endpoint has been sent is what was built for it, an index at a time.
StatementsInv ==
  InRange /\ ~repeated /\ pc # "start" =>
    \A t \in held \cup sent :
      /\ t.seq \in U32 /\ t = BuildStatement(t.seq)
      /\ pc \in {"build", "join"} => t.seq < EndOfBatch

IndInv == TypeOK /\ ControlInv /\ SamplesInv /\ CountsInv /\ StatementsInv

-----------------------------------------------------------------------------
(* Types and control. *)

LEMMA Options ==
  ASSUME TypeOK, ControlInv
  PROVE  /\ Endpoints \in Nat /\ Modulus \in Nat \ {0}
         /\ iterations \in Nat \ {0} /\ batchSize \in Nat \ {0}
         /\ batchIdx \in Nat /\ batchIdx < iterations
         /\ endpoint \in Nat
         /\ pc # "finished" => endpoint \in Endpoint
  BY SubmitAssumption DEF TypeOK, ControlInv, Endpoint

LEMMA BuildStatementType ==
  ASSUME NEW idx \in U32, baseExpiry \in U32
  PROVE  BuildStatement(idx) \in Statement
  <1>1. SaturatingAdd(baseExpiry, idx) \in U32
    BY SaturatingAddMonotone, SubmitAssumption DEF U32
  <1>. QED  BY <1>1 DEF BuildStatement, DeriveChannel, Statement

LEMMA InitHolds == ASSUME Init PROVE IndInv
  <1>1. Endpoints \in Nat /\ Modulus \in Nat \ {0} /\ 0 \in U32
        /\ iterations \in Nat \ {0} /\ batchSize \in Nat \ {0}
    BY SubmitAssumption DEF Init, U32
  <1>2. TypeOK
    BY <1>1 DEF Init, TypeOK, NoRequests
  <1>3. ControlInv
    BY <1>1 DEF Init, ControlInv
  <1>4. SamplesInv
    BY <1>1 DEF Init, SamplesInv, Endpoint
  <1>5. CountsInv
    <2>. SUFFICES ASSUME NEW e \in Endpoint
                  PROVE  samples[e] * batchSize
                           = successes[e] + failures[e] + 0 * Modulus
      BY DEF CountsInv
    <2>. QED  BY <1>1 DEF Init
  <1>6. StatementsInv
    BY DEF Init, StatementsInv
  <1>. QED  BY <1>2, <1>3, <1>4, <1>5, <1>6 DEF IndInv

\* Within the range, the index of a statement is what it is reduced to.
LEMMA GlobalIdxInRange ==
  ASSUME TypeOK, ControlInv, NEW sub \in SubIdx
  PROVE  /\ GlobalIdx(sub) \in Nat
         /\ GlobalIdx(sub) % Modulus \in U32
         /\ batchIdx * batchSize \in Nat
         /\ (batchIdx + 1) * batchSize = batchIdx * batchSize + batchSize
         /\ GlobalIdx(sub) >= batchIdx * batchSize
         /\ GlobalIdx(sub) < (batchIdx + 1) * batchSize
         /\ InRange => GlobalIdx(sub) % Modulus = GlobalIdx(sub)
  <1>1. /\ sub \in Nat /\ sub < batchSize /\ batchSize \in Nat \ {0}
        /\ batchIdx \in Nat /\ batchIdx + 1 <= iterations
        /\ iterations \in Nat /\ Modulus \in Nat \ {0}
    BY Options DEF SubIdx
  <1>2. /\ batchIdx * batchSize \in Nat
        /\ (batchIdx + 1) * batchSize = batchIdx * batchSize + batchSize
        /\ (batchIdx + 1) * batchSize <= iterations * batchSize
        /\ iterations * batchSize \in Nat
    BY <1>1
  <1>3. /\ GlobalIdx(sub) \in Nat
        /\ GlobalIdx(sub) >= batchIdx * batchSize
        /\ GlobalIdx(sub) < (batchIdx + 1) * batchSize
    BY <1>1, <1>2 DEF GlobalIdx
  <1>4. GlobalIdx(sub) % Modulus \in U32
    BY <1>1, <1>3 DEF U32
  <1>5. InRange => GlobalIdx(sub) \in 0 .. (Modulus - 1)
    BY <1>1, <1>2, <1>3 DEF InRange
  <1>6. InRange => GlobalIdx(sub) % Modulus = GlobalIdx(sub)
    BY <1>1, <1>5, ModSmall
  <1>. QED  BY <1>2, <1>3, <1>4, <1>6

LEMMA BuildType ==
  ASSUME TypeOK, ControlInv, Build
  PROVE  /\ TypeOK' /\ ControlInv'
         /\ sent' = sent \cup {BuildStatement(GlobalIdx(i) % Modulus) : i \in SubIdx}
         /\ \A i \in SubIdx : requests'[i] = BuildStatement(GlobalIdx(i) % Modulus)
  <1>1. \A i \in SubIdx : BuildStatement(GlobalIdx(i) % Modulus) \in Statement
    BY GlobalIdxInRange, BuildStatementType DEF TypeOK
  <1>2. \A i \in SubIdx : requests'[i] = BuildStatement(GlobalIdx(i) % Modulus)
    BY DEF Build
  <1>3. sent' = sent \cup {BuildStatement(GlobalIdx(i) % Modulus) : i \in SubIdx}
    BY <1>2 DEF Build
  <1>4. DOMAIN requests' = SubIdx /\ DOMAIN answer' = SubIdx /\ pc' = "join"
        /\ SubIdx' = SubIdx
    BY DEF Build, options, SubIdx
  <1>5. \A i \in DOMAIN requests' : requests'[i] \in Statement /\ answer'[i] \in Answer
    BY <1>1, <1>2, <1>4 DEF Build, Answer
  <1>6. sent' \subseteq Statement
    BY <1>1, <1>3 DEF TypeOK
  <1>7. TypeOK'
    BY <1>4, <1>5, <1>6 DEF TypeOK, Build, options, reportVars
  <1>8. ControlInv'
    BY <1>4, SubmitAssumption DEF ControlInv, Build, options, TypeOK
  <1>. QED  BY <1>2, <1>3, <1>7, <1>8

LEMMA JoinType == ASSUME TypeOK, ControlInv, SamplesInv, Join PROVE TypeOK' /\ ControlInv' /\ SamplesInv'
  <1>1. /\ Endpoints \in Nat /\ iterations \in Nat \ {0}
        /\ batchIdx \in Nat /\ batchIdx < iterations
        /\ endpoint \in Endpoint /\ endpoint \in Nat /\ endpoint <= Endpoints
        /\ Modulus \in Nat \ {0}
    BY Options DEF Join, Endpoint
  <1>2. /\ \A x \in Nat : x % Modulus \in U32
        /\ Answered("ok") \in Nat /\ Answered("failed") \in Nat
    <2>1. IsFiniteSet(SubIdx)
      BY FS_Interval, Options DEF SubIdx
    <2>2. \A a : Answered(a) \in Nat
      BY <2>1, FS_Subset, FS_CardinalityType DEF Answered
    <2>. QED  BY <1>1, <2>2 DEF U32
  <1>3. successes[endpoint] \in Nat /\ failures[endpoint] \in Nat
    BY <1>1 DEF TypeOK, U32
  <1>4. Successes \in Nat /\ Failures \in Nat
    BY <1>2, <1>3 DEF Successes, Failures
  <1>5. successes' \in [Endpoint -> U32] /\ failures' \in [Endpoint -> U32]
    BY <1>2, <1>4 DEF Join, TypeOK
  <1>6. samples[endpoint] = batchIdx
    BY <1>1 DEF SamplesInv
  <1>7. samples' = [samples EXCEPT ![endpoint] = batchIdx + 1]
    BY <1>6 DEF Join
  <1>8. samples' \in [Endpoint -> 0 .. iterations] /\ iterations' = iterations
    BY <1>1, <1>7 DEF TypeOK, Join, options
  <1>9. \/ batchIdx + 1 < iterations /\ batchIdx' = batchIdx + 1
           /\ endpoint' = endpoint /\ pc' = "build"
        \/ batchIdx + 1 = iterations /\ batchIdx' = 0
           /\ endpoint' = endpoint + 1
           /\ pc' = IF endpoint < Endpoints THEN "start" ELSE "finished"
    <2>1. CASE batchIdx + 1 < iterations
      <3>1. (batchIdx + 1) % iterations = batchIdx + 1
        BY <1>1, <2>1, ModSmall
      <3>. QED  BY <1>1, <2>1, <3>1 DEF Join
    <2>2. CASE batchIdx + 1 = iterations
      <3>1. (batchIdx + 1) % iterations = 0
        BY <1>1, <2>2, ModSelf
      <3>. QED  BY <1>1, <2>2, <3>1 DEF Join
    <2>. QED  BY <1>1, <2>1, <2>2
  <1>10. /\ pc' \in {"start", "build", "finished"}
         /\ endpoint' \in 1 .. (Endpoints + 1)
         /\ batchIdx' \in 0 .. (iterations' - 1)
    <2>1. CASE batchIdx + 1 < iterations /\ batchIdx' = batchIdx + 1
               /\ endpoint' = endpoint /\ pc' = "build"
      <3>1. pc' \in {"start", "build", "finished"}
        BY <2>1
      <3>2. endpoint' \in 1 .. (Endpoints + 1)
        BY <1>1, <2>1 DEF Endpoint
      <3>3. batchIdx' \in 0 .. (iterations' - 1)
        BY <1>1, <1>8, <2>1
      <3>. QED  BY <3>1, <3>2, <3>3
    <2>2. CASE batchIdx + 1 = iterations /\ batchIdx' = 0
               /\ endpoint' = endpoint + 1
               /\ pc' = IF endpoint < Endpoints THEN "start" ELSE "finished"
      <3>1. pc' \in {"start", "finished"}
        BY <2>2
      <3>. QED  BY <1>1, <1>8, <2>2, <3>1
    <2>. QED  BY <1>9, <2>1, <2>2
  <1>11. requests' = NoRequests /\ answer' = NoRequests /\ DOMAIN NoRequests = {}
    BY DEF Join, NoRequests
  <1>12. TypeOK'
    <2>1. /\ baseExpiry' = baseExpiry /\ sent' = sent /\ held' = held
          /\ baseExpiry \in U32 /\ sent \subseteq Statement /\ held \subseteq Statement
      BY DEF Join, nodeVars, TypeOK
    <2>2. DOMAIN requests' = DOMAIN answer' /\ DOMAIN requests' = {}
      BY <1>11
    <2>. QED  BY <1>5, <1>8, <1>10, <2>1, <2>2 DEF TypeOK
  <1>13. ControlInv'
    BY <1>1, <1>9 DEF ControlInv, Join, options
  <1>14. SamplesInv'
    <2>. SUFFICES ASSUME NEW e \in Endpoint
                  PROVE  samples'[e] = IF e < endpoint' THEN iterations
                                       ELSE IF e = endpoint' THEN batchIdx' ELSE 0
      BY <1>8 DEF SamplesInv
    <2>1. e \in Nat
      BY DEF Endpoint
    <2>2. samples'[e] = IF e = endpoint THEN batchIdx + 1 ELSE samples[e]
      BY <1>7 DEF TypeOK
    <2>3. samples[e] = IF e < endpoint THEN iterations
                       ELSE IF e = endpoint THEN batchIdx ELSE 0
      BY DEF SamplesInv
    <2>4. CASE batchIdx + 1 < iterations /\ batchIdx' = batchIdx + 1
               /\ endpoint' = endpoint
      <3>1. CASE e < endpoint
        BY <1>1, <2>1, <2>2, <2>3, <2>4, <3>1
      <3>2. CASE e = endpoint
        BY <1>1, <2>2, <2>4, <3>2
      <3>3. CASE e > endpoint
        BY <1>1, <2>1, <2>2, <2>3, <2>4, <3>3
      <3>. QED  BY <1>1, <2>1, <3>1, <3>2, <3>3
    <2>5. CASE batchIdx + 1 = iterations /\ batchIdx' = 0 /\ endpoint' = endpoint + 1
      <3>1. CASE e < endpoint
        BY <1>1, <2>1, <2>2, <2>3, <2>5, <3>1
      <3>2. CASE e = endpoint
        BY <1>1, <2>2, <2>5, <3>2
      <3>3. CASE e > endpoint
        BY <1>1, <2>1, <2>2, <2>3, <2>5, <3>3
      <3>. QED  BY <1>1, <2>1, <3>1, <3>2, <3>3
    <2>. QED  BY <1>9, <2>4, <2>5
  <1>. QED  BY <1>12, <1>13, <1>14

\* The rest of a step, by the state it leaves alone.
LEMMA OtherType ==
  ASSUME TypeOK, ControlInv, SamplesInv,
         \/ StartEndpoint \/ Overflows \/ Node \/ UNCHANGED vars
  PROVE  TypeOK' /\ ControlInv' /\ SamplesInv'
  <1>1. CASE StartEndpoint
    <2>0. TypeOK => sent' \subseteq Statement /\ held' \subseteq Statement
      BY <1>1 DEF TypeOK, StartEndpoint, nodeVars
    <2>1. TypeOK'
      BY <1>1, <2>0 DEF TypeOK, StartEndpoint, options, reportVars, ExpirySecondsFromNow
    <2>. QED  BY <1>1, <2>1, SubmitAssumption DEF ControlInv, SamplesInv, StartEndpoint, options,
                reportVars, TypeOK
  <1>2. CASE Overflows
    <2>1. TypeOK'
      BY <1>2 DEF TypeOK, Overflows, options, reportVars, nodeVars
    <2>2. pc # "finished"
      BY <1>2 DEF Overflows
    <2>. QED  BY <1>2, <2>1, <2>2 DEF ControlInv, SamplesInv, Overflows, options,
                reportVars
  <1>3. CASE \E s \in sent : Takes(s)
    <2>1. TypeOK'
      BY <1>3 DEF TypeOK, Takes, options, reportVars
    <2>. QED  BY <1>3, <2>1 DEF ControlInv, SamplesInv, Takes, options, reportVars, SubIdx
  <1>4. CASE \E i \in DOMAIN requests : AnswersOk(i) \/ AnswersFailed(i)
    <2>. PICK i \in DOMAIN requests : AnswersOk(i) \/ AnswersFailed(i)
      BY <1>4
    <2>1. PICK a \in Answer : answer' = [answer EXCEPT ![i] = a]
      BY DEF AnswersOk, AnswersFailed, Answer
    <2>2. UNCHANGED <<options, pc, endpoint, batchIdx, baseExpiry, requests,
                      reportVars, nodeVars>>
      BY DEF AnswersOk, AnswersFailed
    <2>3. /\ DOMAIN answer' = DOMAIN answer
          /\ \A j \in DOMAIN answer : answer'[j] = IF j = i THEN a ELSE answer[j]
      BY <2>1
    <2>4. DOMAIN requests' = DOMAIN answer'
          /\ \A j \in DOMAIN requests' : requests'[j] \in Statement /\ answer'[j] \in Answer
      BY <2>2, <2>3 DEF TypeOK
    <2>5. TypeOK'
      BY <2>2, <2>4 DEF TypeOK, options, reportVars, nodeVars
    <2>. QED  BY <2>2, <2>3, <2>5 DEF ControlInv, SamplesInv, options, reportVars, SubIdx
  <1>5. CASE UNCHANGED vars
    BY <1>5 DEF TypeOK, ControlInv, SamplesInv, vars, options, reportVars, nodeVars,
       SubIdx
  <1>. QED  BY <1>1, <1>2, <1>3, <1>4, <1>5 DEF Node

-----------------------------------------------------------------------------
(* What is counted. *)

\* A batch that is joined has an answer to each of its statements.
LEMMA JoinedBatch ==
  ASSUME TypeOK, ControlInv, pc = "join", Joined
  PROVE  /\ Answered("ok") \in Nat /\ Answered("failed") \in Nat
         /\ Answered("ok") + Answered("failed") = batchSize
  <1>. DEFINE Of(a) == {i \in SubIdx : answer[i] = a}
  <1>1. IsFiniteSet(SubIdx) /\ Cardinality(SubIdx) = batchSize
    <2>1. batchSize - 1 \in Int /\ ~(0 > batchSize - 1) /\ batchSize - 1 - 0 + 1 = batchSize
      BY Options
    <2>2. /\ IsFiniteSet(0 .. (batchSize - 1))
          /\ Cardinality(0 .. (batchSize - 1)) =
               IF 0 > batchSize - 1 THEN 0 ELSE batchSize - 1 - 0 + 1
      BY <2>1, FS_Interval
    <2>. QED  BY <2>1, <2>2 DEF SubIdx
  <1>2. \A a : IsFiniteSet(Of(a)) /\ Cardinality(Of(a)) \in Nat
    BY <1>1, FS_Subset, FS_CardinalityType
  <1>3. Of("none") = {}
    BY <1>2, FS_EmptySet DEF Joined, Answered
  <1>4. \A i \in SubIdx : answer[i] \in Answer
    BY DEF ControlInv, TypeOK
  <1>5. Of("ok") \cup Of("failed") = SubIdx /\ Of("ok") \cap Of("failed") = {}
    BY <1>3, <1>4 DEF Answer
  <1>. HIDE DEF Of
  <1>6. Cardinality(Of("ok") \cup Of("failed"))
          = Cardinality(Of("ok")) + Cardinality(Of("failed"))
              - Cardinality(Of("ok") \cap Of("failed"))
    BY <1>2, FS_Union
  <1>7. Cardinality({}) = 0
    BY FS_EmptySet
  <1>8. Cardinality(Of("ok")) + Cardinality(Of("failed")) = batchSize
    <2>1. Cardinality(Of("ok")) \in Nat /\ Cardinality(Of("failed")) \in Nat
      BY <1>2
    <2>2. batchSize = Cardinality(Of("ok")) + Cardinality(Of("failed")) - 0
      BY <1>1, <1>5, <1>6, <1>7
    <2>. QED  BY <2>1, <2>2
  <1>. QED  BY <1>2, <1>8 DEF Answered, Of

\* A count that is reduced has lost a multiple of the modulus.
LEMMA Reduced ==
  ASSUME NEW m \in Nat \ {0}, NEW x \in Nat
  PROVE  x % m \in Nat /\ \E q \in Nat : x = (x % m) + q * m
  <1>. DEFINE d == x \div m
              r == x % m
  <1>1. d \in Nat /\ r \in 0 .. (m - 1) /\ x = d * m + r
    OBVIOUS
  <1>. HIDE DEF d, r
  <1>2. d * m \in Nat /\ r \in Nat
    BY <1>1
  <1>3. x = r + d * m
    BY <1>1, <1>2
  <1>. QED  BY <1>1, <1>2, <1>3 DEF r

LEMMA JoinCounts == ASSUME TypeOK, ControlInv, SamplesInv, CountsInv, Join PROVE CountsInv'
  <1>1. /\ endpoint \in Endpoint
        /\ Modulus \in Nat \ {0} /\ batchSize \in Nat \ {0} /\ batchIdx \in Nat
    BY Options DEF Join
  <1>. DEFINE ok == Answered("ok")
              failed == Answered("failed")
  <1>2. ok \in Nat /\ failed \in Nat /\ ok + failed = batchSize
    BY JoinedBatch DEF Join
  <1>. HIDE DEF ok, failed
  <1>3. /\ successes'= [successes EXCEPT ![endpoint] = (successes[endpoint] + ok) % Modulus]
        /\ failures'= [failures EXCEPT ![endpoint] = (failures[endpoint] + failed) % Modulus]
        /\ samples' = [samples EXCEPT ![endpoint] = samples[endpoint] + 1]
        /\ batchSize' = batchSize
    BY DEF Join, Successes, Failures, ok, failed, options
  <1>. SUFFICES ASSUME NEW e \in Endpoint
                PROVE  \E k \in Nat : samples'[e] * batchSize'
                         = successes'[e] + failures'[e] + k * Modulus
    BY DEF CountsInv
  <1>4. CASE e # endpoint
    <2>1. samples'[e] = samples[e] /\ successes'[e] = successes[e]
          /\ failures'[e] = failures[e]
      BY <1>3, <1>4 DEF TypeOK
    <2>. QED  BY <1>3, <2>1 DEF CountsInv
  <1>5. CASE e = endpoint
    <2>. DEFINE s == successes[e] + ok
                f == failures[e] + failed
    <2>1. successes[e] \in Nat /\ failures[e] \in Nat /\ samples[e] \in Nat
      BY <1>1 DEF TypeOK, U32
    <2>2. /\ successes'[e] = (successes[e] + ok) % Modulus
          /\ failures'[e] = (failures[e] + failed) % Modulus
          /\ samples'[e] = samples[e] + 1
      BY <1>3, <1>5 DEF TypeOK
    <2>3. PICK k \in Nat : samples[e] * batchSize
                             = successes[e] + failures[e] + k * Modulus
      BY DEF CountsInv
    <2>a. s \in Nat /\ f \in Nat /\ s + f = successes[e] + failures[e] + batchSize
      <3>1. \A a, b, x, y \in Nat : (a + x) + (b + y) = a + b + (x + y)
        OBVIOUS
      <3>2. s + f = successes[e] + failures[e] + (ok + failed)
        BY <1>2, <2>1, <3>1
      <3>. QED  BY <1>2, <2>1, <3>2
    <2>b. successes'[e] = s % Modulus /\ failures'[e] = f % Modulus
      BY <2>2
    <2>. HIDE DEF s, f
    <2>4. s % Modulus \in Nat /\ \E q \in Nat : s = (s % Modulus) + q * Modulus
      BY <1>1, <2>a, Reduced
    <2>5. f % Modulus \in Nat /\ \E q \in Nat : f = (f % Modulus) + q * Modulus
      BY <1>1, <2>a, Reduced
    <2>6. PICK q1 \in Nat : s = successes'[e] + q1 * Modulus
      BY <2>4, <2>b
    <2>7. PICK q2 \in Nat : f = failures'[e] + q2 * Modulus
      BY <2>5, <2>b
    <2>8. (samples[e] + 1) * batchSize = samples[e] * batchSize + batchSize
      BY <1>1, <2>1
    <2>9. (k + q1 + q2) * Modulus = k * Modulus + q1 * Modulus + q2 * Modulus
      BY <1>1
    <2>10. k * Modulus \in Nat /\ q1 * Modulus \in Nat /\ q2 * Modulus \in Nat
           /\ samples[e] * batchSize \in Nat
      BY <1>1, <2>1
    <2>11. successes'[e] \in Nat /\ failures'[e] \in Nat
      BY <2>4, <2>5, <2>b
    <2>12. samples[e] * batchSize + batchSize
             = successes'[e] + failures'[e]
                 + (k * Modulus + q1 * Modulus + q2 * Modulus)
      <3>. DEFINE b == samples[e] * batchSize
                  kM == k * Modulus
                  p == q1 * Modulus
                  q == q2 * Modulus
      <3>1. b \in Nat /\ kM \in Nat /\ p \in Nat /\ q \in Nat
        BY <2>10
      <3>. HIDE DEF b, kM, p, q
      <3>2. b = successes[e] + failures[e] + kM
        BY <2>3 DEF b, kM
      <3>3. s = successes'[e] + p /\ f = failures'[e] + q
        BY <2>6, <2>7 DEF p, q
      <3>4. b + batchSize = successes'[e] + failures'[e] + (kM + p + q)
        BY <1>1, <2>1, <2>11, <2>a, <3>1, <3>2, <3>3
      <3>. QED  BY <3>4 DEF b, kM, p, q
    <2>13. samples'[e] * batchSize'
             = successes'[e] + failures'[e] + (k + q1 + q2) * Modulus
      BY <1>3, <2>2, <2>8, <2>9, <2>12
    <2>14. k + q1 + q2 \in Nat
      OBVIOUS
    <2>. QED  BY <2>13, <2>14
  <1>. QED  BY <1>4, <1>5

-----------------------------------------------------------------------------
(* What is sent and held. *)

\* Statements of a run that have the same channel are the same.
LEMMA OfOwnChannel ==
  ASSUME StatementsInv, InRange, ~repeated, pc # "start",
         NEW s \in held \cup sent, NEW t \in held \cup sent, s.channel = t.channel
  PROVE  s = t
  <1>1. s = BuildStatement(s.seq) /\ t = BuildStatement(t.seq)
    BY DEF StatementsInv
  <1>2. \A q : BuildStatement(q).channel = q
    BY DEF BuildStatement, DeriveChannel
  <1>. QED  BY <1>1, <1>2

LEMMA TakesReplacesNothing ==
  ASSUME TypeOK, StatementsInv, InRange, ~repeated, pc # "start", NEW s \in sent, Takes(s)
  PROVE  held \subseteq held'
  <1>. DEFINE old == {t \in held : t.channel = s.channel}
  <1>1. \A t \in old : t = s
    BY OfOwnChannel
  <1>2. s.expiry \in Nat /\ s.seq \in Nat
    BY DEF TypeOK, Statement, U32
  <1>3. ~Outranks(s, s)
    BY <1>2 DEF Outranks
  <1>4. old = {}
    BY <1>1, <1>3 DEF Takes
  <1>5. held' = (held \ old) \cup {s}
    BY DEF Takes
  <1>. QED  BY <1>4, <1>5

\* A batch outranks whatever was sent before.
LEMMA BuildOutranks ==
  ASSUME TypeOK, ControlInv, StatementsInv, Build, InRange, ~repeated,
         NEW i \in SubIdx, NEW t \in held \cup sent
  PROVE  Outranks(requests'[i], t)
  <1>. DEFINE g == GlobalIdx(i)
  <1>1. g \in Nat /\ g >= batchIdx * batchSize /\ requests'[i] = BuildStatement(g)
        /\ batchIdx * batchSize \in Nat
    BY GlobalIdxInRange, BuildType
  <1>2. t.seq \in U32 /\ t = BuildStatement(t.seq) /\ t.seq < batchIdx * batchSize
    BY DEF StatementsInv, EndOfBatch, Build
  <1>. HIDE DEF g
  <1>3. t.seq \in Nat /\ baseExpiry \in Nat
    BY <1>2 DEF U32, TypeOK
  <1>4. t.seq < g
    BY <1>1, <1>2, <1>3
  <1>5. SaturatingAdd(baseExpiry, g) >= SaturatingAdd(baseExpiry, t.seq)
        /\ SaturatingAdd(baseExpiry, g) \in Nat
        /\ SaturatingAdd(baseExpiry, t.seq) \in Nat
    <2>1. /\ SaturatingAdd(baseExpiry, t.seq) \in U32
          /\ \A c \in Nat : c >= t.seq =>
               SaturatingAdd(baseExpiry, c) >= SaturatingAdd(baseExpiry, t.seq)
      BY <1>3, SaturatingAddMonotone
    <2>2. SaturatingAdd(baseExpiry, g) \in U32
      BY <1>1, <1>3, SaturatingAddMonotone
    <2>3. g >= t.seq
      BY <1>1, <1>3, <1>4
    <2>. QED  BY <1>1, <2>1, <2>2, <2>3 DEF U32
  <1>6. t.expiry = SaturatingAdd(baseExpiry, t.seq)
    BY <1>2 DEF BuildStatement
  <1>7. requests'[i].expiry = SaturatingAdd(baseExpiry, g) /\ requests'[i].seq = g
    BY <1>1 DEF BuildStatement
  <1>. QED  BY <1>1, <1>3, <1>4, <1>5, <1>6, <1>7 DEF Outranks

LEMMA BuildStatements ==
  ASSUME TypeOK, ControlInv, StatementsInv, Build
  PROVE  StatementsInv'
  <1>1. /\ pc = "build" /\ pc' = "join" /\ held' = held
        /\ baseExpiry' = baseExpiry /\ InRange' = InRange
        /\ batchIdx' = batchIdx /\ batchSize' = batchSize /\ repeated' = repeated
    BY DEF Build, options, InRange
  <1>2. \A q : BuildStatement(q)' = BuildStatement(q)
    BY <1>1 DEF BuildStatement, DeriveChannel, SaturatingAdd
  <1>3. EndOfBatch' = (batchIdx + 1) * batchSize /\ EndOfBatch = batchIdx * batchSize
    BY <1>1 DEF EndOfBatch
  <1>. SUFFICES ASSUME InRange, ~repeated, NEW t \in held' \cup sent'
                PROVE  /\ t.seq \in U32 /\ t = BuildStatement(t.seq)
                       /\ t.seq < (batchIdx + 1) * batchSize
    BY <1>1, <1>2, <1>3 DEF StatementsInv
  <1>4. CASE t \in held \cup sent
    <2>1. t.seq \in U32 /\ t = BuildStatement(t.seq) /\ t.seq < batchIdx * batchSize
      BY <1>1, <1>3, <1>4 DEF StatementsInv
    <2>2. batchIdx * batchSize \in Nat /\ batchSize \in Nat
          /\ (batchIdx + 1) * batchSize = batchIdx * batchSize + batchSize
      BY Options
    <2>3. t.seq \in Nat
      BY <2>1 DEF U32
    <2>. QED  BY <2>1, <2>2, <2>3
  <1>5. CASE \E i \in SubIdx : t = BuildStatement(GlobalIdx(i) % Modulus)
    <2>1. PICK i \in SubIdx : t = BuildStatement(GlobalIdx(i) % Modulus)
      BY <1>5
    <2>2. /\ GlobalIdx(i) % Modulus \in U32
          /\ GlobalIdx(i) % Modulus < (batchIdx + 1) * batchSize
      BY GlobalIdxInRange
    <2>3. t.seq = GlobalIdx(i) % Modulus
      BY <2>1 DEF BuildStatement
    <2>. QED  BY <2>1, <2>2, <2>3
  <1>6. sent' = sent \cup {BuildStatement(GlobalIdx(i) % Modulus) : i \in SubIdx}
    BY BuildType
  <1>. QED  BY <1>1, <1>4, <1>5, <1>6

\* The other steps build nothing.
LEMMA OtherStatements ==
  ASSUME IndInv, \/ StartEndpoint \/ Overflows \/ Join \/ Node \/ UNCHANGED vars
  PROVE  StatementsInv'
  <1>. StatementsInv /\ TypeOK /\ ControlInv
    BY DEF IndInv
  <1>1. CASE StartEndpoint
    BY <1>1 DEF StartEndpoint, StatementsInv, options
  <1>2. ASSUME UNCHANGED <<options, batchIdx, baseExpiry>>,
               held' \cup sent' \subseteq held \cup sent,
               pc' = pc \/ (pc' = "panicked" /\ pc # "start")
        PROVE  StatementsInv'
    <2>1. \A q : BuildStatement(q)' = BuildStatement(q)
      BY <1>2 DEF BuildStatement, DeriveChannel, SaturatingAdd
    <2>2. InRange' = InRange /\ repeated' = repeated /\ (pc' = pc => EndOfBatch' = EndOfBatch)
      BY <1>2 DEF InRange, EndOfBatch, options
    <2>. QED  BY <1>2, <2>1, <2>2 DEF StatementsInv
  <1>3. CASE Overflows
    BY <1>2, <1>3 DEF Overflows, nodeVars
  <1>4. CASE \E s \in sent : Takes(s)
    <2>1. UNCHANGED <<options, batchIdx, baseExpiry>> /\ pc' = pc
      BY <1>4 DEF Takes
    <2>2. held' \cup sent' \subseteq held \cup sent
      BY <1>4 DEF Takes
    <2>. QED  BY <1>2, <2>1, <2>2
  <1>5. CASE \E i \in DOMAIN requests : AnswersOk(i) \/ AnswersFailed(i)
    <2>1. UNCHANGED <<options, batchIdx, baseExpiry>> /\ pc' = pc
          /\ held' = held /\ sent' = sent
      BY <1>5 DEF AnswersOk, AnswersFailed, nodeVars
    <2>. QED  BY <1>2, <2>1
  <1>6. CASE UNCHANGED vars
    <2>1. UNCHANGED <<options, batchIdx, baseExpiry>> /\ pc' = pc
          /\ held' = held /\ sent' = sent
      BY <1>6 DEF vars, nodeVars
    <2>. QED  BY <1>2, <2>1
  <1>7. CASE Join
    <2>1. /\ pc = "join" /\ pc' \in {"start", "build", "finished"}
          /\ baseExpiry' = baseExpiry /\ held' = held /\ sent' = sent
          /\ batchSize' = batchSize /\ iterations' = iterations
          /\ pc' = "build" => batchIdx + 1 < iterations
      BY <1>7 DEF Join, options, nodeVars
    <2>2. \A q : BuildStatement(q)' = BuildStatement(q)
      BY <2>1 DEF BuildStatement, DeriveChannel, SaturatingAdd
    <2>3. pc' = "build" => EndOfBatch' = EndOfBatch
      <3>1. pc' = "build" => batchIdx' = batchIdx + 1
        <4>. SUFFICES ASSUME pc' = "build" PROVE batchIdx' = batchIdx + 1
          OBVIOUS
        <4>1. (batchIdx + 1) % iterations = batchIdx + 1
          BY <2>1, Options, ModSmall
        <4>. QED  BY <1>7, <4>1 DEF Join
      <3>. QED  BY <2>1, <3>1 DEF EndOfBatch
    <2>4. InRange' = InRange /\ repeated' = repeated
      BY <1>7, <2>1 DEF InRange, Join, options
    <2>. QED  BY <2>1, <2>2, <2>3, <2>4 DEF StatementsInv
  <1>. QED  BY <1>1, <1>3, <1>4, <1>5, <1>6, <1>7 DEF Node

LEMMA OtherCounts ==
  ASSUME IndInv, \/ StartEndpoint \/ Build \/ Overflows \/ Node \/ UNCHANGED vars
  PROVE  CountsInv'
  <1>1. UNCHANGED <<batchSize, successes, failures, samples>>
    BY DEF StartEndpoint, Build, Overflows, Node, Takes, AnswersOk, AnswersFailed,
       vars, options, reportVars
  <1>. QED  BY <1>1 DEF IndInv, CountsInv

LEMMA NextHolds == ASSUME IndInv, [Next]_vars PROVE IndInv'
  <1>1. CASE Build
    <2>1. TypeOK' /\ ControlInv'
      BY <1>1, BuildType DEF IndInv
    <2>2. StatementsInv'
      BY <1>1, BuildStatements DEF IndInv
    <2>3. CountsInv'
      BY <1>1, OtherCounts
    <2>4. SamplesInv'
      BY <1>1 DEF IndInv, SamplesInv, Build, options, reportVars
    <2>. QED  BY <2>1, <2>2, <2>3, <2>4 DEF IndInv
  <1>2. CASE Join
    <2>1. TypeOK' /\ ControlInv' /\ SamplesInv'
      BY <1>2, JoinType DEF IndInv
    <2>2. StatementsInv'
      BY <1>2, OtherStatements
    <2>3. CountsInv'
      BY <1>2, JoinCounts DEF IndInv
    <2>. QED  BY <2>1, <2>2, <2>3 DEF IndInv
  <1>3. CASE StartEndpoint \/ Overflows \/ Node \/ UNCHANGED vars
    <2>1. TypeOK' /\ ControlInv' /\ SamplesInv'
      BY <1>3, OtherType DEF IndInv
    <2>2. StatementsInv'
      BY <1>3, OtherStatements
    <2>3. CountsInv'
      BY <1>3, OtherCounts
    <2>. QED  BY <2>1, <2>2, <2>3 DEF IndInv
  <1>. QED  BY <1>1, <1>2, <1>3 DEF Next, Bench

LEMMA Invariant == Spec => []IndInv
  <1>. QED  BY InitHolds, NextHolds, PTL DEF Spec

-----------------------------------------------------------------------------
(* Theorems. *)

\* The state of the benchmark has the types stated, in particular the counts
\* remain in u32 and there are never more samples than iterations.
THEOREM TypeCorrect == Spec => []TypeOK
  <1>. IndInv => TypeOK
    BY DEF IndInv
  <1>. QED  BY Invariant, PTL

\* Each statement of each batch is counted once, modulo 2^32, in whichever order
\* the answers come (run_submit_on_endpoint).
THEOREM EveryStatementIsCounted == Spec => []EveryStatementCounted
  <1>1. ASSUME IndInv PROVE EveryStatementCounted
    <2>. SUFFICES ASSUME pc = "finished", NEW e \in Endpoint
                  PROVE  LET counted == successes[e] + failures[e]
                         IN  /\ counted % Modulus = (iterations * batchSize) % Modulus
                             /\ InRange => counted = iterations * batchSize
                             /\ samples[e] = iterations
      BY DEF EveryStatementCounted
    <2>. DEFINE counted == successes[e] + failures[e]
                all == iterations * batchSize
    <2>1. /\ Modulus \in Nat \ {0} /\ all \in Nat
          /\ endpoint = Endpoints + 1 /\ Endpoints \in Nat
      BY <1>1, Options DEF IndInv, ControlInv
    <2>2. samples[e] = iterations
      BY <1>1, <2>1 DEF IndInv, SamplesInv, Endpoint
    <2>3. successes[e] \in Nat /\ failures[e] \in Nat
      BY <1>1, <2>1 DEF IndInv, TypeOK, U32
    <2>4. counted \in Nat
      BY <2>3
    <2>5. PICK k \in Nat : all = counted + k * Modulus
      BY <1>1, <2>2 DEF IndInv, CountsInv
    <2>6. InRange => all < Modulus
      BY DEF InRange
    <2>. HIDE DEF counted, all
    <2>7. all % Modulus = counted % Modulus
      BY <2>1, <2>4, <2>5, ModCongruent
    <2>8. InRange => counted = all
      <3>. SUFFICES ASSUME InRange PROVE counted = all
        OBVIOUS
      <3>1. k = 0
        <4>. SUFFICES ASSUME k >= 1 PROVE FALSE
          OBVIOUS
        <4>1. k * Modulus >= Modulus /\ k * Modulus \in Nat
          BY <2>1
        <4>. QED  BY <2>1, <2>4, <2>5, <2>6, <4>1
      <3>2. k * Modulus = 0
        BY <2>1, <3>1
      <3>. QED  BY <2>4, <2>5, <3>2
    <2>. QED  BY <2>2, <2>7, <2>8 DEF counted, all
  <1>. QED  BY <1>1, Invariant, PTL

\* README: "a distinct channel per statement and a strictly increasing expiry".
\* No node drops a statement of a run for another, and each batch outranks all
\* that the endpoint has been sent, if no URL is given twice.
THEOREM NothingIsReplaced == Spec => NothingReplaced
  <1>. DEFINE Kept ==
         InRange /\ ~repeated =>
           /\ held \subseteq held' \/ pc = "start"
           /\ pc = "build" /\ pc' = "join" =>
                \A i \in SubIdx, t \in held \cup sent : Outranks(requests'[i], t)
  <1>1. ASSUME IndInv, Next PROVE Kept
    <2>. SUFFICES ASSUME InRange, ~repeated PROVE Kept
      OBVIOUS
    <2>1. CASE \E s \in sent : Takes(s)
      <3>. PICK s \in sent : Takes(s)
        BY <2>1
      <3>1. pc' = pc
        BY DEF Takes
      <3>2. held \subseteq held' \/ pc = "start"
        BY <1>1, TakesReplacesNothing DEF IndInv
      <3>. QED  BY <3>1, <3>2
    <2>2. CASE \E i \in DOMAIN requests : AnswersOk(i) \/ AnswersFailed(i)
      BY <2>2 DEF AnswersOk, AnswersFailed, nodeVars
    <2>3. CASE StartEndpoint
      BY <2>3 DEF StartEndpoint
    <2>4. CASE Overflows
      BY <2>4 DEF Overflows, nodeVars
    <2>5. CASE Join
      BY <2>5 DEF Join, nodeVars
    <2>6. CASE Build
      <3>1. held' = held
        BY <2>6 DEF Build
      <3>2. \A i \in SubIdx, t \in held \cup sent : Outranks(requests'[i], t)
        BY <1>1, <2>6, BuildOutranks DEF IndInv
      <3>. QED  BY <3>1, <3>2
    <2>. QED  BY <1>1, <2>1, <2>2, <2>3, <2>4, <2>5, <2>6 DEF Next, Bench, Node
  <1>2. ASSUME IndInv, [Next]_vars PROVE [Kept]_vars
    BY <1>1, <1>2
  <1>3. Spec => [][Kept]_vars
    BY <1>2, Invariant, PTL DEF Spec
  <1>. QED  BY <1>3 DEF NothingReplaced
=============================================================================
