-------------------------- MODULE PropagationProofs --------------------------
(***************************************************************************)
(* Proofs about Propagation, for every set of nodes, every choice of the   *)
(* two sides and every number of iterations.                               *)
(***************************************************************************)
EXTENDS Propagation, TLAPS

-----------------------------------------------------------------------------
(* The inductive invariant. *)

\* The statement of the current iteration.
Current == <<pair, index>>

\* Pairs before the current one are done, those after it untouched.
CountsInv ==
  /\ (pc = "finished") <=> (pair = Pairs)
  /\ \A p \in Pair : p < pair => successes[p] + failures[p] = Iterations
  /\ \A p \in Pair : p = pair => successes[p] + failures[p] = index
  /\ \A p \in Pair : p > pair => successes[p] = 0 /\ failures[p] = 0

\* Between iterations there is no subscription.
ClosedInv ==
  ~Open => toDump = {} /\ ~dumping /\ toPush = {} /\ stream = <<>> /\ ~drained

\* What a subscription brings is held by its node and about its topic.
SubscriptionInv ==
  Open =>
    LET known == holds[SubscribeNode(pair)] \cap Matching
    IN  /\ toDump \subseteq known /\ toPush \subseteq known
        /\ \A i \in DOMAIN stream : stream[i].batch \subseteq known

\* A statement of an earlier iteration.
Past(s) == s[1] < pair \/ (s[1] = pair /\ s[2] < index)

\* A statement that an iteration has submitted.
Submitted(s) ==
  s \in Own /\ (Past(s) \/ (s = Current /\ pc \in {"submit", "receive"}))

\* Without --topic all that is held was submitted by an iteration, and the
\* statement of the current one not before its submission.
HeldInv ==
  /\ \A s \in sent : Submitted(s)
  /\ ~topicOverride =>
       ~drained /\ \A n \in Nodes : \A s \in holds[n] : Submitted(s)

\* An event is awaited once the node has the statement.
SubmittedInv == pc = "receive" => Current \in holds[SubmitNode(pair)]

IndInv ==
  TypeOK /\ CountsInv /\ ClosedInv /\ SubscriptionInv /\ HeldInv /\ SubmittedInv

-----------------------------------------------------------------------------
(* The pairs. *)

LEMMA Quotient ==
  ASSUME NEW a \in Nat, NEW b \in Nat \ {0}, NEW p \in 0 .. (a * b - 1)
  PROVE  p \div b \in 0 .. (a - 1) /\ p % b \in 0 .. (b - 1)
  <1>. DEFINE d == p \div b
              r == p % b
  <1>1. a * b \in Nat
    OBVIOUS
  <1>2. d \in Nat /\ r \in 0 .. (b - 1) /\ p = d * b + r /\ p < a * b /\ p \in Nat
    BY <1>1
  <1>. HIDE DEF d, r
  <1>3. ~(a <= d)
    <2>. SUFFICES ASSUME a <= d PROVE FALSE
      OBVIOUS
    <2>1. a * b <= d * b /\ d * b \in Nat
      BY <1>2
    <2>. QED  BY <1>1, <1>2, <2>1
  <1>4. d \in 0 .. (a - 1)
    BY <1>2, <1>3
  <1>. QED  BY <1>2, <1>4 DEF d, r

LEMMA Sides ==
  /\ Pairs \in Nat \ {0} /\ Iterations \in Nat \ {0}
  /\ \A p \in Pair : SubmitNode(p) \in Nodes /\ SubscribeNode(p) \in Nodes
  <1>. DEFINE a == Len(SubmitSide)
              b == Len(SubscribeSide)
  <1>1. /\ a \in Nat \ {0} /\ b \in Nat \ {0}
        /\ \A i \in 1 .. a : SubmitSide[i] \in Nodes
        /\ \A i \in 1 .. b : SubscribeSide[i] \in Nodes
    BY PropagationAssumption
  <1>2. Pairs = a * b
    BY DEF Pairs
  <1>. HIDE DEF a, b
  <1>3. a * b \in Nat \ {0}
    <2>1. a * b >= b
      BY <1>1
    <2>. QED  BY <1>1, <2>1
  <1>4. ASSUME NEW p \in Pair
        PROVE  SubmitNode(p) \in Nodes /\ SubscribeNode(p) \in Nodes
    <2>1. p \div b \in 0 .. (a - 1) /\ p % b \in 0 .. (b - 1)
      BY <1>1, <1>2, <1>3, Quotient DEF Pair
    <2>. DEFINE d == p \div b
                r == p % b
    <2>2. SubmitNode(p) = SubmitSide[d + 1] /\ SubscribeNode(p) = SubscribeSide[r + 1]
      BY DEF SubmitNode, SubscribeNode, b
    <2>. HIDE DEF d, r
    <2>3. d + 1 \in 1 .. a /\ r + 1 \in 1 .. b
      BY <1>1, <2>1 DEF d, r
    <2>. QED  BY <1>1, <2>2, <2>3
  <1>. QED  BY <1>2, <1>3, <1>4, PropagationAssumption

\* A pair that is being measured is one of them.
LEMMA Measured ==
  ASSUME TypeOK, CountsInv, pc # "finished"
  PROVE  /\ pair \in Pair /\ pair \in Nat /\ pair < Pairs /\ index \in Nat
         /\ index < Iterations /\ Current \in Own /\ Current \in Statement
         /\ SubmitNode(pair) \in Nodes /\ SubscribeNode(pair) \in Nodes
  <1>1. pair \in Pair /\ pair \in Nat /\ pair < Pairs
    BY Sides DEF TypeOK, CountsInv, Pair
  <1>2. index \in 0 .. (Iterations - 1)
    BY DEF TypeOK
  <1>3. Current \in Own
    BY <1>1, <1>2 DEF Current, Own
  <1>. QED  BY <1>1, <1>2, <1>3, Sides DEF Statement

LEMMA InitHolds == ASSUME Init PROVE IndInv
  <1>1. ~Open /\ pc = "subscribe"
    BY DEF Init, Open
  <1>2. TypeOK
    <2>1. topicOverride \in BOOLEAN /\ drained \in BOOLEAN /\ dumping \in BOOLEAN
      BY DEF Init
    <2>2. /\ pc \in Location /\ pair \in 0 .. Pairs /\ index \in 0 .. (Iterations - 1)
          /\ successes \in [Pair -> 0 .. Iterations]
          /\ failures \in [Pair -> 0 .. Iterations]
      BY Sides DEF Init, Location
    <2>3. /\ sent \subseteq Own /\ holds \in [Nodes -> SUBSET Statement]
          /\ toDump \subseteq Statement /\ toPush \subseteq Statement
      BY DEF Init
    <2>4. stream \in Seq(Event)
      BY DEF Init
    <2>. QED  BY <2>1, <2>2, <2>3, <2>4 DEF TypeOK
  <1>3. CountsInv
    BY Sides DEF Init, CountsInv, Pair
  <1>4. ClosedInv
    BY DEF Init, ClosedInv
  <1>5. SubscriptionInv
    BY <1>1 DEF SubscriptionInv
  <1>6. HeldInv
    BY DEF Init, HeldInv
  <1>7. SubmittedInv
    BY <1>1 DEF SubmittedInv
  <1>. QED  BY <1>2, <1>3, <1>4, <1>5, <1>6, <1>7 DEF IndInv

-----------------------------------------------------------------------------
(* The end of an iteration. *)

LEMMA EndIterationHolds ==
  ASSUME IndInv, pc # "finished", NEW ok \in BOOLEAN, EndIteration(ok),
         UNCHANGED topicOverride
  PROVE  IndInv'
  <1>1. TypeOK /\ CountsInv
    BY DEF IndInv
  <1>2. /\ pair \in Pair /\ pair \in Nat /\ pair < Pairs /\ index \in Nat
        /\ index < Iterations /\ Pairs \in Nat /\ Iterations \in Nat \ {0}
    BY <1>1, Measured, Sides
  <1>3. /\ successes[pair] \in Nat /\ failures[pair] \in Nat
        /\ successes[pair] + failures[pair] = index
    BY <1>1, <1>2 DEF TypeOK, CountsInv
  <1>4. /\ successes' = [successes EXCEPT ![pair] =
                           IF ok THEN successes[pair] + 1 ELSE successes[pair]]
        /\ failures' = [failures EXCEPT ![pair] =
                          IF ok THEN failures[pair] ELSE failures[pair] + 1]
        /\ holds' = holds /\ sent' = sent
        /\ drained' = FALSE /\ toDump' = {} /\ dumping' = FALSE /\ toPush' = {}
        /\ stream' = <<>>
    BY DEF EndIteration
  <1>5. \/ index + 1 = Iterations /\ index' = 0 /\ pair' = pair + 1
        \/ index + 1 < Iterations /\ index' = index + 1 /\ pair' = pair
    BY <1>2 DEF EndIteration, NextIndex, IsLast
  <1>6. pc' = IF pair' = Pairs THEN "finished" ELSE "subscribe"
    BY DEF EndIteration
  <1>7. ~Open' /\ pc' \in {"finished", "subscribe"}
    BY <1>6 DEF Open
  <1>8. /\ \A p \in Pair : p # pair =>
             successes'[p] = successes[p] /\ failures'[p] = failures[p]
        /\ successes'[pair] \in 0 .. Iterations /\ failures'[pair] \in 0 .. Iterations
        /\ successes'[pair] + failures'[pair] = index + 1
    BY <1>1, <1>2, <1>3, <1>4 DEF TypeOK
  <1>9. TypeOK'
    <2>1. successes' \in [Pair -> 0 .. Iterations] /\ failures' \in [Pair -> 0 .. Iterations]
      BY <1>1, <1>2, <1>4, <1>8 DEF TypeOK
    <2>2. pair' \in 0 .. Pairs /\ index' \in 0 .. (Iterations - 1)
      BY <1>2, <1>5
    <2>3. /\ topicOverride' \in BOOLEAN /\ sent' \subseteq Own
          /\ holds' \in [Nodes -> SUBSET Statement]
      BY <1>1, <1>4 DEF TypeOK
    <2>4. drained' \in BOOLEAN /\ dumping' \in BOOLEAN
      BY <1>4
    <2>5. toDump' \subseteq Statement /\ toPush' \subseteq Statement
      BY <1>4
    <2>6. stream' \in Seq(Event)
      BY <1>4
    <2>7. pc' \in Location
      BY <1>7 DEF Location
    <2>. QED  BY <2>1, <2>2, <2>3, <2>4, <2>5, <2>6, <2>7 DEF TypeOK
  <1>10. CountsInv'
    <2>1. pc' = "finished" <=> pair' = Pairs
      BY <1>6
    <2>2. \A p \in Pair : p \in Nat /\ p < Pairs
      BY <1>2 DEF Pair
    <2>3. CASE index + 1 = Iterations /\ index' = 0 /\ pair' = pair + 1
      <3>1. \A p \in Pair : p < pair' => successes'[p] + failures'[p] = Iterations
        BY <1>1, <1>2, <1>8, <2>2, <2>3 DEF CountsInv
      <3>2. \A p \in Pair : p >= pair' => successes'[p] = 0 /\ failures'[p] = 0
        BY <1>1, <1>2, <1>8, <2>2, <2>3 DEF CountsInv
      <3>3. \A p \in Pair : p = pair' => successes'[p] + failures'[p] = index'
        BY <1>2, <2>2, <2>3, <3>2
      <3>4. \A p \in Pair : p > pair' => successes'[p] = 0 /\ failures'[p] = 0
        BY <1>2, <2>2, <2>3, <3>2
      <3>. QED  BY <2>1, <3>1, <3>3, <3>4 DEF CountsInv
    <2>4. CASE index + 1 < Iterations /\ index' = index + 1 /\ pair' = pair
      <3>1. \A p \in Pair : p < pair' => successes'[p] + failures'[p] = Iterations
        BY <1>1, <1>2, <1>8, <2>2, <2>4 DEF CountsInv
      <3>2. \A p \in Pair : p > pair' => successes'[p] = 0 /\ failures'[p] = 0
        BY <1>1, <1>2, <1>8, <2>2, <2>4 DEF CountsInv
      <3>3. \A p \in Pair : p = pair' => successes'[p] + failures'[p] = index'
        BY <1>8, <2>4
      <3>. QED  BY <2>1, <3>1, <3>2, <3>3 DEF CountsInv
    <2>. QED  BY <1>5, <2>3, <2>4
  <1>11. ClosedInv'
    BY <1>4 DEF ClosedInv
  <1>12. SubscriptionInv' /\ SubmittedInv'
    BY <1>7 DEF SubscriptionInv, SubmittedInv
  <1>13. HeldInv'
    <2>. SUFFICES ASSUME NEW s, Submitted(s) PROVE Submitted(s)'
      BY <1>4 DEF IndInv, HeldInv
    <2>1. s \in Own /\ (Past(s) \/ s = Current)
      BY DEF Submitted
    <2>2. s[1] \in Nat /\ s[2] \in Nat /\ s[2] < Iterations
      BY <1>2, <2>1 DEF Own, Pair
    <2>3. s[1] < pair \/ (s[1] = pair /\ s[2] <= index)
      BY <1>2, <2>1, <2>2 DEF Past, Current
    <2>4. Past(s)'
      BY <1>2, <1>5, <2>2, <2>3 DEF Past
    <2>. QED  BY <2>1, <2>4 DEF Submitted
  <1>. QED  BY <1>9, <1>10, <1>11, <1>12, <1>13 DEF IndInv

-----------------------------------------------------------------------------
(* The steps of an iteration. *)

LEMMA FrameType ==
  ASSUME TypeOK, UNCHANGED <<topicOverride, resultVars>>, pc' \in Location,
         drained' \in BOOLEAN, sent' \subseteq Own, holds' \in [Nodes -> SUBSET Statement],
         toDump' \subseteq Statement, toPush' \subseteq Statement,
         dumping' \in BOOLEAN, stream' \in Seq(Event)
  PROVE  TypeOK'
  <1>1. topicOverride' \in BOOLEAN
    BY DEF TypeOK
  <1>2. /\ pair' \in 0 .. Pairs /\ index' \in 0 .. (Iterations - 1)
        /\ successes' \in [Pair -> 0 .. Iterations]
        /\ failures' \in [Pair -> 0 .. Iterations]
    BY DEF TypeOK, resultVars
  <1>. QED  BY <1>1, <1>2 DEF TypeOK

LEMMA FrameCounts ==
  ASSUME CountsInv, UNCHANGED resultVars, pc # "finished", pc' # "finished"
  PROVE  CountsInv'
  BY DEF CountsInv, resultVars

\* What the subscription is about does not change during an iteration.
LEMMA FrameMatching ==
  ASSUME UNCHANGED <<topicOverride, resultVars>>
  PROVE  /\ Matching' = Matching /\ Current' = Current
         /\ SubmitNode(pair)' = SubmitNode(pair)
         /\ SubscribeNode(pair)' = SubscribeNode(pair)
         /\ \A s : Past(s)' = Past(s)
  BY DEF Matching, Topic, Current, SubmitNode, SubscribeNode, Past, resultVars

\* An event of the dump, or a live one.
LEMMA PushHolds ==
  ASSUME IndInv, Open, UNCHANGED <<topicOverride, pc, resultVars, drained, sent, holds>>,
         NEW batch \in SUBSET (toDump \cup toPush), NEW last \in BOOLEAN,
         stream' = Append(stream, [batch |-> batch, last |-> last]),
         toDump' \subseteq toDump, toPush' \subseteq toPush, dumping' \in BOOLEAN
  PROVE  IndInv'
  <1>1. TypeOK /\ stream \in Seq(Event)
    BY DEF IndInv, TypeOK
  <1>. DEFINE e == [batch |-> batch, last |-> last]
  <1>2. e \in Event /\ e.batch = batch
    BY <1>1 DEF Event, TypeOK
  <1>3. /\ stream' \in Seq(Event) /\ Len(stream') = Len(stream) + 1
        /\ DOMAIN stream = 1 .. Len(stream) /\ DOMAIN stream' = 1 .. (Len(stream) + 1)
        /\ stream'[Len(stream) + 1] = e
        /\ \A i \in 1 .. Len(stream) : stream'[i] = stream[i]
        /\ Len(stream) \in Nat
    BY <1>1, <1>2
  <1>4. TypeOK'
    <2>1. /\ pc' \in Location /\ drained' \in BOOLEAN /\ sent' \subseteq Own
          /\ holds' \in [Nodes -> SUBSET Statement]
          /\ toDump' \subseteq Statement /\ toPush' \subseteq Statement
      BY <1>1 DEF TypeOK
    <2>. QED  BY <1>1, <1>3, <2>1, FrameType
  <1>5. Open' /\ pc # "finished"
    BY DEF Open
  <1>6. CountsInv'
    BY <1>5, FrameCounts DEF IndInv
  <1>7. SubscriptionInv'
    <2>. DEFINE known == holds[SubscribeNode(pair)] \cap Matching
    <2>1. known' = known
      BY FrameMatching
    <2>2. /\ toDump \subseteq known /\ toPush \subseteq known
          /\ \A i \in DOMAIN stream : stream[i].batch \subseteq known
      BY DEF IndInv, SubscriptionInv
    <2>. HIDE DEF known, e
    <2>3. ASSUME NEW i \in DOMAIN stream' PROVE stream'[i].batch \subseteq known
      <3>1. CASE i \in 1 .. Len(stream)
        BY <1>3, <2>2, <3>1
      <3>2. CASE i = Len(stream) + 1
        BY <1>2, <1>3, <2>2, <3>2
      <3>. QED  BY <1>3, <3>1, <3>2
    <2>4. toDump' \subseteq known /\ toPush' \subseteq known
      BY <2>2
    <2>. QED  BY <2>1, <2>3, <2>4 DEF SubscriptionInv, known
  <1>8. ClosedInv'
    BY <1>5 DEF ClosedInv
  <1>9. HeldInv' /\ SubmittedInv'
    BY FrameMatching DEF IndInv, HeldInv, Submitted, SubmittedInv
  <1>. QED  BY <1>4, <1>6, <1>7, <1>8, <1>9 DEF IndInv

\* A statement reaches a node.
LEMMA ReachesHolds ==
  ASSUME IndInv, UNCHANGED topicOverride, pc # "finished",
         NEW n \in Nodes, NEW s \in Statement, Reaches(s, n),
         sent' \subseteq sent, topicOverride \/ Submitted(s)
  PROVE  IndInv'
  <1>1. TypeOK /\ CountsInv /\ holds \in [Nodes -> SUBSET Statement]
    BY DEF IndInv, TypeOK
  <1>2. /\ holds' = [holds EXCEPT ![n] = holds[n] \cup {s}]
        /\ toPush' = IF Open /\ n = SubscribeNode(pair) /\ s \in Matching
                     THEN toPush \cup {s} ELSE toPush
        /\ UNCHANGED <<pc, resultVars, drained, toDump, dumping, stream>>
    BY DEF Reaches
  <1>3. /\ \A m \in Nodes : holds'[m] = IF m = n THEN holds[n] \cup {s} ELSE holds[m]
        /\ holds' \in [Nodes -> SUBSET Statement]
    BY <1>1, <1>2
  <1>4. /\ UNCHANGED <<topicOverride, resultVars>> /\ Open' = Open
        /\ SubmitNode(pair) \in Nodes /\ SubscribeNode(pair) \in Nodes
    BY <1>1, <1>2, Measured DEF Open
  <1>5. /\ Matching' = Matching /\ Current' = Current
        /\ SubmitNode(pair)' = SubmitNode(pair)
        /\ SubscribeNode(pair)' = SubscribeNode(pair)
        /\ \A t : Past(t)' = Past(t)
    BY <1>4, FrameMatching
  <1>6. TypeOK'
    <2>1. /\ pc' \in Location /\ drained' \in BOOLEAN /\ sent' \subseteq Own
          /\ toDump' \subseteq Statement /\ toPush' \subseteq Statement
          /\ dumping' \in BOOLEAN /\ stream' \in Seq(Event)
      BY <1>1, <1>2 DEF TypeOK
    <2>. QED  BY <1>1, <1>3, <1>4, <2>1, FrameType
  <1>7. CountsInv'
    BY <1>1, <1>2, FrameCounts
  <1>8. ClosedInv'
    BY <1>2, <1>4 DEF IndInv, ClosedInv
  <1>9. SubscriptionInv'
    <2>. SUFFICES ASSUME Open
                  PROVE  LET known == holds'[SubscribeNode(pair)] \cap Matching
                         IN  /\ toDump' \subseteq known /\ toPush' \subseteq known
                             /\ \A i \in DOMAIN stream' : stream'[i].batch \subseteq known
      BY <1>4, <1>5 DEF SubscriptionInv
    <2>1. holds[SubscribeNode(pair)] \subseteq holds'[SubscribeNode(pair)]
          /\ (n = SubscribeNode(pair) => s \in holds'[SubscribeNode(pair)])
      BY <1>3, <1>4
    <2>2. LET known == holds[SubscribeNode(pair)] \cap Matching
          IN  /\ toDump \subseteq known /\ toPush \subseteq known
              /\ \A i \in DOMAIN stream : stream[i].batch \subseteq known
      BY DEF IndInv, SubscriptionInv
    <2>. QED  BY <1>2, <2>1, <2>2
  <1>10. HeldInv'
    <2>1. \A t : Submitted(t) => Submitted(t)'
      BY <1>2, <1>5 DEF Submitted
    <2>2. \A m \in Nodes : \A t \in holds'[m] : t = s \/ t \in holds[m]
      BY <1>3
    <2>. QED  BY <1>2, <2>1, <2>2 DEF IndInv, HeldInv
  <1>11. SubmittedInv'
    BY <1>2, <1>3, <1>4, <1>5 DEF IndInv, SubmittedInv
  <1>. QED  BY <1>6, <1>7, <1>8, <1>9, <1>10, <1>11 DEF IndInv

LEMMA NodeHolds == ASSUME IndInv, Node PROVE IndInv'
  <1>1. CASE Gossip
    <2>1. PICK s \in Statement, n \in Nodes :
            /\ (topicOverride /\ s \in Foreign) \/ \E m \in Nodes : s \in holds[m]
            /\ Reaches(s, n)
      BY <1>1 DEF Gossip
    <2>2. topicOverride \/ Submitted(s)
      BY <2>1 DEF IndInv, HeldInv
    <2>. QED  BY <1>1, <2>1, <2>2, ReachesHolds DEF Gossip, Node
  <1>2. CASE Accept
    <2>1. PICK s \in sent : Reaches(s, SubmitNode(s[1])) /\ sent' = sent \ {s}
      BY <1>2 DEF Accept
    <2>2. Submitted(s) /\ s \in Statement /\ s[1] \in Pair
      BY DEF IndInv, HeldInv, Submitted, Statement, Own
    <2>. DEFINE n == SubmitNode(s[1])
    <2>3. n \in Nodes
      BY <2>2, Sides
    <2>. HIDE DEF n
    <2>4. Reaches(s, n) /\ sent' \subseteq sent
      BY <2>1 DEF n
    <2>. QED  BY <1>2, <2>2, <2>3, <2>4, ReachesHolds DEF Accept, Node
  <1>3. CASE PushDump
    <2>1. PICK batch \in SUBSET toDump :
            /\ stream' = Append(stream, [batch |-> batch, last |-> batch = toDump])
            /\ toDump' = toDump \ batch
            /\ dumping' = (batch # toDump)
      BY <1>3 DEF PushDump
    <2>. DEFINE last == batch = toDump
    <2>2. last \in BOOLEAN /\ dumping' \in BOOLEAN
          /\ stream' = Append(stream, [batch |-> batch, last |-> last])
      BY <2>1
    <2>. HIDE DEF last
    <2>3. batch \in SUBSET (toDump \cup toPush) /\ toDump' \subseteq toDump
      BY <2>1
    <2>4. Open /\ UNCHANGED <<topicOverride, pc, resultVars, drained, sent, holds>>
          /\ toPush' \subseteq toPush
      BY <1>3 DEF PushDump, Node
    <2>. QED  BY <2>2, <2>3, <2>4, PushHolds
  <1>4. CASE PushLive
    <2>1. PICK batch \in SUBSET toPush :
            /\ stream' = Append(stream, [batch |-> batch, last |-> TRUE])
            /\ toPush' = toPush \ batch
      BY <1>4 DEF PushLive
    <2>2. batch \in SUBSET (toDump \cup toPush) /\ toPush' \subseteq toPush
          /\ TRUE \in BOOLEAN
      BY <2>1
    <2>3. Open /\ UNCHANGED <<topicOverride, pc, resultVars, drained, sent, holds>>
          /\ toDump' \subseteq toDump /\ dumping' \in BOOLEAN
      BY <1>4 DEF PushLive, Node, IndInv, TypeOK
    <2>. QED  BY <2>1, <2>2, <2>3, PushHolds
  <1>. QED  BY <1>1, <1>2, <1>3, <1>4 DEF Node

LEMMA SubscribeHolds == ASSUME IndInv, Subscribe, UNCHANGED topicOverride PROVE IndInv'
  <1>1. /\ TypeOK /\ CountsInv /\ pc = "subscribe" /\ ~Open
        /\ pc' = "drain" /\ Open' /\ UNCHANGED <<topicOverride, resultVars>>
        /\ UNCHANGED <<drained, sent, holds, toPush, stream>> /\ dumping' = TRUE
        /\ toDump' = holds[SubscribeNode(pair)] \cap Matching
    BY DEF IndInv, Subscribe, Goto, Open
  <1>2. toPush' = {} /\ stream' = <<>>
    BY <1>1 DEF IndInv, ClosedInv
  <1>3. /\ Matching' = Matching /\ Current' = Current
        /\ SubmitNode(pair)' = SubmitNode(pair)
        /\ SubscribeNode(pair)' = SubscribeNode(pair)
        /\ \A s : Past(s)' = Past(s)
    BY <1>1, FrameMatching
  <1>4. TypeOK'
    <2>1. /\ pc' \in Location /\ drained' \in BOOLEAN /\ sent' \subseteq Own
          /\ holds' \in [Nodes -> SUBSET Statement]
          /\ dumping' \in BOOLEAN
      BY <1>1 DEF TypeOK, Location
    <2>2. toDump' \subseteq Statement /\ toPush' \subseteq Statement
      BY <1>1, <1>2 DEF Matching
    <2>3. stream' \in Seq(Event)
      BY <1>2
    <2>. QED  BY <1>1, <2>1, <2>2, <2>3, FrameType
  <1>5. CountsInv'
    BY <1>1, FrameCounts
  <1>6. ClosedInv' /\ SubmittedInv'
    BY <1>1 DEF ClosedInv, SubmittedInv
  <1>7. SubscriptionInv'
    BY <1>1, <1>2, <1>3 DEF SubscriptionInv
  <1>8. HeldInv'
    BY <1>1, <1>3 DEF IndInv, HeldInv, Submitted
  <1>. QED  BY <1>4, <1>5, <1>6, <1>7, <1>8 DEF IndInv

\* Without --topic the node of a subscription holds nothing of its topic before the
\* statement is submitted.
LEMMA NothingKnown ==
  ASSUME TypeOK, CountsInv, HeldInv, SubscriptionInv, ~topicOverride, pc = "drain"
  PROVE  /\ Matching = {Current}
         /\ toDump = {} /\ toPush = {}
         /\ \A i \in DOMAIN stream : stream[i].batch = {}
  <1>1. /\ Open /\ SubscribeNode(pair) \in Nodes /\ Current \in Statement
        /\ pair \in Nat /\ index \in Nat
    BY Measured DEF Open
  <1>2. Matching = {Current}
    BY <1>1 DEF Matching, Topic, Current
  <1>3. ~Past(Current)
    BY <1>1 DEF Past, Current
  <1>4. holds[SubscribeNode(pair)] \cap Matching = {}
    BY <1>1, <1>2, <1>3 DEF HeldInv, Submitted
  <1>. QED  BY <1>1, <1>2, <1>4 DEF SubscriptionInv

LEMMA DrainHolds == ASSUME IndInv, Drain, UNCHANGED topicOverride PROVE IndInv'
  <1>1. TypeOK /\ CountsInv /\ pc = "drain" /\ stream # <<>> /\ Open
    BY DEF IndInv, Drain, Open
  <1>2. CASE EndIteration(FALSE)
    BY <1>1, <1>2, EndIterationHolds
  <1>. DEFINE some == drained \/ Head(stream).batch # {}
  <1>3. CASE /\ Goto(IF Head(stream).last THEN "submit" ELSE "drain")
             /\ sent' = IF Head(stream).last THEN sent \cup {<<pair, index>>} ELSE sent
             /\ drained' = some
             /\ stream' = Tail(stream)
             /\ UNCHANGED <<holds, toDump, dumping, toPush>>
    <2>1. /\ pc' \in {"submit", "drain"} /\ Open' /\ UNCHANGED <<topicOverride, resultVars>>
      BY <1>3 DEF Goto, Open
    <2>2. /\ Matching' = Matching /\ Current' = Current
          /\ SubmitNode(pair)' = SubmitNode(pair)
          /\ SubscribeNode(pair)' = SubscribeNode(pair)
          /\ \A s : Past(s)' = Past(s)
      BY <2>1, FrameMatching
    <2>3. /\ stream \in Seq(Event) /\ stream' \in Seq(Event)
          /\ Head(stream) = stream[1] /\ 1 \in DOMAIN stream
          /\ \A i \in DOMAIN stream' : i + 1 \in DOMAIN stream /\ stream'[i] = stream[i + 1]
      <3>1. stream \in Seq(Event)
        BY <1>1 DEF TypeOK
      <3>. QED  BY <1>1, <1>3, <3>1
    <2>4. TypeOK'
      <3>1. /\ holds' \in [Nodes -> SUBSET Statement] /\ sent' \subseteq Own
            /\ toDump' \subseteq Statement /\ toPush' \subseteq Statement
            /\ dumping' \in BOOLEAN
        BY <1>1, <1>3, Measured DEF TypeOK, Current
      <3>2. pc' \in Location
        BY <2>1 DEF Location
      <3>3. drained' \in BOOLEAN
        BY <1>3
      <3>. QED  BY <1>1, <2>1, <2>3, <3>1, <3>2, <3>3, FrameType
    <2>5. CountsInv'
      BY <1>1, <2>1, FrameCounts
    <2>6. ClosedInv' /\ SubmittedInv'
      BY <2>1 DEF ClosedInv, SubmittedInv
    <2>7. SubscriptionInv'
      <3>1. LET known == holds[SubscribeNode(pair)] \cap Matching
            IN  /\ toDump \subseteq known /\ toPush \subseteq known
                /\ \A i \in DOMAIN stream : stream[i].batch \subseteq known
        BY <1>1 DEF IndInv, SubscriptionInv
      <3>. QED  BY <1>3, <2>2, <2>3, <3>1 DEF SubscriptionInv
    <2>8. HeldInv'
      <3>1. ~topicOverride => ~drained'
        BY <1>1, <1>3, <2>3, NothingKnown DEF IndInv, HeldInv
      <3>2. \A s : Submitted(s) => Submitted(s)'
        BY <1>1, <2>2 DEF Submitted
      <3>3. ASSUME NEW s, s = Current, Head(stream).last PROVE Submitted(s)'
        BY <1>1, <1>3, <2>2, <3>3, Measured DEF Submitted, Goto
      <3>4. ASSUME NEW s \in sent' PROVE Submitted(s)'
        <4>1. s \in sent \/ (s = Current /\ Head(stream).last)
          BY <1>3 DEF Current
        <4>. QED  BY <3>2, <3>3, <4>1 DEF IndInv, HeldInv
      <3>. QED  BY <1>3, <2>1, <3>1, <3>2, <3>4 DEF IndInv, HeldInv
    <2>. QED  BY <2>4, <2>5, <2>6, <2>7, <2>8 DEF IndInv
  <1>. QED  BY <1>2, <1>3 DEF Drain

LEMMA SubmitHolds == ASSUME IndInv, Submit, UNCHANGED topicOverride PROVE IndInv'
  <1>1. /\ TypeOK /\ CountsInv /\ pc = "submit" /\ Open
        /\ Current \in holds[SubmitNode(pair)]
        /\ pc' = "receive" /\ Open' /\ UNCHANGED <<topicOverride, resultVars>>
        /\ UNCHANGED <<drained, sent, holds, toDump, dumping, toPush, stream>>
    BY DEF IndInv, Submit, Goto, Open, Current, subscriptionVars
  <1>2. /\ Matching' = Matching /\ Current' = Current
        /\ SubmitNode(pair)' = SubmitNode(pair)
        /\ SubscribeNode(pair)' = SubscribeNode(pair)
        /\ \A s : Past(s)' = Past(s)
    BY <1>1, FrameMatching
  <1>3. TypeOK'
    <2>1. /\ pc' \in Location /\ drained' \in BOOLEAN /\ sent' \subseteq Own
          /\ holds' \in [Nodes -> SUBSET Statement]
          /\ toDump' \subseteq Statement /\ toPush' \subseteq Statement
          /\ dumping' \in BOOLEAN /\ stream' \in Seq(Event)
      BY <1>1 DEF TypeOK, Location
    <2>. QED  BY <1>1, <2>1, FrameType
  <1>4. CountsInv'
    BY <1>1, FrameCounts
  <1>5. ClosedInv' /\ SubmittedInv'
    BY <1>1, <1>2 DEF ClosedInv, SubmittedInv
  <1>6. SubscriptionInv'
    BY <1>1, <1>2 DEF IndInv, SubscriptionInv
  <1>7. HeldInv'
    BY <1>1, <1>2 DEF IndInv, HeldInv, Submitted
  <1>. QED  BY <1>3, <1>4, <1>5, <1>6, <1>7 DEF IndInv

LEMMA NextHolds == ASSUME IndInv, [Next]_vars PROVE IndInv'
  <1>1. CASE Bench
    <2>1. ASSUME SubscribeFails \/ SubmitFails \/ StreamFails PROVE IndInv'
      <3>1. pc # "finished" /\ EndIteration(FALSE)
        BY <2>1 DEF SubscribeFails, SubmitFails, StreamFails
      <3>. QED  BY <1>1, <3>1, EndIterationHolds DEF Bench
    <2>2. ASSUME Receive PROVE IndInv'
      <3>1. pc # "finished" /\ EndIteration(Head(stream).batch # {})
        BY <2>2 DEF Receive
      <3>. QED  BY <1>1, <3>1, EndIterationHolds DEF Bench
    <2>. QED  BY <1>1, <2>1, <2>2, SubscribeHolds, DrainHolds, SubmitHolds DEF Bench
  <1>2. CASE UNCHANGED vars
    <2>1. /\ UNCHANGED <<topicOverride, resultVars>> /\ Open' = Open
          /\ UNCHANGED <<pc, drained, sent, holds, toDump, dumping, toPush, stream>>
      BY <1>2 DEF vars, subscriptionVars, Open
    <2>2. TypeOK' /\ CountsInv' /\ ClosedInv'
      BY <2>1 DEF IndInv, TypeOK, CountsInv, ClosedInv, resultVars
    <2>3. SubscriptionInv' /\ HeldInv' /\ SubmittedInv'
      BY <2>1, FrameMatching DEF IndInv, SubscriptionInv, HeldInv, Submitted, SubmittedInv
    <2>. QED  BY <2>2, <2>3 DEF IndInv
  <1>. QED  BY <1>1, <1>2, NodeHolds DEF Next

LEMMA Invariant == Spec => []IndInv
  <1>. QED  BY InitHolds, NextHolds, PTL DEF Spec

-----------------------------------------------------------------------------
(* Theorems. *)

\* The state of the benchmark has the types stated: the pair and the index stay in
\* their ranges, and no more is counted for a pair than its iterations.
THEOREM TypeCorrect == Spec => []TypeOK
  <1>. IndInv => TypeOK
    BY DEF IndInv
  <1>. QED  BY Invariant, PTL

\* Every pair reports all of its iterations, each once (run_pair).
THEOREM AllAreCounted == Spec => []AllCounted
  <1>. IndInv => AllCounted
    BY DEF IndInv, CountsInv, AllCounted
  <1>. QED  BY Invariant, PTL

\* Without --topic, what an iteration takes for its statement is its statement: those
\* of earlier iterations, however late they arrive, are neither in the dump nor
\* pushed (run_single_iteration).
THEOREM MeasuresItsOwn == Spec => MeasuresOwn
  <1>. DEFINE Measure == ~topicOverride /\ Succeeds => OwnReceived
  <1>1. IndInv => (~topicOverride => DumpIsEmpty)
    BY NothingKnown DEF IndInv, HeldInv, DumpIsEmpty
  <1>2. ASSUME IndInv, Next PROVE Measure
    <2>. SUFFICES ASSUME ~topicOverride, Succeeds PROVE OwnReceived
      OBVIOUS
    <2>0. /\ TypeOK /\ CountsInv
          /\ \A p \in Pair : successes[p] \in Nat /\ failures[p] \in Nat
      BY <1>2, Sides DEF IndInv, TypeOK
    <2>1. successes' # successes
      BY <2>0 DEF Succeeds
    <2>2. ~EndIteration(FALSE)
      <3>. SUFFICES ASSUME EndIteration(FALSE) PROVE FALSE
        OBVIOUS
      <3>1. successes' = successes
        BY <2>0 DEF EndIteration, TypeOK
      <3>. QED  BY <2>1, <3>1
    <2>3. Receive
      BY <1>2, <2>1, <2>2 DEF Next, Bench, Node, Subscribe, SubscribeFails, Drain,
         Submit, SubmitFails, StreamFails, Gossip, Accept, Reaches, PushDump, PushLive,
         Goto, resultVars
    <2>4. pc = "receive" /\ stream # <<>> /\ Open
      BY <2>3 DEF Receive, Open
    <2>5. Head(stream).batch # {}
      <3>. SUFFICES ASSUME Head(stream).batch = {} PROVE FALSE
        OBVIOUS
      <3>1. EndIteration(FALSE)
        BY <2>3 DEF Receive, EndIteration
      <3>. QED  BY <2>2, <3>1
    <2>6. Head(stream) = stream[1] /\ 1 \in DOMAIN stream
      <3>1. stream \in Seq(Event)
        BY <2>0 DEF TypeOK
      <3>. QED  BY <2>4, <3>1
    <2>7. Head(stream).batch \subseteq holds[SubscribeNode(pair)] \cap Matching
      BY <1>2, <2>4, <2>6 DEF IndInv, SubscriptionInv
    <2>8. Matching = {Current}
      <3>1. Current \in Statement
        BY <2>0, <2>4, Measured
      <3>. QED  BY <3>1 DEF Matching, Topic, Current
    <2>9. Head(stream).batch = {Current} /\ Current \in holds[SubscribeNode(pair)]
      BY <2>5, <2>7, <2>8
    <2>10. Current \in holds[SubmitNode(pair)]
      BY <1>2, <2>4 DEF IndInv, SubmittedInv
    <2>. QED  BY <2>9, <2>10 DEF OwnReceived, Current
  <1>3. ASSUME IndInv, [Next]_vars PROVE [Measure]_vars
    BY <1>2, <1>3
  <1>4. Spec => [](~topicOverride => DumpIsEmpty)
    BY <1>1, Invariant, PTL
  <1>5. Spec => [][Measure]_vars
    BY <1>3, Invariant, PTL DEF Spec
  <1>. QED  BY <1>4, <1>5 DEF MeasuresOwn
=============================================================================
