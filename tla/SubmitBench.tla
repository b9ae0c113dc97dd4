----------------------------- MODULE SubmitBench -----------------------------
(***************************************************************************)
(* statement-ops-bench submit (src/src/ops/submit.rs).  The endpoints are  *)
(* visited one after the other.  On each one, batches of statements are    *)
(* built, submitted at once and joined; then their results are counted.    *)
(*                                                                         *)
(* External, from their use: the node, which keeps one statement per       *)
(* channel, that of the highest priority, and may refuse any; the RPC      *)
(* connection, whose requests overtake one another, may fail, and may      *)
(* reach the node after they have been given up.                           *)
(***************************************************************************)
EXTENDS Integers, FiniteSets, FiniteSetsExt

CONSTANTS
  Endpoints,    \* number of --rpc-endpoints
  Iteration,    \* the values of --iterations to consider
  Batch,        \* the values of --iteration-batch to consider
  Modulus       \* 2^32 in the code: the number of u32 values

\* SubmitConfig::validate, and a width.
ASSUME SubmitAssumption ==
  /\ Endpoints \in Nat
  /\ Iteration \subseteq Nat \ {0}
  /\ Batch \subseteq Nat \ {0}
  /\ Modulus \in Nat \ {0}

U32 == 0 .. (Modulus - 1)

VARIABLES
  iterations,      \* option --iterations
  batchSize,       \* option --iteration-batch
  repeated,        \* option --rpc-endpoints: one URL several times, or different ones
  overflowChecks,  \* whether the build panics on overflow
  pc,              \* where run_submit_on_endpoint is
  endpoint,        \* the endpoint being visited
  batchIdx,        \* the batch being submitted
  baseExpiry,      \* base_expiry of this endpoint
  requests,        \* the statements of this batch, by sub_idx
  answer,          \* the answers to them
  successes,       \* per endpoint
  failures,        \* per endpoint
  samples,         \* per endpoint, how many durations were taken
  sent,            \* node: statements on their way to this endpoint
  held             \* node: the statements the node of this endpoint holds

options == <<iterations, batchSize, repeated, overflowChecks>>
reportVars == <<successes, failures, samples>>
nodeVars == <<sent, held>>
vars == <<options, pc, endpoint, batchIdx, baseExpiry, requests, answer,
          reportVars, nodeVars>>

Endpoint == 1 .. Endpoints
Answer == {"none", "ok", "failed"}

\* Data and topic are left out; the channel is derived from the index.
Statement == [channel : U32, expiry : U32, seq : U32]

TypeOK ==
  /\ pc \in {"start", "build", "join", "finished", "panicked"}
  /\ endpoint \in 1 .. (Endpoints + 1)
  /\ batchIdx \in 0 .. (iterations - 1)
  /\ baseExpiry \in U32
  /\ DOMAIN requests = DOMAIN answer
  /\ \A i \in DOMAIN requests : requests[i] \in Statement /\ answer[i] \in Answer
  /\ successes \in [Endpoint -> U32] /\ failures \in [Endpoint -> U32]
  /\ samples \in [Endpoint -> 0 .. iterations]
  /\ sent \subseteq Statement /\ held \subseteq Statement

NoRequests == [i \in {} |-> 0]

Init ==
  /\ iterations \in Iteration /\ batchSize \in Batch
  /\ repeated \in BOOLEAN /\ overflowChecks \in BOOLEAN
  /\ pc = IF Endpoints = 0 THEN "finished" ELSE "start"
  /\ endpoint = 1 /\ batchIdx = 0 /\ baseExpiry = 0
  /\ requests = NoRequests /\ answer = NoRequests
  /\ successes = [e \in Endpoint |-> 0]
  /\ failures = [e \in Endpoint |-> 0]
  /\ samples = [e \in Endpoint |-> 0]
  /\ sent = {} /\ held = {}

-----------------------------------------------------------------------------
(* The node of the endpoint being visited. *)

\* (expiry << 32) | seq
Outranks(s, t) ==
  s.expiry > t.expiry \/ (s.expiry = t.expiry /\ s.seq > t.seq)

\* It takes a statement unless it holds one of the channel that this one does
\* not outrank, which it then replaces.  Statements are looked at in any order.
Takes(s) ==
  LET old == {t \in held : t.channel = s.channel}
  IN  /\ \A t \in old : Outranks(s, t)
      /\ held' = (held \ old) \cup {s}
      /\ sent' = sent \ {s}
      /\ UNCHANGED <<options, pc, endpoint, batchIdx, baseExpiry, requests,
                     answer, reportVars>>

\* New or Known for what the node has taken.
AnswersOk(i) ==
  /\ answer[i] = "none"
  /\ requests[i] \in held
  /\ answer' = [answer EXCEPT ![i] = "ok"]
  /\ UNCHANGED <<options, pc, endpoint, batchIdx, baseExpiry, requests,
                 reportVars, nodeVars>>

\* Any other SubmitResult, or an error, even for what the node has taken or
\* will take.
AnswersFailed(i) ==
  /\ answer[i] = "none"
  /\ answer' = [answer EXCEPT ![i] = "failed"]
  /\ UNCHANGED <<options, pc, endpoint, batchIdx, baseExpiry, requests,
                 reportVars, nodeVars>>

-----------------------------------------------------------------------------
(* run_submit_on_endpoint. *)

\* expiry_seconds_from_now: the sum is truncated to u32, and may be any value,
\* in the past as well.
ExpirySecondsFromNow == U32

\* The endpoint is one more node, which holds nothing yet, or the same one again:
\* it keeps what it has, and the channels derived from its URL are used again.
StartEndpoint ==
  /\ pc = "start"
  /\ pc' = "build"
  /\ baseExpiry' \in ExpirySecondsFromNow
  /\ IF repeated THEN UNCHANGED nodeVars ELSE sent' = {} /\ held' = {}
  /\ UNCHANGED <<options, endpoint, batchIdx, requests, answer, reportVars>>

\* batch_idx * iteration_batch + sub_idx, before it is reduced to u32.
GlobalIdx(sub) == batchIdx * batchSize + sub

SubIdx == 0 .. (batchSize - 1)

\* Mutants of SaturatingAdd: it wraps, or exceeds the width.
WrappingAdd(a, b) == (a + b) % Modulus
UnboundedAdd(a, b) == a + b

SaturatingAdd(a, b) == Min({a + b, Modulus - 1})

\* derive_channel: the hash of run, URL and index; the first two are fixed on a node.
DeriveChannel(idx) == idx

BuildStatement(idx) ==
  [channel |-> DeriveChannel(idx), expiry |-> SaturatingAdd(baseExpiry, idx),
   seq |-> idx]

\* The statements of a batch are built, then join_all sends them all.
Build ==
  /\ pc = "build"
  /\ overflowChecks => \A sub \in SubIdx : GlobalIdx(sub) \in U32
  /\ pc' = "join"
  /\ requests' =
       [sub \in SubIdx |-> BuildStatement(GlobalIdx(sub) % Modulus)]
  /\ answer' = [sub \in SubIdx |-> "none"]
  /\ sent' = sent \cup {requests'[sub] : sub \in SubIdx}
  /\ UNCHANGED <<options, endpoint, batchIdx, baseExpiry, reportVars, held>>

Answered(a) == Cardinality({i \in SubIdx : answer[i] = a})

\* Mutant of Joined: the batch is left at its first answer.
FirstAnswered == Answered("none") < batchSize

\* Mutant of Joined: only successes are waited for.
AllOk == Answered("ok") = batchSize

\* join_all is ready when all of its futures are.
Joined == Answered("none") = 0

\* Additions to the counts, before they are reduced to u32.
Successes == successes[endpoint] + Answered("ok")
Failures == failures[endpoint] + Answered("failed")

\* An index or a count exceeds u32.
Overflows ==
  /\ overflowChecks
  /\ \/ pc = "build" /\ \E sub \in SubIdx : GlobalIdx(sub) \notin U32
     \/ pc = "join" /\ Joined /\ {Successes, Failures} \ U32 # {}
  /\ pc' = "panicked"
  /\ UNCHANGED <<options, endpoint, batchIdx, baseExpiry, requests, answer,
                 reportVars, nodeVars>>

\* One duration, and the results in the order of submission.
Join ==
  /\ pc = "join"
  /\ Joined
  /\ overflowChecks => {Successes, Failures} \subseteq U32
  /\ successes' = [successes EXCEPT ![endpoint] = Successes % Modulus]
  /\ failures' = [failures EXCEPT ![endpoint] = Failures % Modulus]
  /\ samples' = [samples EXCEPT ![endpoint] = @ + 1]
  /\ requests' = NoRequests /\ answer' = NoRequests
  /\ batchIdx' = (batchIdx + 1) % iterations
  /\ \/ /\ batchIdx + 1 < iterations
        /\ pc' = "build" /\ UNCHANGED endpoint
     \/ /\ batchIdx + 1 = iterations
        /\ pc' = IF endpoint < Endpoints THEN "start" ELSE "finished"
        /\ endpoint' = endpoint + 1
  /\ UNCHANGED <<options, baseExpiry, nodeVars>>

-----------------------------------------------------------------------------
Bench == StartEndpoint \/ Build \/ Overflows \/ Join

Node ==
  \/ \E s \in sent : Takes(s)
  \/ \E i \in DOMAIN requests : AnswersOk(i) \/ AnswersFailed(i)

Next == Bench \/ Node

Spec == Init /\ [][Next]_vars

\* Requests are answered, if only by the timeout of the RPC client.
FairSpec ==
  /\ Spec
  /\ WF_vars(Bench)
  /\ WF_vars(\E i \in DOMAIN requests : AnswersOk(i) \/ AnswersFailed(i))

-----------------------------------------------------------------------------
(* Properties. *)

\* Indices and counts fit in u32.
InRange == iterations * batchSize < Modulus

\* Whatever the answers and their order, each statement of each batch is counted
\* once, and each batch has given one sample.  Beyond the range this is so
\* modulo 2^32.
EveryStatementCounted ==
  pc = "finished" =>
    \A e \in Endpoint :
      LET counted == successes[e] + failures[e]
      IN  /\ counted % Modulus = (iterations * batchSize) % Modulus
          /\ InRange => counted = iterations * batchSize
          /\ samples[e] = iterations

\* README: "a distinct channel per statement and a strictly increasing expiry".
\* No statement of a run takes the place of another, in whichever order a node
\* looks at them, and the ones of a batch outrank all that was sent before, even
\* where the expiry is at its maximum.  A URL that is given twice is sent the same
\* channels twice, with another expiry.
NothingReplaced ==
  [][InRange /\ ~repeated =>
       /\ held \subseteq held' \/ pc = "start"
       /\ pc = "build" /\ pc' = "join" =>
            \A i \in SubIdx, t \in held \cup sent : Outranks(requests'[i], t)]_vars

\* The benchmark ends, also if nodes answer nothing.
Ends == <>(pc \in {"finished", "panicked"})
=============================================================================
