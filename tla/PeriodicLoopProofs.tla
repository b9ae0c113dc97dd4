------------------------- MODULE PeriodicLoopProofs -------------------------
(***************************************************************************)
(* Proofs about PeriodicLoop, for every interval and every combination of  *)
(* limits.                                                                 *)
(***************************************************************************)
EXTENDS PeriodicLoop, TLAPS

\* n intervals and one more.
LEMMA OneMoreInterval ==
  ASSUME NEW n \in Nat
  PROVE  n * Interval \in Nat /\ (n + 1) * Interval = n * Interval + Interval
  BY LoopAssumption

\* How many intervals begin within a duration.
LEMMA IntervalsWithin ==
  ASSUME NEW n \in Nat, NEW d \in Nat, n * Interval < d + Interval
  PROVE  n <= (d + Interval - 1) \div Interval
  <1>. DEFINE q == (d + Interval - 1) \div Interval
  <1>1. Interval \in Nat \ {0}
    BY LoopAssumption
  <1>2. q \in Nat /\ d + Interval - 1 < q * Interval + Interval
    BY <1>1
  <1>. HIDE DEF q
  <1>3. n <= q
    <2>. SUFFICES ASSUME q + 1 <= n PROVE FALSE
      BY <1>2
    <2>1. (q + 1) * Interval <= n * Interval
      BY <1>1, <1>2
    <2>2. (q + 1) * Interval = q * Interval + Interval
      BY <1>2, OneMoreInterval
    <2>3. n * Interval \in Nat /\ q * Interval \in Nat
      BY <1>2, OneMoreInterval
    <2>. QED  BY <1>1, <1>2, <2>1, <2>2, <2>3
  <1>. QED  BY <1>3 DEF q

-----------------------------------------------------------------------------
(* The inductive invariant. *)

InIteration == pc \in {"reconnect", "work"}

\* An iteration begins only if the limits allow another one.
LimitsInv ==
  /\ maxIterations # Unbounded =>
       iterations <= maxIterations /\ (InIteration => iterations < maxIterations)
  /\ maxDuration # Unbounded /\ InIteration => iterStart < maxDuration

\* An iteration begins no sooner than as many intervals after the start as there
\* were iterations before it.
PaceInv ==
  /\ pc = "top" => iterations * Interval <= now
  /\ InIteration => iterations * Interval <= iterStart
  /\ pc = "sleep" => iterations * Interval <= wakeAt
  /\ pc = "connect" => iterations = 0
  /\ maxDuration # Unbounded => iterations * Interval < maxDuration + Interval

\* The connections at hand between the iterations.
ConnectionsInv ==
  /\ pc = "reconnect" => reconnects
  /\ pc \in {"top", "sleep"} /\ (~reconnects \/ iterations = 0) => endpoints = 1

IndInv ==
  TypeOK /\ LoopReportTrue /\ ConnectionsOfIteration /\ LimitsInv /\ PaceInv
    /\ ConnectionsInv

LEMMA IndInit == Init => IndInv
  <1>. SUFFICES ASSUME Init PROVE IndInv
    OBVIOUS
  <1>1. TypeOK
    <2>1. pc \in Location /\ reason \in Reason
      BY DEF Init, Location, Reason
    <2>2. /\ now \in 0 .. Horizon /\ iterStart \in 0 .. now
          /\ wakeAt \in 0 .. (iterStart + Interval)
          /\ iterations \in Nat /\ lastReport \in 0 .. (iterations + 1)
      BY LoopAssumption DEF Init
    <2>. QED  BY <2>1, <2>2 DEF Init, TypeOK
  <1>2. LoopReportTrue /\ ConnectionsOfIteration /\ LimitsInv /\ ConnectionsInv
    BY LoopAssumption
       DEF Init, LoopReportTrue, ConnectionsOfIteration, LimitsInv, ConnectionsInv,
           InIteration
  <1>3. PaceInv
    BY OneMoreInterval, LoopAssumption DEF Init, PaceInv, InIteration
  <1>. QED  BY <1>1, <1>2, <1>3 DEF IndInv

\* The environment takes time and may kill the process.
LEMMA EnvironmentStep ==
  ASSUME IndInv, Tick \/ CtrlC \/ UNCHANGED vars
  PROVE  IndInv'
  <1>1. TypeOK'
    <2>1. pc' \in Location /\ cancel' \in BOOLEAN
      BY DEF IndInv, TypeOK, Tick, CtrlC, Location, vars
    <2>2. now' \in 0 .. Horizon /\ iterStart' \in 0 .. now'
      BY LoopAssumption DEF IndInv, TypeOK, Tick, CtrlC, vars
    <2>. QED  BY <2>1, <2>2 DEF IndInv, TypeOK, Tick, CtrlC, vars, options
  <1>2. LoopReportTrue'
    BY DEF IndInv, TypeOK, LoopReportTrue, Tick, CtrlC, vars, options, Awaiting
  <1>3. ConnectionsOfIteration' /\ ConnectionsInv'
    BY DEF IndInv, ConnectionsOfIteration, ConnectionsInv, Tick, CtrlC, vars, options
  <1>4. LimitsInv'
    BY DEF IndInv, LimitsInv, InIteration, Tick, CtrlC, vars, options
  <1>5. PaceInv'
    BY DEF IndInv, PaceInv, InIteration, Tick, CtrlC, vars, options, Awaiting
  <1>. QED  BY <1>1, <1>2, <1>3, <1>4, <1>5 DEF IndInv

\* The loop stops, or begins an iteration.
LEMMA BeginStep ==
  ASSUME IndInv, Begin, UNCHANGED options
  PROVE  IndInv'
  <1>t. /\ TypeOK /\ iterations \in Nat /\ iterations * Interval \in Nat
        /\ Interval \in Nat \ {0}
    BY OneMoreInterval, LoopAssumption DEF IndInv, TypeOK
  <1>1. TypeOK'
    <2>1. pc' \in Location /\ reason' \in Reason /\ handler' \in BOOLEAN
      BY <1>t DEF TypeOK, Begin, Stop, Location, Reason
    <2>2. /\ iterStart' \in 0 .. now' /\ wakeAt' \in 0 .. (iterStart' + Interval)
          /\ now' \in 0 .. Horizon
      BY <1>t, LoopAssumption DEF TypeOK, Begin
    <2>3. endpoints' \in {NoConnection} \cup 1 .. (iterations' + 1)
      BY <1>t DEF TypeOK, Begin
    <2>. QED  BY <1>t, <2>1, <2>2, <2>3 DEF TypeOK, Begin, options
  <1>2. LoopReportTrue'
    BY <1>t, LoopAssumption
       DEF IndInv, TypeOK, LoopReportTrue, Begin, Stop, OutOfIterations, OutOfTime,
           options
  <1>3. ConnectionsOfIteration' /\ ConnectionsInv'
    BY <1>t DEF IndInv, ConnectionsOfIteration, ConnectionsInv, Begin, Stop, options
  <1>4. LimitsInv'
    BY <1>t, LoopAssumption
       DEF IndInv, TypeOK, LimitsInv, InIteration, Begin, Stop, OutOfIterations,
           OutOfTime, options
  <1>5. PaceInv'
    BY <1>t DEF IndInv, PaceInv, InIteration, Begin, Stop, options
  <1>. QED  BY <1>1, <1>2, <1>3, <1>4, <1>5 DEF IndInv

\* An iteration ends, on connections of its own or without any.
LEMMA EndStep ==
  ASSUME IndInv, ReconnectFails \/ WorkEnds, UNCHANGED options
  PROVE  IndInv'
  <1>t. /\ TypeOK /\ iterations \in Nat /\ Interval \in Nat \ {0}
        /\ iterations * Interval \in Nat
        /\ iterations' = iterations + 1
        /\ iterations' * Interval = iterations * Interval + Interval
        /\ InIteration /\ EndIteration
    BY OneMoreInterval, LoopAssumption
       DEF IndInv, TypeOK, ReconnectFails, WorkEnds, EndIteration, InIteration
  <1>n. now \in Nat /\ iterStart \in 0 .. now
    BY LoopAssumption DEF IndInv, TypeOK
  <1>p. pc' \in {"stopped", "sleep", "top"}
    BY <1>t DEF EndIteration, Stop
  <1>1. TypeOK'
    <2>1. /\ pc' \in Location /\ reason' \in Reason
          /\ wakeAt' \in 0 .. (iterStart' + Interval)
      BY <1>t, <1>n DEF TypeOK, EndIteration, Stop, NextStart, Location, Reason
    <2>2. endpoints' \in {NoConnection} \cup 1 .. (iterations' + 1)
      BY <1>t DEF TypeOK, ReconnectFails, WorkEnds
    <2>3. lastReport' \in 0 .. (iterations' + 1)
      BY <1>t DEF TypeOK, ReconnectFails, WorkEnds
    <2>. QED  BY <1>t, <2>1, <2>2, <2>3 DEF TypeOK, EndIteration, options
  <1>2. LoopReportTrue'
    <2>1. lastReport' <= iterations' /\ (~reconnects => lastReport' = iterations')
      BY <1>t DEF IndInv, TypeOK, LoopReportTrue, ConnectionsInv, ReconnectFails,
                  WorkEnds
    <2>2. maxIterations # Unbounded => iterations' <= maxIterations
      BY <1>t, LoopAssumption DEF IndInv, TypeOK, LimitsInv
    <2>. QED  BY <1>t, <2>1, <2>2, LoopAssumption
              DEF IndInv, TypeOK, LoopReportTrue, EndIteration, Stop, OutOfIterations,
                  OutOfTime, InIteration, options
  <1>3. ConnectionsOfIteration' /\ ConnectionsInv'
    BY <1>t, <1>p DEF IndInv, ConnectionsOfIteration, ConnectionsInv, ReconnectFails,
                      WorkEnds, options
  <1>4. LimitsInv'
    BY <1>t, <1>p, LoopAssumption DEF IndInv, TypeOK, LimitsInv, InIteration, options
  <1>5. PaceInv'
    <2>1. iterations * Interval <= iterStart
      BY <1>t DEF IndInv, PaceInv
    <2>2. /\ pc' = "top" => NextStart <= now
          /\ pc' = "sleep" => wakeAt' = NextStart
          /\ now' = now
      BY <1>t, <1>n DEF EndIteration, MustPause, Stop, NextStart
    <2>3. maxDuration # Unbounded => iterStart < maxDuration /\ maxDuration \in Nat
      BY <1>t, LoopAssumption DEF IndInv, LimitsInv, TypeOK
    <2>. QED  BY <1>t, <1>n, <1>p, <2>1, <2>2, <2>3
              DEF PaceInv, InIteration, NextStart, options
  <1>. QED  BY <1>1, <1>2, <1>3, <1>4, <1>5 DEF IndInv

\* The other steps of the loop change neither count nor clock.
LEMMA OtherStep ==
  ASSUME IndInv, Connect \/ Cancelled \/ Reconnect \/ Wake, UNCHANGED options
  PROVE  IndInv'
  <1>t. /\ TypeOK /\ iterations \in Nat /\ iterations * Interval \in Nat
    BY OneMoreInterval DEF IndInv, TypeOK
  <1>1. TypeOK'
    BY <1>t DEF TypeOK, Connect, Cancelled, Reconnect, Wake, Stop, Location, Reason,
                options
  <1>2. LoopReportTrue'
    BY DEF IndInv, LoopReportTrue, Connect, Cancelled, Reconnect, Wake, Stop, Awaiting,
           options
  <1>3. ConnectionsOfIteration' /\ ConnectionsInv'
    BY DEF IndInv, ConnectionsOfIteration, ConnectionsInv, Connect, Cancelled,
           Reconnect, Wake, Stop, options
  <1>4. LimitsInv'
    BY DEF IndInv, LimitsInv, InIteration, Connect, Cancelled, Reconnect, Wake, Stop,
           options
  <1>5. PaceInv'
    BY <1>t, OneMoreInterval, LoopAssumption
       DEF IndInv, TypeOK, PaceInv, InIteration, Connect, Cancelled, Reconnect, Wake,
           Stop, options
  <1>. QED  BY <1>1, <1>2, <1>3, <1>4, <1>5 DEF IndInv

LEMMA Invariance == Spec => []IndInv
  <1>1. IndInv /\ [Next]_vars => IndInv'
    BY EnvironmentStep, BeginStep, EndStep, OtherStep DEF Next, Loop
  <1>. QED  BY IndInit, <1>1, PTL DEF Spec

-----------------------------------------------------------------------------
(* The theorems. *)

\* The types of the loop's state.
THEOREM TypeCorrect == Spec => []TypeOK
  <1>1. IndInv => TypeOK
    BY DEF IndInv
  <1>. QED  BY Invariance, <1>1, PTL

\* What LoopReport says of the run is true, whichever limits are set and wherever
\* Ctrl-C falls.
THEOREM LoopReportIsTrue == Spec => []LoopReportTrue
  <1>1. IndInv => LoopReportTrue
    BY DEF IndInv
  <1>. QED  BY Invariance, <1>1, PTL

\* Iterations run on connections of their own, if so configured, whichever of the
\* reconnects before have failed.
THEOREM ConnectionsAreOfIteration == Spec => []ConnectionsOfIteration
  <1>1. IndInv => ConnectionsOfIteration
    BY DEF IndInv
  <1>. QED  BY Invariance, <1>1, PTL

\* No more iterations than intervals fit into the duration, for every interval,
\* duration and length of the iterations.
THEOREM IterationsAreWithinDuration == Spec => []IterationsWithinDuration
  <1>1. IndInv => IterationsWithinDuration
    <2>. SUFFICES ASSUME IndInv, maxDuration # Unbounded
                  PROVE  iterations <= (maxDuration + Interval - 1) \div Interval
      BY DEF IterationsWithinDuration
    <2>1. /\ iterations \in Nat /\ maxDuration \in Nat
          /\ iterations * Interval < maxDuration + Interval
      BY LoopAssumption DEF IndInv, TypeOK, PaceInv
    <2>. QED  BY <2>1, IntervalsWithin
  <1>. QED  BY Invariance, <1>1, PTL
=============================================================================
