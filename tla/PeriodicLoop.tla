---------------------------- MODULE PeriodicLoop ----------------------------
(***************************************************************************)
(* statement-ops-bench loop: run_loop of src/src/ops/periodic_loop.rs.     *)
(* Iterations of submit, propagation and subscribe are repeated, on fresh  *)
(* connections if so configured, until one of three limits is met.  Every  *)
(* await after the first is a biased select with the cancellation future,  *)
(* Ctrl-C in production.                                                   *)
(*                                                                         *)
(* External, from their use: the connector (connect_all), the three        *)
(* benchmarks of an iteration, and Ctrl-C, whose handler is installed by   *)
(* the first poll of the future; before, the signal kills the process.     *)
(***************************************************************************)
EXTENDS Integers

CONSTANTS
  Interval,        \* --interval-secs
  IterationLimit,  \* the values of --iterations to consider
  DurationLimit,   \* the values of --duration-secs to consider
  Unbounded,       \* stands for an absent option
  Horizon          \* bound: the clock is not followed any further

ASSUME LoopAssumption ==
  /\ Interval \in Nat \ {0}
  /\ IterationLimit \subseteq Nat \cup {Unbounded}
  /\ DurationLimit \subseteq Nat \cup {Unbounded}
  /\ Unbounded \notin Nat
  /\ Horizon \in Nat

VARIABLES
  maxIterations, \* option --iterations, or Unbounded
  maxDuration,   \* option --duration-secs, or Unbounded
  reconnects,    \* option --new-connection-per-iteration
  pc,          \* where run_loop is
  iterations,  \* iterations_completed
  now,         \* time since start
  iterStart,   \* when the current iteration began
  wakeAt,      \* when the current sleep ends
  endpoints,   \* NoConnection, or the iteration they were opened for
  lastReport,  \* the iteration of last_submit, last_propagation, last_subscribe
  reason,      \* stopped_reason
  handler,     \* whether the cancellation future has been polled
  cancel       \* whether that future is ready

options == <<maxIterations, maxDuration, reconnects>>
vars == <<options, pc, iterations, now, iterStart, wakeAt, endpoints,
          lastReport, reason, handler, cancel>>

NoConnection == 0

Location ==
  {"connect",    \* the initial connector call
   "top",        \* head of the loop
   "reconnect",  \* select of cancel and connector
   "work",       \* select of cancel and the body
   "sleep",      \* select of cancel and the pause
   "stopped",    \* run_loop has returned its report
   "failed",     \* run_loop has returned an error
   "killed"}     \* by a signal without a handler

Reason == {"None", "MaxIterations", "MaxDuration", "Cancelled"}

TypeOK ==
  /\ maxIterations \in IterationLimit /\ maxDuration \in DurationLimit
  /\ reconnects \in BOOLEAN
  /\ pc \in Location
  /\ iterations \in Nat
  /\ now \in 0 .. Horizon /\ iterStart \in 0 .. now
  /\ wakeAt \in 0 .. (iterStart + Interval)
  /\ endpoints \in {NoConnection} \cup 1 .. (iterations + 1)
  /\ lastReport \in 0 .. (iterations + 1)
  /\ reason \in Reason
  /\ handler \in BOOLEAN /\ cancel \in BOOLEAN

Init ==
  /\ maxIterations \in IterationLimit /\ maxDuration \in DurationLimit
  /\ reconnects \in BOOLEAN
  /\ pc = "connect"
  /\ iterations = 0
  /\ now = 0 /\ iterStart = 0 /\ wakeAt = 0
  /\ endpoints = NoConnection
  /\ lastReport = 0
  /\ reason = "None"
  /\ handler = FALSE /\ cancel = FALSE

-----------------------------------------------------------------------------
(* The environment. *)

Awaiting == pc \in {"connect", "reconnect", "work", "sleep"}

\* Time is followed while the loop awaits something, from its start on.
Tick ==
  /\ Awaiting /\ pc # "connect"
  /\ now < Horizon
  /\ now' = now + 1
  /\ UNCHANGED <<options, pc, iterations, iterStart, wakeAt, endpoints,
                 lastReport, reason, handler, cancel>>

CtrlC ==
  /\ pc \notin {"stopped", "failed", "killed"}
  /\ IF handler
     THEN cancel' = TRUE /\ UNCHANGED pc
     ELSE pc' = "killed" /\ UNCHANGED cancel
  /\ UNCHANGED <<options, iterations, now, iterStart, wakeAt, endpoints,
                 lastReport, reason, handler>>

-----------------------------------------------------------------------------
(* Stopping. *)

\* Mutant of OutOfIterations: one iteration too many.
PastIterations(n) == maxIterations # Unbounded /\ n > maxIterations

OutOfIterations(n) == maxIterations # Unbounded /\ n >= maxIterations

OutOfTime == maxDuration # Unbounded /\ now >= maxDuration

Stop(why) ==
  /\ pc' = "stopped"
  /\ reason' = why

\* Mutant of Cancelled: only the pause is raced against the cancellation.
CancelledAsleep ==
  /\ pc = "sleep" /\ handler /\ cancel
  /\ Stop("Cancelled")
  /\ UNCHANGED <<iterations, now, iterStart, wakeAt, endpoints, lastReport,
                 handler, cancel>>

\* `_ = &mut cancel` of the selects: biased, it wins over all that is ready.
Cancelled ==
  /\ Awaiting /\ handler /\ cancel
  /\ Stop("Cancelled")
  /\ UNCHANGED <<iterations, now, iterStart, wakeAt, endpoints, lastReport,
                 handler, cancel>>

-----------------------------------------------------------------------------
(* The loop. *)

\* The initial connector call: an error ends the run.
Connect ==
  /\ pc = "connect"
  /\ \/ pc' = "failed" /\ UNCHANGED endpoints
     \/ pc' = "top" /\ endpoints' = 1
  /\ UNCHANGED <<iterations, now, iterStart, wakeAt, lastReport, reason,
                 handler, cancel>>

\* The head of the loop, up to the first await of the iteration, which polls the
\* cancellation future: from the second iteration on the old endpoints are
\* dropped before new ones are opened.
Begin ==
  /\ pc = "top"
  /\ \/ /\ OutOfIterations(iterations) /\ Stop("MaxIterations")
        /\ UNCHANGED <<iterStart, endpoints, handler>>
     \/ /\ ~OutOfIterations(iterations) /\ OutOfTime /\ Stop("MaxDuration")
        /\ UNCHANGED <<iterStart, endpoints, handler>>
     \/ /\ ~OutOfIterations(iterations) /\ ~OutOfTime
        /\ iterStart' = now
        /\ handler' = TRUE
        /\ IF reconnects /\ iterations > 0
           THEN pc' = "reconnect" /\ endpoints' = NoConnection
           ELSE pc' = "work" /\ UNCHANGED endpoints
        /\ UNCHANGED reason
  /\ UNCHANGED <<iterations, now, wakeAt, lastReport, cancel>>

\* Mutant of NextStart: the pause is not shortened by the iteration.
WholePause == now + Interval

\* When the next iteration is due.
NextStart == iterStart + Interval

\* Mutant of MustPause: there is no pause.
NoPause == FALSE

\* Whether the iteration has left anything of the interval.
MustPause == now < NextStart

\* The end of an iteration that was not cancelled, good or bad: it is counted,
\* the limits are looked at again, and what is left of the interval is slept.
EndIteration ==
  /\ iterations' = iterations + 1
  /\ \/ /\ OutOfIterations(iterations + 1)
        /\ Stop("MaxIterations") /\ UNCHANGED wakeAt
     \/ /\ ~OutOfIterations(iterations + 1) /\ OutOfTime
        /\ Stop("MaxDuration") /\ UNCHANGED wakeAt
     \/ /\ ~OutOfIterations(iterations + 1) /\ ~OutOfTime
        /\ IF MustPause
           THEN pc' = "sleep" /\ wakeAt' = NextStart
           ELSE pc' = "top" /\ UNCHANGED wakeAt
        /\ UNCHANGED reason
  /\ UNCHANGED <<now, iterStart, handler, cancel>>

\* connect_all answers with a connection to each endpoint, or with an error.
Reconnect ==
  /\ pc = "reconnect" /\ ~cancel
  /\ pc' = "work"
  /\ endpoints' = iterations + 1
  /\ UNCHANGED <<iterations, now, iterStart, wakeAt, lastReport, reason,
                 handler, cancel>>

\* Mutant of ReconnectFails: the body runs on what the last iteration left.
ReconnectFailsAndWorks ==
  /\ pc = "reconnect" /\ ~cancel
  /\ pc' = "work"
  /\ UNCHANGED <<iterations, now, iterStart, wakeAt, endpoints, lastReport,
                 reason, handler, cancel>>

ReconnectFails ==
  /\ pc = "reconnect" /\ ~cancel
  /\ EndIteration
  /\ UNCHANGED <<endpoints, lastReport>>

\* submit, propagation and subscribe have run.  What fails in them is in their
\* reports: as a whole they fail only on a configuration that LoopConfig's
\* validate has excluded, or without endpoints.
WorkEnds ==
  /\ pc = "work" /\ ~cancel
  /\ EndIteration
  /\ lastReport' = iterations + 1
  /\ UNCHANGED endpoints

Wake ==
  /\ pc = "sleep" /\ ~cancel
  /\ now >= wakeAt
  /\ pc' = "top"
  /\ UNCHANGED <<iterations, now, iterStart, wakeAt, endpoints, lastReport,
                 reason, handler, cancel>>

-----------------------------------------------------------------------------
Loop ==
  /\ \/ Connect \/ Begin \/ Cancelled \/ Reconnect \/ ReconnectFails
     \/ WorkEnds \/ Wake
  /\ UNCHANGED options

Next == Loop \/ Tick \/ CtrlC

Spec == Init /\ [][Next]_vars

\* The task is polled: it looks at its limits and at the cancellation.  Neither
\* the connector nor the body need ever end.
FairSpec ==
  Spec /\ WF_vars(Loop /\ pc = "top") /\ WF_vars(Loop /\ cancel)

\* What is assumed for runs in which iterations and pauses end, too.
NothingHangs == WF_vars(Loop) /\ WF_vars(Tick)

-----------------------------------------------------------------------------
(* Properties. *)

Ended == pc \in {"stopped", "failed", "killed"}

\* What LoopReport returns is true: never an iteration more or less than asked
\* for, never a stop for time before the time, no cancellation invented; the last
\* reports are those of a counted iteration, never of one that was cancelled, and
\* without reconnecting those of the last one.
LoopReportTrue ==
  /\ maxIterations # Unbounded => iterations <= maxIterations
  /\ reason = "MaxIterations" => iterations = maxIterations
  /\ reason = "MaxDuration" => now >= maxDuration
  /\ reason = "Cancelled" => cancel
  /\ (reason # "None") <=> (pc = "stopped")
  /\ lastReport <= iterations
  /\ ~reconnects => lastReport = iterations

\* README of --new-connection-per-iteration: the body of an iteration runs on
\* connections opened for this very iteration, else on those of the start, even
\* after reconnects that failed; no old connections are open meanwhile.
ConnectionsOfIteration ==
  /\ pc = "work" => endpoints = IF reconnects THEN iterations + 1 ELSE 1
  /\ pc = "reconnect" => endpoints = NoConnection

\* However short the iterations are and whatever fails in them, no more of them
\* fit into --duration-secs than intervals do.
IterationsWithinDuration ==
  maxDuration # Unbounded =>
    iterations <= (maxDuration + Interval - 1) \div Interval

\* Ctrl-C ends the run at once or at the next await, even if the connector or a
\* benchmark hangs.
CancelStops == cancel ~> Ended

\* With a bound on the duration or the iterations, and nothing hanging, the run
\* ends; the time that iterations may take is bounded here by Horizon.
BoundedRunEnds ==
  NothingHangs =>
    /\ maxDuration # Unbounded => <>Ended
    /\ maxIterations # Unbounded => <>(Ended \/ now = Horizon)

\* The run ends when it has to: by Ctrl-C, or by its bounds.
LoopEnds == CancelStops /\ BoundedRunEnds
=============================================================================
