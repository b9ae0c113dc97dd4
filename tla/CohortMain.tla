----------------------------- MODULE CohortMain -----------------------------
(***************************************************************************)
(* main of statement-latency-bench around the cohort: it connects, spawns   *)
(* the client tasks, joins them in the same order (collect_results),       *)
(* reports (report_results) and decides the exit status.                   *)
(***************************************************************************)
EXTENDS Cohort

VARIABLES
  joined,        \* how many join handles have been awaited
  allSuccesses,  \* the RoundStats collected, as <<client, round>>
  allFailures,   \* the failures collected, in order
  report,        \* what report_results logs, NoReport before
  exit           \* "starting", "connecting", "running", then the status returned

mainVars == <<joined, allSuccesses, allFailures, report, exit>>
allVars == <<vars, mainVars>>

NoReport == [failedClients |-> 0, roundsWithAnySuccess |-> 0]

ReportedKind == FailureKind \cup {"TaskPanicked"}

MainTypeOK ==
  /\ TypeOK
  /\ joined \in 0 .. N
  /\ allSuccesses \subseteq Client \X Round
  /\ allFailures \in Seq(ReportedKind)
  /\ DOMAIN report = DOMAIN NoReport
  /\ exit \in {"starting", "connecting", "running", "success", "failure"}

MainInit ==
  /\ Init
  /\ joined = 0
  /\ allSuccesses = {}
  /\ allFailures = <<>>
  /\ report = NoReport
  /\ exit = "starting"

\* main goes on or returns an error; no task exists yet.
GoOn(phase) ==
  /\ exit' \in {phase, "failure"}
  /\ UNCHANGED <<vars, joined, allSuccesses, allFailures, report>>

\* The pattern is parsed, and endpoints and seeds are looked at.
ParseMessagesPattern == exit = "starting" /\ GoOn("connecting")

\* Connections to all endpoints in turn; after the last one the tasks are spawned.
ConnectToEndpoints == exit = "connecting" /\ GoOn("running")

Spawned == exit \notin {"starting", "connecting"}

\* A client task runs, with main waiting for some handle.
ClientStep == Spawned /\ Next /\ UNCHANGED mainVars

\* Mutant of JoinErrors: they are ignored.
NoJoinErrors == <<>>

\* What a JoinError is reported as.
JoinErrors == <<"TaskPanicked">>

\* handle.await of the next handle: the result of a task that returned, or a
\* JoinError for one that panicked, whose results are lost.
Join ==
  /\ exit = "running"
  /\ joined < N
  /\ \/ /\ pc[joined] = "done"
        /\ allSuccesses' = allSuccesses \cup ({joined} \X successes[joined])
        /\ allFailures' = allFailures \o failures[joined]
     \/ /\ pc[joined] = "panicked"
        /\ allFailures' = allFailures \o JoinErrors
        /\ UNCHANGED allSuccesses
  /\ joined' = joined + 1
  /\ UNCHANGED <<vars, report, exit>>

\* report_results and the end of main.
ReportAndExit ==
  /\ joined = N
  /\ exit = "running"
  /\ report' = [failedClients |-> Len(allFailures),
                roundsWithAnySuccess |->
                  Cardinality({success[2] : success \in allSuccesses})]
  /\ exit' = IF allFailures # <<>> /\ allSuccesses = {}
             THEN "failure" ELSE "success"
  /\ UNCHANGED <<vars, joined, allSuccesses, allFailures>>

Main == ParseMessagesPattern \/ ConnectToEndpoints \/ Join \/ ReportAndExit

MainNext == Main \/ ClientStep

MainSpec ==
  /\ MainInit /\ [][MainNext]_allVars
  /\ \A c \in Client :
       WF_allVars(Spawned /\ RunClient(c) /\ UNCHANGED mainVars)
  /\ WF_allVars(Main)

-----------------------------------------------------------------------------
(* Properties. *)

\* A run that reports no failure is one in which every client succeeded in
\* every round: no way out of run_client loses a round silently.
CleanReportMeansAllRounds ==
  allFailures = <<>> => \A c \in Client : successes[c] = Round

\* Every failure that a client told its peers about, and every panic, reaches
\* the report, and so does every success of a client that did not panic.
NothingLost ==
  /\ report.failedClients >=
       Cardinality(stored \cup {c \in Client : pc[c] = "panicked"})
  /\ \A c \in Client, r \in Round :
       (<<c, r>> \in allSuccesses) <=> (pc[c] = "done" /\ r \in successes[c])

\* The process exits with success only if some round of some client completed,
\* provided that there was one to complete.
ExitMeansProgress ==
  exit = "success" /\ N > 0 /\ NumRounds > 0 => report.roundsWithAnySuccess > 0

\* What main reports, and the status it exits with, are true of the tasks that it
\* has spawned.
ReportTrue ==
  joined = N /\ exit \in {"success", "failure"} =>
    CleanReportMeansAllRounds /\ NothingLost /\ ExitMeansProgress

\* main exits, whatever fails, because every task it awaits ends.
MainExits == <>(exit \in {"success", "failure"})
=============================================================================
