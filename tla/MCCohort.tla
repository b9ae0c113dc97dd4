------------------------------ MODULE MCCohort ------------------------------
(* Instances of Cohort for TLC, and a claim of the code about itself that a *)
(* run refutes.                                                             *)
EXTENDS Cohort

\* "Stop immediately on first round failure instead of continuing" (--help of
\* --fail-fast): without the flag, a client that saw no synchronisation timeout
\* and has no failing peer returns after its last round only.
SyncTimeouts == {"StartupSyncTimeout", "InterRoundSyncTimeout"}

ContinuesUnlessFailFast ==
  ~FailFast =>
    \A c \in Client :
      pc[c] = "done" /\ stored \subseteq {c}
        /\ (\A i \in DOMAIN failures[c] : failures[c][i] \notin SyncTimeouts)
      => round[c] = NumRounds
=============================================================================
