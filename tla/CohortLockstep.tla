--------------------------- MODULE CohortLockstep ---------------------------
(***************************************************************************)
(* Cohort implements Lockstep: rounds completed without a gap advance in   *)
(* lockstep, for every number of clients and rounds.                       *)
(***************************************************************************)
EXTENDS Cohort

\* The rounds a client has completed from the first on without a failure, read
\* off its ticket: the ticket is the number of its current round until the
\* client arrives at the barrier, and one more from then on.
Streak(c) ==
  IF ticket[c] = 0 \/ ticket[c] \in successes[c]
  THEN ticket[c] ELSE ticket[c] - 1

Abstract ==
  INSTANCE Lockstep WITH Participant <- Client, Rounds <- NumRounds,
                         completed <- [c \in Client |-> Streak(c)]

\* Every behaviour of the cohort is one of the abstract lockstep.
InLockstep == Abstract!Spec

\* Streak is the length of the gapless run of successes.
StreakIsGapless ==
  \A c \in Client : /\ 1 .. Streak(c) \subseteq successes[c]
                    /\ (Streak(c) + 1) \notin successes[c]
=============================================================================
