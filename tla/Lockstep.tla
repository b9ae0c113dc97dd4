------------------------------ MODULE Lockstep ------------------------------
(***************************************************************************)
(* What a cohort of benchmark clients promises: they go through the rounds *)
(* in lockstep.  A client completes its next round only when nobody is     *)
(* behind it; one that falls out simply completes nothing any more, and    *)
(* thereby holds all the others within one round of where it stopped.      *)
(***************************************************************************)
EXTENDS Integers

CONSTANTS Participant, Rounds

VARIABLE completed  \* the rounds each has completed, without a gap

Init == completed = [p \in Participant |-> 0]

Complete(p) ==
  /\ completed[p] < Rounds
  /\ \A q \in Participant : completed[q] >= completed[p]
  /\ completed' = [completed EXCEPT ![p] = @ + 1]

Next == \E p \in Participant : Complete(p)

Spec == Init /\ [][Next]_completed

-----------------------------------------------------------------------------
\* Nobody is ever two rounds ahead of anybody.
WithinOneRound ==
  \A p, q \in Participant : completed[p] <= completed[q] + 1
=============================================================================
