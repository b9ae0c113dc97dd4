----------------------------- MODULE MCOpsBench -----------------------------
(* Instances of OpsBench for TLC, and what its docs say that a run refutes. *)
EXTENDS OpsBench

\* Two statements of the same second, an earlier one, one that is not decodable.
MCStatements ==
  {[topic |-> <<s[1]>>, expiry |-> s[2], decodable |-> s[3]] :
     s \in {<<255, 10, TRUE>>, <<0, 9, TRUE>>, <<255, 7, TRUE>>, <<255, 0, FALSE>>}}

\* All texts of at most five characters.
MCTexts == UNION {[1 .. n -> {"0", "x", "X", "f", "F", "g", " "}] : n \in 0 .. 5}
FewTexts == {<<"f", "f">>}

\* README of query: "Per-endpoint failures are logged and skipped; the command
\* exits non-zero only if every endpoint fails."  So it does not fail on
\* one endpoint after it has reached another.
FailsOnlyIfAllFail ==
  command = "query" /\ exit = "failure" =>
    connected = 0 \/ connected = Endpoints
=============================================================================
