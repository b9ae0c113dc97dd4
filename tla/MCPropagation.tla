---------------------------- MODULE MCPropagation ----------------------------
(* Instances of Propagation for TLC.                                        *)
EXTENDS Propagation

CONSTANTS n1, n2

MCNodes == {n1, n2}
OnBoth == <<n1, n2>>
OnFirst == <<n1>>
=============================================================================
