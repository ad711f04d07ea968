----------------------------- MODULE MCPtsClock -----------------------------
(* Two nodes whose natural clocks started 0 or 2 ms before real time 0,   *)
(* explored for MaxTime ms of real time.                                   *)
EXTENDS PtsClock, TLC

CONSTANTS n1, n2

MCNode == {n1, n2}
MCNatStart == {0, 2}

MCSymmetry == Permutations(MCNode)
====
