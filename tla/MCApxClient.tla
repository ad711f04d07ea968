---------------------------- MODULE MCApxClient ----------------------------
(* ApxClient instantiated for TLC: a game of M = 3 correct puts, and a     *)
(* strategy thread that produces at most 3 PUTs.                           *)
EXTENDS ApxClient

MCM == 3
MCMaxPuts == 3
BothStrategies == BOOLEAN
AutoOnly == {TRUE}
ManualOnly == {FALSE}
====
