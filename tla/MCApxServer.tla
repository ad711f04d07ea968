---------------------------- MODULE MCApxServer ----------------------------
(* Model-checking instance of ApxServer: two descriptors, two client       *)
(* addresses and two ids, so that a new client can get the descriptor,     *)
(* address and id of one that left; two correct puts end a game.           *)
EXTENDS ApxServer, TLC

CONSTANTS a1, a2, i1, i2

MCFd   == {1, 2}
MCAddr == {a1, a2}
MCId   == {i1, i2}
MCConn == 1..3

(* The file holds lines for two games' worth of players before it runs     *)
(* out; M = 2 lets a game end with one or two players.                     *)
MCM     == 2
MCLines == 2

(* One rejected PUT per client: enough for PENALTY and BAD_PUT.            *)
MCMaxPenalty == 10

Symmetry == Permutations(MCAddr) \cup Permutations(MCId)
====
