---------------------------- MODULE MCApxPollLoop ----------------------------
(* ApxPollLoop for TLC: two client descriptors, so that one can be erased  *)
(* while the other is still ahead of or behind the index.                  *)
EXTENDS ApxPollLoop

MCClientFd == {1, 2}
====
