----------------------------- MODULE MCPtsPeers -----------------------------
(* PtsPeers for TLC: four nodes; n1 is started without -a, n2 and n4     *)
(* point at n1, n3 at n2.                                                  *)
EXTENDS PtsPeers, TLC

CONSTANTS n1, n2, n3, n4

MCNode == {n1, n2, n3, n4}

(* n2 and n4 ask n1, n3 asks n2: an asker learns earlier ones from the     *)
(* reply and sends them CONNECT, which a full list refuses; a reply that   *)
(* would list two peers is too large (MAX_REPLY_COUNT = 1).                *)
StarPeers == (n1 :> NoPeer) @@ (n2 :> n1) @@ (n3 :> n2) @@ (n4 :> n1)

(* At most this many datagrams in flight at once. *)
MaxInFlight == 4
InFlightBound == Cardinality(msgs) <= MaxInFlight
====
