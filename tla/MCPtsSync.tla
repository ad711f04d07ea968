----------------------------- MODULE MCPtsSync -----------------------------
(* Model-checking instance of PtsSync: three nodes, levels scaled down.    *)
EXTENDS PtsSync, TLC

CONSTANTS n1, n2, n3

MCNode == {n1, n2, n3}

(* After discovery n3 knows only n1 (its HELLO_REPLY from n1 listed no     *)
(* one else yet), while n1 and n2 know everybody.                          *)
MCPeersAsym == (n1 :> {n2, n3}) @@ (n2 :> {n1, n3}) @@ (n3 :> {n1})

(* CLOCK_UNSYNCHRONIZED scaled from 255: the code only compares levels     *)
(* with 0, UNSYNC - 1 and UNSYNC and adds 1, so the protocol is the same;  *)
(* reaching the reserved level takes UNSYNC - 1 steps instead of 254.      *)
MCUnsync == 4

(* The uninitialized synchronized_peer is taken to encode no node.        *)
NoGarbage == {NoPeer}
(* Or any address: stack garbage may equal a peer's address.              *)
AnyGarbage == MCNode \cup {NoPeer}

(* The administrator sends LEADER to n1 and n2: leadership can move from  *)
(* one node to another, while n3 only ever follows.                        *)
TwoDirected == {n1, n2}

(* At most this many datagrams in flight at once.                          *)
MaxInFlight == 2
InFlightBound == Cardinality(msgs) <= MaxInFlight

(* synchronizing_level and peer_to_sync are only read while synchronizing; *)
(* once a handshake ends their stale values are overwritten before the     *)
(* next read, so states that differ only there behave alike.               *)
LiveHandshake(n) ==
    IF synchronizing[n] THEN <<synchronizing_level[n], peer_to_sync[n]>> ELSE <<>>
(* The history variable appointed is read by no action, so the runs whose *)
(* properties do not mention it leave it out as well.                      *)
View == <<sync_level, synchronized_peer, synchronizing,
          [n \in Node |-> LiveHandshake(n)], asked_to_synchronize, msgs>>
ViewWithHistory == <<View, appointed>>

=============================================================================
