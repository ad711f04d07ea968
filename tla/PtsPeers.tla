------------------------------ MODULE PtsPeers ------------------------------
(***************************************************************************)
(* Peer discovery of peer-time-sync: HELLO, HELLO_REPLY, CONNECT and       *)
(* ACK_CONNECT (messages.c) over the capped peer lists of peers.cpp.       *)
(*                                                                         *)
(* A node has one address, its name. A datagram is a record of its type,   *)
(* sender and receiver, and for HELLO_REPLY the set of peers it lists.     *)
(* The network is a set of datagrams: receiving one consumes it or leaves  *)
(* a copy (duplication), Lose drops one, and a set has no order. Datagrams *)
(* of a wrong size or a wrong record layout are dropped by the handlers    *)
(* before any state changes, and are not sent by nodes; they are left out. *)
(***************************************************************************)
EXTENDS Naturals, FiniteSets

CONSTANTS
    Node,             \* node addresses
    NoPeer,           \* no -a option: the node sends no HELLO
    KnownPeer,        \* Node -> Node \cup {NoPeer}: the -a/-r address
    MAX_CAPACITY,     \* peers.cpp MAX_CAPACITY (65535), scaled
    MAX_REPLY_COUNT   \* peers a HELLO_REPLY fits in 65536 bytes (9361), scaled

ASSUME /\ NoPeer \notin Node
       /\ KnownPeer \in [Node -> Node \cup {NoPeer}]
       /\ MAX_REPLY_COUNT \in Nat /\ MAX_CAPACITY \in Nat \ {0}
       \* As 9361 < 65535: the one HELLO_REPLY a node accepts never fills
       \* waiting_for_ack_connect.
       /\ MAX_REPLY_COUNT <= MAX_CAPACITY

VARIABLES
    peer_list,                \* NodeData::peer_list
    waiting_for_hello_reply,  \* NodeData::waiting_for_hello_reply
    waiting_for_ack_connect,  \* NodeData::waiting_for_ack_connect
    msgs,                     \* datagrams in flight
    lost                      \* history, not in the code: answers lost, (src, dst)

vars == <<peer_list, waiting_for_hello_reply, waiting_for_ack_connect, msgs, lost>>

Hello(s, d)        == [type |-> "HELLO", src |-> s, dst |-> d]
HelloReply(s, d, P) == [type |-> "HELLO_REPLY", src |-> s, dst |-> d, peers |-> P]
Connect(s, d)      == [type |-> "CONNECT", src |-> s, dst |-> d]
AckConnect(s, d)   == [type |-> "ACK_CONNECT", src |-> s, dst |-> d]

Message ==
    [type: {"HELLO", "CONNECT", "ACK_CONNECT"}, src: Node, dst: Node]
    \cup [type: {"HELLO_REPLY"}, src: Node, dst: Node, peers: SUBSET Node]

TypeOK ==
    /\ peer_list \in [Node -> SUBSET Node]
    /\ waiting_for_hello_reply \in [Node -> BOOLEAN]
    /\ waiting_for_ack_connect \in [Node -> SUBSET Node]
    /\ msgs \subseteq Message
    /\ lost \subseteq Node \X Node

(* recvfrom takes the datagram; the network may still hold a duplicate.   *)
Receive(m, out) ==
    /\ \/ msgs' = (msgs \ {m}) \cup out
       \/ msgs' = msgs \cup out
    /\ UNCHANGED lost

(***************************************************************************)
(* The peer list of peers.cpp: a set of addresses, at most MAX_CAPACITY.   *)
(***************************************************************************)
peer_list_full(l) == Cardinality(l) >= MAX_CAPACITY

(* peer_list_add: a new peer is inserted only below capacity. *)
peer_list_add(l, p) ==
    IF p \in l THEN l ELSE IF Cardinality(l) < MAX_CAPACITY THEN l \cup {p} ELSE l

(* peer_list_add returns >= 0: the peer is, or now is, in the list. *)
peer_list_add_ok(l, p) == p \in l \/ Cardinality(l) < MAX_CAPACITY

(* peer_list_count_excl and peer_list_write_to_buf_excl: the list without  *)
(* the node's own addresses and the receiver.                             *)
peer_list_excl(l, self, dest) == l \ {self, dest}

(***************************************************************************)
(* initialize_node_data and main: a node started with -a sends one HELLO   *)
(* to that address and waits for its HELLO_REPLY.                          *)
(***************************************************************************)
\* Mutant: HELLO is sent whether or not -a was given.
first_hellos_unchecked == {Hello(n, KnownPeer[n]) : n \in Node}

first_hellos == {Hello(n, KnownPeer[n]) : n \in {k \in Node : KnownPeer[k] # NoPeer}}

Init ==
    /\ peer_list = [n \in Node |-> {}]
    /\ waiting_for_ack_connect = [n \in Node |-> {}]
    /\ waiting_for_hello_reply = [n \in Node |-> KnownPeer[n] # NoPeer]
    /\ msgs = first_hellos
    /\ lost = {}
-----------------------------------------------------------------------------
(* create_hello_reply_message: a reply that would not fit in the 65536-    *)
(* byte buffer is not created.                                             *)
hello_reply_fits(P) == Cardinality(P) <= MAX_REPLY_COUNT

(***************************************************************************)
(* handle_hello at n: a HELLO from one of n's own addresses is ignored.    *)
(* Otherwise the reply lists n's peers but n and the sender; if it fits    *)
(* and the sender can be added, the sender is added and the reply sent.    *)
(***************************************************************************)
handle_hello(n, m) ==
    LET P == peer_list_excl(peer_list[n], n, m.src) IN
    /\ IF m.src # n /\ hello_reply_fits(P) /\ peer_list_add_ok(peer_list[n], m.src)
       THEN /\ peer_list' = [peer_list EXCEPT ![n] = peer_list_add(@, m.src)]
            /\ Receive(m, {HelloReply(n, m.src, P)})
       ELSE /\ Receive(m, {})
            /\ UNCHANGED peer_list
    /\ UNCHANGED <<waiting_for_hello_reply, waiting_for_ack_connect>>

(* check_hello_reply: n awaits a reply, from its -a peer, which is not one *)
(* of n's own addresses, and no listed peer is the sender or n.            *)
check_hello_reply(n, m) ==
    /\ waiting_for_hello_reply[n]
    /\ m.src = KnownPeer[n]
    /\ m.src # n
    /\ \A p \in m.peers : p # m.src /\ p # n

\* Mutant: the sender of the reply is not added to the peer list.
handle_hello_reply_noSender(n, m) ==
    IF check_hello_reply(n, m)
    THEN /\ waiting_for_hello_reply' = [waiting_for_hello_reply EXCEPT ![n] = FALSE]
         /\ waiting_for_ack_connect' = [waiting_for_ack_connect EXCEPT ![n] = @ \cup m.peers]
         /\ Receive(m, {Connect(n, p) : p \in m.peers})
         /\ UNCHANGED peer_list
    ELSE /\ Receive(m, {})
         /\ UNCHANGED <<peer_list, waiting_for_hello_reply, waiting_for_ack_connect>>

(***************************************************************************)
(* handle_hello_reply at n: a correct reply ends the wait; every listed    *)
(* peer is put in waiting_for_ack_connect and sent CONNECT, and the sender *)
(* is added to the peer list (or not, if the list is full). The results of *)
(* peer_list_add are ignored; waiting_for_ack_connect never fills, since a *)
(* node accepts one reply of at most MAX_REPLY_COUNT peers.                *)
(***************************************************************************)
handle_hello_reply(n, m) ==
    IF check_hello_reply(n, m)
    THEN /\ waiting_for_hello_reply' = [waiting_for_hello_reply EXCEPT ![n] = FALSE]
         /\ waiting_for_ack_connect' = [waiting_for_ack_connect EXCEPT ![n] = @ \cup m.peers]
         /\ Receive(m, {Connect(n, p) : p \in m.peers})
         /\ peer_list' = [peer_list EXCEPT ![n] = peer_list_add(@, m.src)]
    ELSE /\ Receive(m, {})
         /\ UNCHANGED <<peer_list, waiting_for_hello_reply, waiting_for_ack_connect>>

(* A full list takes no new peer; a peer already in it is accepted again.  *)
Admits(l, p) == ~(peer_list_full(l) /\ p \notin l)

(* handle_connect at n: unless the list is full or the sender is n itself, *)
(* answer ACK_CONNECT and add the sender.                                  *)
handle_connect(n, m) ==
    /\ IF Admits(peer_list[n], m.src) /\ m.src # n
       THEN /\ Receive(m, {AckConnect(n, m.src)})
            /\ peer_list' = [peer_list EXCEPT ![n] = peer_list_add(@, m.src)]
       ELSE /\ Receive(m, {})
            /\ UNCHANGED peer_list
    /\ UNCHANGED <<waiting_for_hello_reply, waiting_for_ack_connect>>

(* handle_ack_connect at n: from a peer n sent CONNECT to, unless the list *)
(* is full or the sender is n itself: it stops waiting and adds the peer.  *)
handle_ack_connect(n, m) ==
    /\ Receive(m, {})
    /\ IF m.src \in waiting_for_ack_connect[n] /\ Admits(peer_list[n], m.src) /\ m.src # n
       THEN /\ waiting_for_ack_connect' = [waiting_for_ack_connect EXCEPT ![n] = @ \ {m.src}]
            /\ peer_list' = [peer_list EXCEPT ![n] = peer_list_add(@, m.src)]
       ELSE UNCHANGED <<peer_list, waiting_for_ack_connect>>
    /\ UNCHANGED waiting_for_hello_reply

(* handle_message dispatches on the type byte. *)
handle_message(m) ==
    CASE m.type = "HELLO"       -> handle_hello(m.dst, m)
      [] m.type = "HELLO_REPLY" -> handle_hello_reply(m.dst, m)
      [] m.type = "CONNECT"     -> handle_connect(m.dst, m)
      [] m.type = "ACK_CONNECT" -> handle_ack_connect(m.dst, m)

(* The main loop's recvfrom returns a datagram. *)
Deliver == \E m \in msgs : handle_message(m)

(* An answer: the datagram that makes its receiver add its sender. *)
IsAnswer(m) == m.type \in {"HELLO_REPLY", "ACK_CONNECT"}

(* UDP drops a datagram; a lost answer is remembered. *)
Lose ==
    /\ \E m \in msgs :
         /\ msgs' = msgs \ {m}
         /\ lost' = IF IsAnswer(m) THEN lost \cup {<<m.src, m.dst>>} ELSE lost
    /\ UNCHANGED <<peer_list, waiting_for_hello_reply, waiting_for_ack_connect>>

Next == Deliver \/ Lose

Spec == Init /\ [][Next]_vars
-----------------------------------------------------------------------------
(***************************************************************************)
(* Properties.                                                             *)
(***************************************************************************)

(* Peering is mutual: when a has b as a peer and b lacks a, the answer     *)
(* that makes b add a (a HELLO_REPLY or ACK_CONNECT from a) is still in    *)
(* flight or was lost, or b's list is full. Each handler adds its sender   *)
(* only when the sender has added it or is being answered; duplicates and  *)
(* the order of delivery change nothing.                                  *)
PeeringSymmetricOrPending ==
    \A a, b \in Node :
        (b \in peer_list[a] /\ a \notin peer_list[b]) =>
            \/ peer_list_full(peer_list[b])
            \/ \E m \in msgs : IsAnswer(m) /\ m.src = a /\ m.dst = b
            \/ <<a, b>> \in lost
====
