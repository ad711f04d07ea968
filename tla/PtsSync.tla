------------------------------ MODULE PtsSync ------------------------------
(***************************************************************************)
(* The synchronisation-level protocol of peer-time-sync: every node runs   *)
(* the single-threaded loop of main.c, which calls check_and_handle_timers *)
(* and then hands one UDP datagram to handle_message (messages.c).         *)
(*                                                                         *)
(* Modelled: sync_level, the synchronized_peer, the in-flight handshake    *)
(* (synchronizing, synchronizing_level, peer_to_sync), the                 *)
(* asked_to_synchronize list, the LEADER directive, and an unreliable      *)
(* network that loses, duplicates and reorders datagrams.                  *)
(* Abstracted: clock values (T1..T4, offset_ms; see PtsClock) and the      *)
(* deadlines, whose expiry is a nondeterministic choice of the timer step; *)
(* the peer lists, fixed here to the result of discovery (see PtsPeers).   *)
(***************************************************************************)
EXTENDS Naturals, FiniteSets

CONSTANTS
    Node,           \* the nodes of the network (model values)
    Peers,          \* Peers[n]: peer_list of node n once discovery is over
    UNSYNC,         \* CLOCK_UNSYNCHRONIZED (255 in node_data.h)
    NoPeer,         \* an address that is no node
    Garbage,        \* values an uninitialized synchronized_peer may hold
    Directed        \* the nodes an administrator sends LEADER datagrams to

ASSUME /\ Peers \in [Node -> SUBSET Node]
       /\ \A n \in Node : n \notin Peers[n]
       /\ UNSYNC \in Nat /\ UNSYNC >= 3
       /\ NoPeer \notin Node
       /\ Garbage \subseteq Node \cup {NoPeer} /\ Garbage # {}
       /\ Directed \subseteq Node

CLOCK_LEADER == 0

VARIABLES
    sync_level,            \* node_data.h: sync_level
    synchronized_peer,     \* node_data.h: synchronized_peer
    synchronizing,         \* node_data.h: synchronizing
    synchronizing_level,   \* node_data.h: synchronizing_level
    peer_to_sync,          \* node_data.h: peer_to_sync
    asked_to_synchronize,  \* node_data.h: asked_to_synchronize (a peer list)
    msgs,                  \* datagrams in flight
    appointed              \* history, not in the code: the last LEADER
                           \* directive the node obeyed was LEADER 0

vars == <<sync_level, synchronized_peer, synchronizing, synchronizing_level,
          peer_to_sync, asked_to_synchronize, msgs, appointed>>

Level == 0..UNSYNC

(* Datagrams. The timestamps they carry are abstracted away. *)
SyncStart(src, dst, lvl)     == [type |-> "SYNC_START", src |-> src, dst |-> dst, lvl |-> lvl]
DelayRequest(src, dst)       == [type |-> "DELAY_REQUEST", src |-> src, dst |-> dst]
DelayResponse(src, dst, lvl) == [type |-> "DELAY_RESPONSE", src |-> src, dst |-> dst, lvl |-> lvl]

Message == {SyncStart(s, d, l) : s, d \in Node, l \in Level}
           \cup {DelayRequest(s, d) : s, d \in Node}
           \cup {DelayResponse(s, d, l) : s, d \in Node, l \in Level}

TypeOK ==
    /\ sync_level \in [Node -> Level]
    /\ synchronized_peer \in [Node -> Node \cup {NoPeer}]
    /\ synchronizing \in [Node -> BOOLEAN]
    /\ synchronizing_level \in [Node -> Level]
    /\ peer_to_sync \in [Node -> Node \cup {NoPeer}]
    /\ asked_to_synchronize \in [Node -> SUBSET Node]
    /\ msgs \subseteq Message
    /\ appointed \in [Node -> BOOLEAN]

(* Receiving datagram m and sending the set out. UDP may also deliver m    *)
(* again later, so the receiver either consumes m or leaves a duplicate.   *)
Receive(m, out) ==
    \/ msgs' = (msgs \ {m}) \cup out
    \/ msgs' = msgs \cup out

(***************************************************************************)
(* Initial state: initialize_node_data (main.c) leaves synchronized_peer   *)
(* uninitialized; it holds whatever address the stack garbage (Garbage)   *)
(* encodes.                                                                *)
(***************************************************************************)
Init ==
    /\ sync_level = [n \in Node |-> UNSYNC]
    /\ synchronized_peer \in [Node -> Garbage]
    /\ synchronizing = [n \in Node |-> FALSE]
    /\ synchronizing_level = [n \in Node |-> 0]
    /\ peer_to_sync = [n \in Node |-> NoPeer]
    /\ asked_to_synchronize = [n \in Node |-> {}]
    /\ msgs = {}
    /\ appointed = [n \in Node |-> FALSE]

(***************************************************************************)
(* check_and_handle_timers: first the synchronisation check (a follower    *)
(* whose next_sync_check passed drops to unsynchronized, offset 0), then,  *)
(* with the level that results, the SYNC_START round to every peer, which  *)
(* snapshots the peer list into asked_to_synchronize. Whether each         *)
(* deadline has passed is a free choice (checkDue, startDue).              *)
(***************************************************************************)
check_and_handle_timers(n) ==
    \E checkDue, startDue \in BOOLEAN :
        LET demote == checkDue /\ CLOCK_LEADER < sync_level[n] /\ sync_level[n] < UNSYNC
            lvl    == IF demote THEN UNSYNC ELSE sync_level[n]
            round  == startDue /\ lvl < UNSYNC - 1
        IN /\ demote \/ round
           /\ sync_level' = [sync_level EXCEPT ![n] = lvl]
           /\ msgs' = IF round THEN msgs \cup {SyncStart(n, p, lvl) : p \in Peers[n]}
                               ELSE msgs
           /\ asked_to_synchronize' =
                  IF round /\ Peers[n] # {}
                  THEN [asked_to_synchronize EXCEPT ![n] = Peers[n]]
                  ELSE asked_to_synchronize
           /\ UNCHANGED <<synchronized_peer, synchronizing, synchronizing_level,
                          peer_to_sync, appointed>>

(***************************************************************************)
(* handle_sync_start at node n for datagram m.                             *)
(***************************************************************************)
\* Mutant: the peer_list_contains test of the sender is missing.
check_sync_start_anySender(n, m) ==
    m.lvl < UNSYNC - 1

\* check_sync_start: the sender is known and advertises a level < 254.
check_sync_start(n, m) ==
    m.lvl < UNSYNC - 1 /\ m.src \in Peers[n]

synchronized_to_sender(n, m) ==
    sync_level[n] < UNSYNC /\ synchronized_peer[n] = m.src

\* The datagram is dropped: malformed sender, a handshake already running,
\* or (not synchronized to the sender) no strict improvement.
SyncStartDropped(n, m) ==
    \/ ~check_sync_start(n, m)
    \/ synchronizing[n]
    \/ ~synchronized_to_sender(n, m) /\ m.lvl + 1 >= sync_level[n]

\* Mutant: the upstream is only dropped when strictly worse than us.
SyncStartDemotes_strict(n, m) ==
    /\ check_sync_start(n, m)
    /\ ~synchronizing[n]
    /\ synchronized_to_sender(n, m)
    /\ m.lvl > sync_level[n]

\* Our own upstream now advertises a level not better than ours: demote.
SyncStartDemotes(n, m) ==
    /\ check_sync_start(n, m)
    /\ ~synchronizing[n]
    /\ synchronized_to_sender(n, m)
    /\ m.lvl >= sync_level[n]

handle_sync_start(n, m) ==
    /\ m \in msgs /\ m.type = "SYNC_START" /\ m.dst = n
    /\ \/ /\ SyncStartDropped(n, m)
          /\ Receive(m, {})
          /\ UNCHANGED <<sync_level, synchronizing, synchronizing_level, peer_to_sync>>
       \/ /\ SyncStartDemotes(n, m)
          /\ Receive(m, {})
          /\ sync_level' = [sync_level EXCEPT ![n] = UNSYNC]
          /\ UNCHANGED <<synchronizing, synchronizing_level, peer_to_sync>>
       \/ /\ ~SyncStartDropped(n, m) /\ ~SyncStartDemotes(n, m)
          /\ synchronizing' = [synchronizing EXCEPT ![n] = TRUE]
          /\ synchronizing_level' = [synchronizing_level EXCEPT ![n] = m.lvl]
          /\ peer_to_sync' = [peer_to_sync EXCEPT ![n] = m.src]
          /\ Receive(m, {DelayRequest(n, m.src)})
          /\ UNCHANGED sync_level
    /\ UNCHANGED <<synchronized_peer, asked_to_synchronize, appointed>>

(***************************************************************************)
(* handle_delay_request at node n: answer a peer asked in the last round   *)
(* if the request arrives within DELAY_RESPONSE_TIME of last_sync_start.   *)
(* Whether it does is a free choice (inTime); the reply carries the        *)
(* current sync_level, whatever it is now.                                 *)
(***************************************************************************)
handle_delay_request(n, m) ==
    /\ m \in msgs /\ m.type = "DELAY_REQUEST" /\ m.dst = n
    /\ \E inTime \in BOOLEAN :
          IF m.src \in asked_to_synchronize[n] /\ inTime
          THEN Receive(m, {DelayResponse(n, m.src, sync_level[n])})
          ELSE Receive(m, {})
    /\ UNCHANGED <<sync_level, synchronized_peer, synchronizing, synchronizing_level,
                   peer_to_sync, asked_to_synchronize, appointed>>

(***************************************************************************)
(* handle_delay_response at node n: completes the handshake when it comes  *)
(* from peer_to_sync with the level of the SYNC_START and T4 >= T1. With   *)
(* timestamps abstracted, whether T4 >= T1 holds is a free choice.         *)
(***************************************************************************)
\* Mutant: the sender_sync_level == synchronizing_level test is missing.
DelayResponseMatches_anyLevel(n, m) ==
    /\ synchronizing[n]
    /\ m.src = peer_to_sync[n]

DelayResponseMatches(n, m) ==
    /\ synchronizing[n]
    /\ m.src = peer_to_sync[n]
    /\ m.lvl = synchronizing_level[n]

handle_delay_response(n, m) ==
    /\ m \in msgs /\ m.type = "DELAY_RESPONSE" /\ m.dst = n
    /\ \E t4AfterT1 \in BOOLEAN :
          \/ /\ ~(DelayResponseMatches(n, m) /\ t4AfterT1)
             /\ Receive(m, {})
             /\ UNCHANGED <<sync_level, synchronized_peer, synchronizing>>
          \/ /\ DelayResponseMatches(n, m) /\ t4AfterT1
             /\ sync_level' = [sync_level EXCEPT ![n] = m.lvl + 1]
             /\ synchronized_peer' = [synchronized_peer EXCEPT ![n] = m.src]
             /\ synchronizing' = [synchronizing EXCEPT ![n] = FALSE]
             /\ Receive(m, {})
    /\ UNCHANGED <<synchronizing_level, peer_to_sync, asked_to_synchronize, appointed>>

(***************************************************************************)
(* handle_leader: LEADER 0 makes the node the leader; LEADER 255 steps a   *)
(* leader down; sent to anyone else it is dropped, as are other payloads,  *)
(* and changes nothing. The directive comes from an administrator.         *)
(***************************************************************************)
handle_leader(n, v) ==
    /\ \/ /\ v = CLOCK_LEADER
          /\ sync_level' = [sync_level EXCEPT ![n] = CLOCK_LEADER]
          /\ appointed' = [appointed EXCEPT ![n] = TRUE]
       \/ /\ v = UNSYNC /\ sync_level[n] = CLOCK_LEADER
          /\ sync_level' = [sync_level EXCEPT ![n] = UNSYNC]
          /\ appointed' = [appointed EXCEPT ![n] = FALSE]
    /\ UNCHANGED <<synchronized_peer, synchronizing, synchronizing_level,
                   peer_to_sync, asked_to_synchronize, msgs>>

(* The network loses a datagram. *)
Lose(m) ==
    /\ m \in msgs
    /\ msgs' = msgs \ {m}
    /\ UNCHANGED <<sync_level, synchronized_peer, synchronizing, synchronizing_level,
                   peer_to_sync, asked_to_synchronize, appointed>>

(* One iteration of a node's loop: the timers, or one received datagram. *)
Next ==
    \/ \E n \in Node : check_and_handle_timers(n)
    \/ \E n \in Node, m \in msgs :
          \/ handle_sync_start(n, m)
          \/ handle_delay_request(n, m)
          \/ handle_delay_response(n, m)
    \/ \E n \in Directed, v \in {CLOCK_LEADER, UNSYNC} : handle_leader(n, v)
    \/ \E m \in msgs : Lose(m)

(***************************************************************************)
(* Fairness: every node's loop keeps running (main.c loops forever with a  *)
(* 1 s receive timeout), and a datagram that stays deliverable is          *)
(* eventually handled. Loss and the administrator are not fair.            *)
(***************************************************************************)
Fairness ==
    /\ \A n \in Node : WF_vars(check_and_handle_timers(n))
    /\ \A n \in Node : WF_vars(\E m \in msgs : \/ handle_sync_start(n, m)
                                                \/ handle_delay_request(n, m)
                                                \/ handle_delay_response(n, m))

Spec == Init /\ [][Next]_vars /\ Fairness

-----------------------------------------------------------------------------
(***************************************************************************)
(* Properties.                                                             *)
(***************************************************************************)

(* A follower (0 < sync_level < 255) follows a peer in its own peer list:  *)
(* check_sync_start admits only known senders, and handle_delay_response   *)
(* only the peer_to_sync of the handshake in progress, even with           *)
(* duplicated and reordered datagrams of earlier handshakes in flight.     *)
FollowerFollowsKnownPeer ==
    \A n \in Node :
        CLOCK_LEADER < sync_level[n] /\ sync_level[n] < UNSYNC
            => synchronized_peer[n] \in Peers[n]

(* Apart from the leader, a node's level changes only by getting strictly  *)
(* better (a completed handshake) or by dropping to unsynchronized (or to  *)
(* leader on LEADER 0): handle_sync_start only starts a handshake that     *)
(* improves on the current level or refreshes the current upstream, and    *)
(* handle_delay_response installs the level of that handshake.             *)
LevelOnlyImproves ==
    [][\A n \in Node :
          (sync_level'[n] # sync_level[n] /\ sync_level[n] # CLOCK_LEADER)
              => \/ sync_level'[n] < sync_level[n]
                 \/ sync_level'[n] \in {CLOCK_LEADER, UNSYNC}]_vars

(* Spec 3.1, "only LEADER 255 ends leadership": a leader stops being one  *)
(* only on the administrator's LEADER 255. Three code paths can end it     *)
(* otherwise: handle_sync_start's synchronized_to_sender test, which       *)
(* compares the sender with a synchronized_peer left over from an earlier  *)
(* upstream or never written; and a DELAY_RESPONSE of a handshake that was *)
(* under way when LEADER 0 arrived, which handle_delay_response still      *)
(* completes, installing the sender's level + 1.                           *)
LeaderChangesOnlyByDirective ==
    [][\A n \in Node :
          (sync_level[n] = CLOCK_LEADER /\ sync_level'[n] # CLOCK_LEADER) => ~appointed'[n]]_vars

(* Spec 4.3 step 5 / 2: a handshake ends, by the DELAY_RESPONSE or by the  *)
(* waiting_for_delay_response deadline, so a node that starts one is       *)
(* eventually free to synchronise again.                                   *)
HandshakeEnds ==
    \A n \in Node : synchronizing[n] ~> ~synchronizing[n]
=============================================================================
