------------------------------ MODULE PtsClock ------------------------------
(***************************************************************************)
(* The clocks of two peer-time-sync nodes and the timestamps they          *)
(* exchange: clock.c (natural clock, get_clock, update_offset) and the     *)
(* parts of messages.c that stamp, carry and use them (the timer step's    *)
(* SYNC_START, handle_sync_start, handle_delay_request,                    *)
(* handle_delay_response, handle_leader, handle_get_time).                 *)
(*                                                                         *)
(* Time is in milliseconds. Tick advances real time and both natural       *)
(* clocks by 1 (the monotonic clocks do not drift); each node's natural    *)
(* clock started at its own moment. How long a datagram stays in msgs is   *)
(* its delay (loss and duplication are PtsSync's). Whether a seconds       *)
(* deadline (next_sync_start, next_sync_check) has passed is a free        *)
(* choice, as in PtsSync. The two nodes are each other's only peer.        *)
(*                                                                         *)
(* History variables, read by the properties only: rt1, rt2 and rt4, the   *)
(* real times at which T1 was stamped, the SYNC_START was received and T4  *)
(* was stamped, and j1, j4, the upstream's get_clock - natural at T1 and   *)
(* T4; datagrams carry them as "at" and "j". handle_get_time changes no    *)
(* state: the value TIME carries is ClockOf(n).                            *)
(***************************************************************************)
EXTENDS Integers

CONSTANTS
    Node,        \* the two nodes
    NoPeer,      \* synchronized_peer before it is first written
    NatStart,    \* natural clock readings a node may have when real time is 0
    MaxTime,     \* real time, in ms, explored
    MaxRounds,   \* SYNC_START rounds the two nodes start
    MaxDirectives \* LEADER messages the operator sends

ASSUME NatStart \subseteq Nat /\ MaxTime \in Nat /\ MaxRounds \in Nat /\ MaxDirectives \in Nat

CLOCK_LEADER == 0
CLOCK_UNSYNCHRONIZED == 255
DELAY_RESPONSE_TIME == 5

VARIABLES
    now,                  \* real time (history)
    nat,                  \* get_natural_clock() of each node
    sync_level, offset_ms, synchronized_peer,
    synchronizing, synchronizing_level, T1, T2, T3, T4,
    last_sync_start, asked_to_synchronize,   \* the peer is in the list
    msgs,                 \* datagrams between the nodes
    rounds,               \* rounds started so far (bounded by MaxRounds)
    directives,           \* LEADER messages so far (bounded by MaxDirectives)
    rt1, rt2, rt4,        \* history: real times of the current handshake
    j1, j4                \* history: get_clock - natural of the upstream at T1, T4

vars == <<now, nat, sync_level, offset_ms, synchronized_peer, synchronizing,
          synchronizing_level, T1, T2, T3, T4, last_sync_start,
          asked_to_synchronize, msgs, rounds, directives, rt1, rt2, rt4, j1, j4>>

Other(n) == CHOOSE q \in Node : q # n

Level == (0 .. CLOCK_UNSYNCHRONIZED - 2) \cup {CLOCK_UNSYNCHRONIZED}

(***************************************************************************)
(* clock.c                                                                 *)
(***************************************************************************)
(* get_clock: the natural clock when unsynchronized, else natural - offset *)
(* clamped at 0.                                                           *)
get_clock(lvl, off, natural) ==
    IF lvl = CLOCK_UNSYNCHRONIZED THEN natural
    ELSE IF natural >= off THEN natural - off ELSE 0

ClockOf(n) == get_clock(sync_level[n], offset_ms[n], nat[n])

TypeOK ==
    /\ now \in 0..MaxTime /\ nat \in [Node -> Nat]
    /\ sync_level \in [Node -> Level] /\ offset_ms \in [Node -> Int]
    /\ synchronized_peer \in [Node -> Node \cup {NoPeer}]
    /\ synchronizing \in [Node -> BOOLEAN]
    /\ \A n \in Node : {T1[n], T2[n], T3[n], T4[n], last_sync_start[n]} \subseteq Nat
    /\ \A m \in msgs : m.type \in {"SYNC_START", "DELAY_RESPONSE"} => m.ts \in Nat
    /\ \A m \in msgs : m.type = "SYNC_START" => m.lvl \in 0 .. CLOCK_UNSYNCHRONIZED - 2
    /\ rounds \in [Node -> 0..MaxRounds] /\ directives \in 0..MaxDirectives
    /\ \A n \in Node : ClockOf(n) \in Nat    \* what TIME and SYNC_START carry

(* C's integer division truncates towards zero; \div floors. *)
CDiv(a, b) == IF a >= 0 THEN a \div b ELSE -((-a) \div b)

\* Mutant: the two differences subtracted the wrong way round.
update_offset_swapped(t1, t2, t3, t4) == CDiv(t1 - t2 + t4 - t3, 2)

update_offset(t1, t2, t3, t4) == CDiv(t2 - t1 + t3 - t4, 2)

(* Real time passes: every natural clock advances by 1 ms. *)
Tick ==
    /\ now < MaxTime
    /\ now' = now + 1
    /\ nat' = [n \in Node |-> nat[n] + 1]
    /\ UNCHANGED <<sync_level, offset_ms, synchronized_peer, synchronizing,
                   synchronizing_level, T1, T2, T3, T4, last_sync_start,
                   asked_to_synchronize, msgs, rounds, directives, rt1, rt2, rt4, j1, j4>>

(* main.c's initialize_node_data and clock_init. *)
Init ==
    /\ now = 0 /\ nat \in [Node -> NatStart]
    /\ sync_level = [n \in Node |-> CLOCK_UNSYNCHRONIZED]
    /\ offset_ms = [n \in Node |-> 0]
    /\ synchronized_peer = [n \in Node |-> NoPeer]
    /\ synchronizing = [n \in Node |-> FALSE]
    /\ synchronizing_level = [n \in Node |-> 0]
    /\ T1 = [n \in Node |-> 0] /\ T2 = T1 /\ T3 = T1 /\ T4 = T1
    /\ last_sync_start = [n \in Node |-> 0]
    /\ asked_to_synchronize = [n \in Node |-> FALSE]
    /\ msgs = {} /\ rounds = [n \in Node |-> 0] /\ directives = 0
    /\ rt1 = [n \in Node |-> 0] /\ rt2 = rt1 /\ rt4 = rt1
    /\ j1 = [n \in Node |-> 0] /\ j4 = j1

(* A datagram is consumed; the handler may send one. *)
Receive(m, out) == msgs' = (msgs \ {m}) \cup out

Stamps == <<last_sync_start, asked_to_synchronize, rounds>>
Handshake == <<synchronizing, synchronizing_level, T1, T2, T3, T4, rt1, rt2, rt4, j1, j4>>

\* Mutant: the round's level test is dropped.
check_and_handle_timers_anyLevel(n) ==
    \E checkDue, startDue \in BOOLEAN :
        LET demote == checkDue /\ CLOCK_LEADER < sync_level[n]
                               /\ sync_level[n] < CLOCK_UNSYNCHRONIZED
            lvl    == IF demote THEN CLOCK_UNSYNCHRONIZED ELSE sync_level[n]
            off    == IF demote THEN 0 ELSE offset_ms[n]
            round  == startDue
                      /\ rounds[n] + rounds[Other(n)] < MaxRounds
        IN
        /\ demote \/ round
        /\ sync_level' = [sync_level EXCEPT ![n] = lvl]
        /\ offset_ms' = [offset_ms EXCEPT ![n] = off]
        /\ IF round
             THEN /\ msgs' = msgs \cup {[type |-> "SYNC_START", src |-> n,
                                         dst |-> Other(n), lvl |-> lvl,
                                         ts |-> get_clock(lvl, off, nat[n]),
                                         at |-> now,
                                         j |-> get_clock(lvl, off, nat[n]) - nat[n]]}
                  /\ asked_to_synchronize' = [asked_to_synchronize EXCEPT ![n] = TRUE]
                  /\ last_sync_start' = [last_sync_start EXCEPT ![n] = nat[n]]
                  /\ rounds' = [rounds EXCEPT ![n] = @ + 1]
             ELSE UNCHANGED <<msgs, Stamps>>
        /\ UNCHANGED <<now, nat, synchronized_peer, Handshake, directives>>

(* check_and_handle_timers: a synchronized follower whose sync check is    *)
(* due falls back to unsynchronized with offset 0; then a node at a level  *)
(* others may synchronize to, whose next_sync_start is due, sends its peer *)
(* SYNC_START(level, get_clock()) and notes the natural time.              *)
check_and_handle_timers(n) ==
    \E checkDue, startDue \in BOOLEAN :
        LET demote == checkDue /\ CLOCK_LEADER < sync_level[n]
                               /\ sync_level[n] < CLOCK_UNSYNCHRONIZED
            lvl    == IF demote THEN CLOCK_UNSYNCHRONIZED ELSE sync_level[n]
            off    == IF demote THEN 0 ELSE offset_ms[n]
            round  == startDue /\ lvl < CLOCK_UNSYNCHRONIZED - 1
                      /\ rounds[n] + rounds[Other(n)] < MaxRounds
        IN
        /\ demote \/ round
        /\ sync_level' = [sync_level EXCEPT ![n] = lvl]
        /\ offset_ms' = [offset_ms EXCEPT ![n] = off]
        /\ IF round
             THEN /\ msgs' = msgs \cup {[type |-> "SYNC_START", src |-> n,
                                         dst |-> Other(n), lvl |-> lvl,
                                         ts |-> get_clock(lvl, off, nat[n]),
                                         at |-> now,
                                         j |-> get_clock(lvl, off, nat[n]) - nat[n]]}
                  /\ asked_to_synchronize' = [asked_to_synchronize EXCEPT ![n] = TRUE]
                  /\ last_sync_start' = [last_sync_start EXCEPT ![n] = nat[n]]
                  /\ rounds' = [rounds EXCEPT ![n] = @ + 1]
             ELSE UNCHANGED <<msgs, Stamps>>
        /\ UNCHANGED <<now, nat, synchronized_peer, Handshake, directives>>

(* handle_sync_start: T2 is the natural clock on receipt, T1 the sender's  *)
(* timestamp, T3 the natural clock when the DELAY_REQUEST is sent. A       *)
(* follower whose own upstream no longer has a lower level resets; a       *)
(* sender that would not improve the level is ignored.                     *)
handle_sync_start(n, m) ==
    LET synchronized_to_sender ==
            sync_level[n] < CLOCK_UNSYNCHRONIZED /\ synchronized_peer[n] = m.src
        demote == synchronized_to_sender /\ m.lvl >= sync_level[n]
        start  == ~synchronizing[n] /\ ~demote
                  /\ (synchronized_to_sender \/ m.lvl + 1 < sync_level[n])
    IN
    /\ m \in msgs /\ m.type = "SYNC_START" /\ m.dst = n
    /\ IF m.lvl < CLOCK_UNSYNCHRONIZED - 1 /\ ~synchronizing[n] /\ demote
         THEN /\ sync_level' = [sync_level EXCEPT ![n] = CLOCK_UNSYNCHRONIZED]
              /\ offset_ms' = [offset_ms EXCEPT ![n] = 0]
         ELSE UNCHANGED <<sync_level, offset_ms>>
    /\ IF m.lvl < CLOCK_UNSYNCHRONIZED - 1 /\ start
         THEN /\ synchronizing' = [synchronizing EXCEPT ![n] = TRUE]
              /\ synchronizing_level' = [synchronizing_level EXCEPT ![n] = m.lvl]
              /\ T1' = [T1 EXCEPT ![n] = m.ts]
              /\ T2' = [T2 EXCEPT ![n] = nat[n]]
              /\ T3' = [T3 EXCEPT ![n] = nat[n]]
              /\ rt1' = [rt1 EXCEPT ![n] = m.at]
              /\ rt2' = [rt2 EXCEPT ![n] = now]
              /\ j1' = [j1 EXCEPT ![n] = m.j]
              /\ Receive(m, {[type |-> "DELAY_REQUEST", src |-> n, dst |-> m.src]})
         ELSE /\ Receive(m, {})
              /\ UNCHANGED <<synchronizing, synchronizing_level, T1, T2, T3, rt1, rt2, j1>>
    /\ UNCHANGED <<now, nat, synchronized_peer, T4, rt4, j4, Stamps, directives>>

\* Mutant: the reply carries the natural receive time, not the synchronized one.
handle_delay_request_natural(n, m) ==
    /\ m \in msgs /\ m.type = "DELAY_REQUEST" /\ m.dst = n
    /\ IF asked_to_synchronize[n]
          /\ nat[n] <= last_sync_start[n] + DELAY_RESPONSE_TIME
         THEN Receive(m, {[type |-> "DELAY_RESPONSE", src |-> n, dst |-> m.src,
                           lvl |-> sync_level[n], ts |-> nat[n], at |-> now,
                           j |-> ClockOf(n) - nat[n]]})
         ELSE Receive(m, {})
    /\ UNCHANGED <<now, nat, sync_level, offset_ms, synchronized_peer,
                   Handshake, Stamps, directives>>

(* handle_delay_request: the synchronized clock is read on receipt; the    *)
(* request is refused unless the sender was asked in the last round and    *)
(* the natural time is at most last_sync_start + DELAY_RESPONSE_TIME.      *)
handle_delay_request(n, m) ==
    /\ m \in msgs /\ m.type = "DELAY_REQUEST" /\ m.dst = n
    /\ IF asked_to_synchronize[n]
          /\ nat[n] <= last_sync_start[n] + DELAY_RESPONSE_TIME
         THEN Receive(m, {[type |-> "DELAY_RESPONSE", src |-> n, dst |-> m.src,
                           lvl |-> sync_level[n], ts |-> ClockOf(n), at |-> now,
                           j |-> ClockOf(n) - nat[n]]})
         ELSE Receive(m, {})
    /\ UNCHANGED <<now, nat, sync_level, offset_ms, synchronized_peer,
                   Handshake, Stamps, directives>>

(* handle_delay_response: accepted while synchronizing with the sender at  *)
(* the level it announced and with a timestamp not below T1; the node      *)
(* takes level + 1 and the offset of update_offset.                        *)
handle_delay_response(n, m) ==
    /\ m \in msgs /\ m.type = "DELAY_RESPONSE" /\ m.dst = n
    /\ IF synchronizing[n] /\ m.lvl = synchronizing_level[n] /\ m.ts >= T1[n]
         THEN /\ T4' = [T4 EXCEPT ![n] = m.ts]
              /\ sync_level' = [sync_level EXCEPT ![n] = m.lvl + 1]
              /\ offset_ms' = [offset_ms EXCEPT ![n] =
                                  update_offset(T1[n], T2[n], T3[n], m.ts)]
              /\ synchronized_peer' = [synchronized_peer EXCEPT ![n] = m.src]
              /\ synchronizing' = [synchronizing EXCEPT ![n] = FALSE]
              /\ rt4' = [rt4 EXCEPT ![n] = m.at]
              /\ j4' = [j4 EXCEPT ![n] = m.j]
         ELSE UNCHANGED <<T4, sync_level, offset_ms, synchronized_peer,
                          synchronizing, rt4, j4>>
    /\ Receive(m, {})
    /\ UNCHANGED <<now, nat, synchronizing_level, T1, T2, T3, rt1, rt2, j1, Stamps, directives>>

(* handle_leader: LEADER 0 makes the node the leader, LEADER 255 turns a   *)
(* leader back into an unsynchronized node; neither touches offset_ms.     *)
handle_leader(n, v) ==
    /\ directives < MaxDirectives
    /\ directives' = directives + 1
    /\ \/ v = CLOCK_LEADER
       \/ v = CLOCK_UNSYNCHRONIZED /\ sync_level[n] = CLOCK_LEADER
    /\ sync_level' = [sync_level EXCEPT ![n] = v]
    /\ UNCHANGED <<now, nat, offset_ms, synchronized_peer, Handshake, msgs,
                   last_sync_start, asked_to_synchronize, rounds>>

(* main.c's loop: the timer step, or one datagram handled; time passes. *)
Next ==
    \/ Tick
    \/ \E n \in Node :
          \/ check_and_handle_timers(n)
          \/ \E v \in {CLOCK_LEADER, CLOCK_UNSYNCHRONIZED} : handle_leader(n, v)
    \/ \E m \in msgs :
          \/ handle_sync_start(m.dst, m)
          \/ handle_delay_request(m.dst, m)
          \/ handle_delay_response(m.dst, m)

Spec == Init /\ [][Next]_vars

-----------------------------------------------------------------------------
Abs(x) == IF x < 0 THEN -x ELSE x

(* A handshake of n with its peer p completes in this step. *)
Completes(n) == synchronizing[n] /\ ~synchronizing'[n]

(* The error budget of the four-timestamp exchange: update_offset over    *)
(* T1 and T4 (p's get_clock when it sends SYNC_START and answers the       *)
(* DELAY_REQUEST) and T2 = T3 (n's natural clock on receipt). When n       *)
(* completes a handshake with p, twice the distance between the two       *)
(* clocks is at most the asymmetry of the one-way delays (SYNC_START:      *)
(* rt2 - rt1; DELAY_REQUEST and its answer: rt4 - rt2), plus how far p's   *)
(* clock stepped between stamping T1 and stamping T4, plus twice how far   *)
(* it stepped since, plus 1 for the truncating division. A step is a       *)
(* change of get_clock - natural: a resynchronisation, a demotion, a       *)
(* LEADER directive or the clamp at 0.                                     *)
SyncAccuracy ==
    [][\A n \in Node :
         LET p     == Other(n)
             Jnow  == ClockOf(p) - nat[p]
         IN  Completes(n)
             => 2 * Abs(get_clock(sync_level'[n], offset_ms'[n], nat[n]) - ClockOf(p))
                  <= Abs((rt4'[n] - rt2[n]) - (rt2[n] - rt1[n]))
                     + Abs(j4'[n] - j1[n]) + 2 * Abs(Jnow - j4'[n]) + 1
      ]_vars

(* get_clock's clamp at 0 (clock.c) never engages: whenever a node applies *)
(* its offset, the offset is at most its natural clock. It holds because   *)
(* update_offset places the clock near the upstream's (itself never below  *)
(* 0) and both then advance; LEADER 0 and LEADER 255 only switch the       *)
(* offset on and off, and every demotion clears it.                        *)
ClockNeverClamped ==
    \A n \in Node : sync_level[n] # CLOCK_UNSYNCHRONIZED => offset_ms[n] <= nat[n]
====
