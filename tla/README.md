# TLA+ models of peer-time-sync and the-great-approximator

This directory holds TLA+ models of the two programs under `src/`. The
models are checked with TLC:

* **PTS** (`src/peer-time-sync`) is a UDP gossip protocol. Nodes discover
  each other, then synchronise their clocks along a tree rooted at an
  appointed leader.
* **APX** (`src/the-great-approximator`) is a TCP game. A single-threaded,
  poll-based server paces the "puts" of each player, charges penalties and
  scores the game. A client runs five threads.

## 1. Inventory

### PTS

The parts and their state:

* **Node state** (`node_data.h`):
  * `sync_level` (0 = leader, 255 = unsynchronized) and `synchronized_peer`;
  * the deadlines `next_sync_start`, `next_sync_check` and
    `waiting_for_delay_response`;
  * `last_sync_start` and `asked_to_synchronize`;
  * the handshake in progress: `synchronizing`, `synchronizing_level`,
    `peer_to_sync`, and T1..T4;
  * `offset_ms`;
  * the peer list and the discovery flags.
* **Main loop** (`main.c`): it calls `check_and_handle_timers`, then
  `recvfrom` with a 1 s timeout, then `handle_message`. It runs on one thread
  with nothing shared.
* **Synchronisation** (`messages.c`):
  * `check_and_handle_timers`;
  * `handle_sync_start`, `handle_delay_request` and `handle_delay_response`;
  * `handle_leader`.
* **Discovery** (`messages.c` 159-340, `peers.cpp`): HELLO, HELLO_REPLY,
  CONNECT and ACK_CONNECT, and the peer list, capped at 65535 entries.
* **Clock** (`clock.c`): the natural and the synchronised clock, and the
  offset arithmetic.

Hard behaviour:
* UDP loses, duplicates and reorders datagrams.
* Deadlines race with late answers.
* Several nodes act at once.
* An administrator's LEADER datagram arrives at any time.

### APX server

* **Game engine** (`server_logic.cpp`): a player table keyed by socket
  descriptor, `total_correct_puts`, the coefficient file cursor, and
  `stopping`.
* **Timer manager** (`server_events.cpp`): a multimap of callbacks keyed by
  deadline.
* **Poll loop** (`approx-server.cpp`):
  * the loop, in this order: reset if stopping, run due callbacks, read,
    write;
  * `poll_fds` and the line buffers.

Hard behaviour:
* Accept reuses the lowest free descriptor, so a callback scheduled for a
  client that left may run when a new client holds its descriptor.
* A disconnect can come between any two steps.
* Games follow one another, and the coefficient file is never rewound.

### APX client

The client (`client_logic.cpp`, `ts_queue.h`) runs five threads: strategy,
network receiver, network sender, message processor, and log printer. They
share three queues, `puts_without_answer` (a mutex and a condition
variable), the atomic `game_over`, and the polynomial data.

### Pure parts

* The APX line codec (`msg_parser.cpp`): `Message::createMessage` parses a
  CRLF-terminated line into one of seven message classes or nullptr; each
  class's `createMessage` writes a line and returns the parse of it, and the
  callers in `server_logic.cpp` and `client_logic.cpp` dereference that
  result unchecked. The server and the client hand it every line up to the
  first CRLF of their receive buffers.
* The `create_*` functions of `messages.c`.
* The argument parsers.
* The socket set-up.

## 2. Modules

| Module | Models | State (code variable) | Actions (code function) |
|---|---|---|---|
| `PtsSync` | PTS synchronisation protocol | `sync_level`, `synchronized_peer`, `synchronizing`, `synchronizing_level`, `peer_to_sync`, `asked_to_synchronize` (`NodeData`); `msgs`, the datagrams in flight; `appointed`, a history variable | `check_and_handle_timers`, `handle_sync_start`, `handle_delay_request`, `handle_delay_response`, `handle_leader`, `Lose` |
| `MCPtsSync` | instance of `PtsSync` | 3 nodes; asymmetric peer lists; UNSYNC scaled to 4 | |
| `PtsClock` | PTS clocks and timestamps (`clock.c` and the handlers that stamp or apply them) | `nat` (`get_natural_clock()` of each node), `sync_level`, `offset_ms`, `synchronized_peer`, `synchronizing`, `synchronizing_level`, T1..T4, `last_sync_start`, `asked_to_synchronize`, `msgs` with timestamps; `now` and the histories `rt1`, `rt2`, `rt4`, `j1`, `j4`; the bounds' counters `rounds`, `directives` | `Tick` (real time), `check_and_handle_timers`, `handle_sync_start`, `handle_delay_request`, `handle_delay_response` (with `update_offset`), `handle_leader`; `get_clock` is an operator and `ClockOf(n)` is what `handle_get_time` answers |
| `MCPtsClock` | instance of `PtsClock` | 2 nodes whose natural clocks read 0 or 2 at real time 0 | |
| `ApxServer` | APX server engine, timers and loop | `players` (fd → `PlayerInfo` with `conn`, a history value naming the connection), `total_correct_puts`, `stopping`, `events` (a bag of callbacks with their captured tuples), `coeff_read`, `running` | `handle_new_connection`, `handle_read_from_client` (HELLO, PUT or other), `check_timers` (one due callback), `handle_write_to_client`, `disconnect_client`, `reset`, `Exited` |
| `MCApxServer` | instance of `ApxServer` | 2 fds, 2 addresses, 2 ids, M = 2, 2 coefficient lines | |
| `PtsPeers` | PTS discovery and the peer list | `peer_list`, `waiting_for_hello_reply`, `waiting_for_ack_connect` (`NodeData`); `msgs`; `lost`, a history of lost answers | the first HELLO of `main.c` (in `Init`), `handle_hello`, `handle_hello_reply`, `handle_connect`, `handle_ack_connect` (by `handle_message`), `Lose` |
| `MCPtsPeers` | instance of `PtsPeers` | 4 nodes; n2, n4 start with `-a n1`, n3 with `-a n2`; cap 2; a reply lists at most 1 peer | |
| `ApxPollLoop` | the main loop of `approx-server.cpp` | `poll_fds` (a sequence of fd, POLLOUT, revents), `players` (known, pending output), `client_buffers`, `stopping`, `ready`; the loop's `pc`, index `i` and the stale reference `ref`; `visited`, a history | `poll` (with `reset_server`), `check_timers`, `handle_new_connection`, the slot step (hang-up, no input, `handle_read_from_client`), `check_stopping_and_write` with `handle_write_to_client`, `Exited` |
| `ApxClientTable` | what the server promises about its clients, one atomic engine operation at a time | `conn`, `known`, `pending`, `stopping` | `Accept`, `Hello`, `Queue` (a STATE or BAD_PUT callback), `Put` (with game over), `Send`, `Disconnect`, `Reset` |
| `MCApxPollLoop` | instance of `ApxPollLoop` | client descriptors {1, 2} | |
| `ApxClient` | the client's threads and the server's side of one connection | `outgoing_messages`, `incoming_messages`, `puts_without_answer`, `game_over`, `is_first_message`, `scoring_received`, the `pc` of the processor, the sender and the receiver; the TCP streams; the player's entry, its callbacks and the server's `stopping` | `send_hello_message`, `manual_strategy`, `auto_strategy`, `network_sender` and `network_receiver` (loop test, timeout, the step), `message_processor` (loop, timeout, pop), `join_threads`, the server's read, timers, hello-wait, write, `reset_server`, other players' puts |
| `MCApxClient` | instance of `ApxClient` | M = 3; at most 3 PUTs per client; manual and auto | |
| `ApxCodec` | the APX line codec | `input`, the line or message of one call; `output`, what it returned | `Receive` (a framed line to `createMessage`), `Send` (a message to its class's `createMessage`); the parser and serializers are operators named after the C++ functions, and `SpecDecode` is the grammar of spec 4.4 written independently of them |
| `MCApxCodec` | instance of `ApxCodec` | one fractional digit; INT_MAX = 1; max_n = max_k = 1; letters B, a | |

### How the models abstract time and data

**PtsSync is untimed.** Whether a deadline has passed is a free choice:
* `checkDue` and `startDue` in the timer step;
* `inTime` for the DELAY_REQUEST window;
* `t4AfterT1` for the timestamp check.

So every interleaving of expiries and arrivals is explored. The network is a
set of datagrams:
* receiving a datagram either consumes it or leaves a copy (duplication);
* `Lose` drops one;
* a set has no order, so any order of delivery is possible.

**Data kept by PtsSync.** Only the addresses and levels in a datagram are
kept; the timestamps are not. `CLOCK_UNSYNCHRONIZED` is scaled from 255 to
`UNSYNC` = 4. The code only compares a level with 0, UNSYNC-1 and UNSYNC and
adds 1, so the protocol is unchanged.

**Uninitialized `synchronized_peer`.** Its initial value is a choice from
`Garbage`. The runs take it to encode no node.

**PtsClock is timed.** Real time `now` runs in milliseconds, and `Tick`
advances it and every natural clock by 1: `get_natural_clock` counts from
`clock_init`, so two nodes' natural clocks differ by a constant (the
moments they started) and do not drift. A datagram's delay is how many
ticks it spends in `msgs`; every datagram carries, as history, the real
time it was stamped (`at`) and its sender's `get_clock - natural` then
(`j`). Timestamps, offsets and levels are the code's values: levels are
not scaled, and `update_offset` halves with C's truncation (`CDiv`), not
TLA+'s flooring `\div`. The DELAY_REQUEST window is compared as written:
the natural clock in ms against `last_sync_start + 5`. The seconds
deadlines (`next_sync_start`, `next_sync_check`) stay free choices, as in
PtsSync. Each node's only peer is the other. Datagrams are consumed when
handled and are neither lost nor duplicated here: PtsSync covers loss and
duplication, and a lost datagram of a handshake only ends in the stuck
`synchronizing` that `pts_handshake_ends` shows. `handle_get_time` changes
no state, so it is no action; the value it answers is `ClockOf(n)`.

**ApxServer is untimed as well.** Any pending callback may be the next one
due. A parsed line is one of:
* HELLO with an id;
* PUT, in or out of range;
* anything else.

Approximations and scores are left out. A message is sent whole.

**ApxCodec.** A character is a one-letter string and each command word a
single symbol, so any other first word is an unknown command. A double is
an integer in units of 10^-`MAX_FRACTIONAL_DIGITS`: every value the parser
yields has that form, so `stod` is exact on it. Left out are std::fixed
rounding of doubles with more digits (the server's sums and scores) and
stod's range error for tokens of more than 308 digits.

**Connection identities.** `conn` is taken from `Conn`, reusing identities
that nothing refers to any more. It lets properties tell a new client from
the old one on the same descriptor.

## 3. Runs

| Run | Config | Result | What it shows |
|---|---|---|---|
| `pts_safety` | `PtsSync.cfg` | pass, 0.64M states | Under loss, duplication and reordering, with leadership moving between two nodes: a follower follows only a peer in its peer list (`FollowerFollowsKnownPeer`), and a non-leader's level changes only to a strictly better level, to unsynchronized, or to leader (`LevelOnlyImproves`). |
| `pts_leader` | `PtsSyncLeader.cfg` | violation | `LeaderChangesOnlyByDirective`: a node made leader whose never-written `synchronized_peer` names a peer drops to unsynchronized on that peer's SYNC_START. The stale upstream left by `handle_leader` and a late DELAY_RESPONSE do the same. |
| `pts_handshake_ends` | `PtsSyncHandshake.cfg` | violation (liveness) | The DELAY_REQUEST is refused or lost, and `synchronizing` stays TRUE forever, even though the timer step is weakly fair. |
| `pts_clock` | `PtsClock.cfg` | pass, 1.2M states | With real timestamps and offsets, over rounds, handshakes, demotions and LEADER directives between two nodes whose clocks started apart: whenever a node completes a handshake, twice its distance from its upstream's clock is at most the asymmetry of the two one-way delays, plus the upstream's clock step between T1 and T4, plus twice its step since, plus 1 for the truncating division (`SyncAccuracy`); and `get_clock`'s clamp at 0 never engages (`ClockNeverClamped`). |
| `pts_peers` | `PtsPeers.cfg` | pass, 0.31M states | Under loss, duplication and reordering, when a has b and b lacks a, an answer from a to b is in flight or was lost, or b's list is full (`PeeringSymmetricOrPending`). |
| `apx_server_safety` | `ApxServer.cfg` | pass, 1.4M states | Across disconnects, descriptor reuse, address and id reuse, and successive games: `total_correct_puts` equals the sum over connected players (`TotalIsSum`); a game stops at exactly M (`GameEndsAtM`); a known player that may not put always has a pending callback that will let it put again (`NoLockout`). |
| `apx_poll_loop` | `ApxPollLoop.cfg` | pass, 0.13M states | `poll_fds`, the players and the line buffers stay in step through accepts, hang-ups and disconnects (`PollFdsMatchPlayers`), and the index walk visits every slot with events (`NoReadySlotSkipped`). The loop refines `ApxClientTable` (`ImplementsClientTable`): every step is one engine operation or none, and between the PUT that ends a game and the reset no client is accepted, read, written or disconnected. |
| `apx_poll_abort` | `ApxPollLoopAbort.cfg` | violation | `ServerSurvivesBadClient`: a client at slot 1 sends PUT before HELLO; the loop writes through the stale reference to index 0 and the assertion aborts the server. |
| `apx_client_threads` | `ApxClient.cfg` | pass, 0.38M states | `puts_without_answer` equals the auto client's unanswered PUTs plus the awaited COEFF (`CreditMatchesOutstanding`), and under the fairness below an auto client always exits (`AutoClientTerminates`). |
| `apx_client_put_before_hello` | `ApxClientHello.cfg` | violation | `HelloBeforePut`: the strategy thread runs before HELLO is queued, so a manual PUT reaches the server first. |
| `apx_codec` | `ApxCodec.cfg` | pass, 0.13M states | Over every line of up to five characters after a command word (and lines of whole tokens), `createMessage` returns exactly what the grammar of spec 4.4 returns (`ParserMatchesGrammar`); every serializer returns the message it was given, with SCORING sorted by id, and never nullptr (`SerializersRoundTrip`). |
| `apx_client_lost_scoring` | `ApxClientScoring.cfg` | violation | `ScoredClientExitsCleanly`: SCORING arrives, EOF sets `game_over`, and the processor exits 1 before popping SCORING. The property is also broken after SCORING has been processed: a PUT that the sender popped before `game_over` is written to the closed socket. The write raises SIGPIPE, and `join_threads` is still waiting for the sender. |

Each property of a passing run has a mutant in `PROJECT.json`: a plausible
bug in one definition that TLC catches with that run.

### Bounds and why they are enough

**PtsSync.**
* Three nodes with the peer lists n1:{n2,n3}, n2:{n1,n3}, n3:{n1}. This is
  the smallest setting with both an unknown sender and a chain
  leader → follower → follower.
* The administrator sends LEADER to n1 and n2, so leadership can move.
* At most 2 datagrams are in flight (`InFlightBound`). That is enough for a
  SYNC_START to be overtaken by a stale DELAY_RESPONSE.
* `View` ignores `synchronizing_level` and `peer_to_sync` when no handshake
  runs; the code overwrites them before the next read. `View` also leaves
  out the history variable `appointed`, which no action reads. Only the
  leader run, whose property mentions it, uses `ViewWithHistory`.
* The leader run takes the initial `synchronized_peer` from any node or none
  (`AnyGarbage`); the others take it to name no node.

**PtsPeers.** Four nodes, a cap of 2 and replies of at most one peer: n1's
list fills, so a later CONNECT is refused, and a reply that would list two
peers is not sent. At most 4 datagrams are in flight.

**PtsClock.**
* Two nodes, each the other's peer: either can lead, follow, step down
  and re-synchronise to the other.
* Natural clocks reading 0 or 2 at real time 0, so a follower's offset is
  0 or ±2 and T3 taken from the wrong clock is visible.
* `MaxTime` = 6 ms: room for a round, a handshake whose delays differ
  (the DELAY_REQUEST must come within 5 ms), and a second round.
* `MaxRounds` = 2 rounds between the two nodes, and `MaxDirectives` = 3
  LEADER datagrams. That is enough for a leader, a follower that
  synchronises to it, and the leader stepping down and re-synchronising
  to its follower, so an upstream's clock steps during a handshake. A
  LEADER 255 then reaches a leader whose offset came from a handshake.
* Symmetry over the two nodes.
* The model stops when time, rounds and directives are spent, so deadlock
  is not checked in this run (`CHECK_DEADLOCK FALSE`): the program itself
  never stops, as its timer step always runs.

**ApxServer.**
* Two descriptors and two addresses: a new client can get the descriptor
  and address of one that left while another client is still connected.
* Two ids, so the new client can have the same id or a different one.
* M = 2 lets a game end with one or with two players.
* Two coefficient lines make the file run out in the second game.
* Three connection identities.
* A client stops sending rejected PUTs at penalty 10. That allows one
  early PUT, one out-of-range PUT, or one PUT that is both.
* Symmetry over addresses and ids. The descriptors are numbers and are not
  symmetric, because accept takes the lowest free one.

**ApxCodec.** Scaled to one fractional digit and INT_MAX = 1, a token of
four characters already crosses each limit: "1.1" is admitted and "1.11"
refused, "-2" admitted and "11" refused. max_n = max_k = 1, so a COEFF or
STATE of three tokens is over the count. The alphabet has a letter, a
digit, '-', '.', a space and '_', a character outside the parameter class.
The messages use ids that sort differently by byte than by case (B < a,
a < a1), points at both int bounds, and negative, zero, fractional and
large values.

**ApxPollLoop.** Two client descriptors: a slot can be erased while a later
one is still to be visited, and the erased slot can be slot 1.

**ApxClient.** M = 3 and three PUTs per client: enough for COEFF, answers,
a game end by other players, and SCORING racing EOF.

**Threads of ApxClient.** The processor, the sender and the receiver each
test `game_over` and then block for up to 200 ms, in `try_pop_for` or in
`recv`. Each is modelled as two steps, so a message popped or received
after `game_over` is set is still handled. The process returns 0 only
after `join_threads`. The strategy thread's test and push are one step.
The PUT it might still queue after `game_over` adds no behaviour: a PUT
queued earlier is written late in the same way.

### Refinement

`ApxPollLoop` instantiates `ApxClientTable` with the mapping
`conn = DOMAIN players`, `known` = the players with `is_known`, `pending` =
the players with a non-empty deque, and `stopping = stopping`. The index,
the stale `pollfd` reference, `poll_fds` and the buffers are hidden. The
abort on the stale reference only sets `running`, so it is a stuttering
step of the abstract spec; the run that shows it is `apx_poll_abort`.

### Fairness

In `PtsSync`, each node's timer step is weakly fair, and so is its handling
of datagrams: `main.c` loops forever and `recvfrom` times out after 1 s.
Loss and the administrator are not fair. Only `pts_handshake_ends` uses
fairness. The violation it reports is not an artefact of missing fairness:
the node keeps running its timers, and it ignores every SYNC_START.

In `ApxClient`, every thread and each step of the server's loop is weakly
fair: the threads loop on 200 ms timeouts and the server polls every
100 ms. The hello-wait timer, other players and the manual user are not
fair. `AutoClientTerminates` is about the auto client only.

## 4. Not modelled yet, and the plan

In order of importance:

1. **An abstract specification of the sync tree**: a forest of followers
   rooted at leaders, which `PtsSync` would refine, and the composition of
   `PtsPeers` with `PtsSync` in place of the constant `Peers`. An abstract
   spec in which only LEADER directives make or unmake leaders is not
   refined: `pts_leader` shows the code ending leadership in other ways.
   The abstract spec has to admit those paths, or wait for a fix.
2. **PtsClock with three nodes, loss and duplication**: a chain of two
   followers, whose errors add up, and stale DELAY_RESPONSEs. The two-node
   model is already at the limit of a run.
3. Partial writes in `ApxServer` (they are in `ApxPollLoop`).

**Clock values.** `pts_clock` checks what depends on them. What it leaves
open:
* `handle_leader` leaves `offset_ms` unchanged on LEADER 255
  (`messages.c:503`), so a later LEADER 0 makes a leader whose clock is
  shifted by the stale offset. `pts_clock` reaches the first half (the
  jump back to the natural clock) and bounds its effect on a handshake
  that spans it; the second LEADER 0 is one directive past the bound. No
  run says what a leader's clock should read.
* `get_natural_clock` divides a negative nanosecond difference with C's
  truncation (`clock.c:20`), so for part of each second the millisecond
  count runs up to 1 ms ahead. The model's clocks tick evenly.
* `handle_get_time` answers an unsynchronized node with its natural
  clock (`get_clock`, `clock.c:26-27`). Spec 4.3 says TIME carries 0
  when the node is unsynchronized.

**The reserved level 254.** `check_sync_start` rejects an advertised
level >= 254, which is what spec 4.3's list says. So a follower of a
level-253 node takes level 254, which spec 4.3's first paragraph and the
invariant in spec 8 reserve. With three nodes, `MCPtsSync` reaches the
scaled reserved level. A leader steps down and re-synchronises to its own
follower, and the third node then synchronises to it. No run states the
spec 8 invariant, because the spec itself gives both bounds.

**An early PUT.** `respond_with_penalty` re-enables `can_put`, but
`handle_put` goes on: it clears `can_put` unconditionally and, for a value
out of range, also charges the bad-put penalty and schedules BAD_PUT
(`server_logic.cpp:169-171`). Spec 4.5 says the PENALTY stops further
processing of the PUT and `can_put` is re-enabled at once. This is one
call of one handler, so a unit test shows it and no run is spent on it.
`NoLockout` checks the consequence that needs the model: the player is
never locked out, because an early PUT comes while the callback of the
previous PUT is pending, and that callback re-enables `can_put`.

**Callbacks of a client that left.** `validate_client` compares only the
descriptor, ip and port (and, for STATE and BAD_PUT, the id). So a callback of a
client that left can act on a new connection that reuses them: the
hello-wait timer disconnects it early, or it gets the old client's reply.
`ApxServer` admits these behaviours, and its `conn` history tells the two
clients apart, but no run checks this. It needs a reconnect from the same
port within seconds.

These stay out because they are pure I/O: the argument parsers, the socket
set-up and logging.
