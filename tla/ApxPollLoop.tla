----------------------------- MODULE ApxPollLoop -----------------------------
(***************************************************************************)
(* The main loop of the APX server (approx-server.cpp): poll, reset when   *)
(* stopping, the timers, accept, then the walk over poll_fds by an index   *)
(* i that disconnect_client moves back by one when it erases a slot.       *)
(*                                                                         *)
(* The index is the code's: 0 is the listening socket, Slot(k) is          *)
(* poll_fds[k]. The game engine is abstracted to what the loop reads of    *)
(* it: whether a player is known and whether its outbound deque is empty.  *)
(* A read delivers one line, parsed as HELLO, PUT or anything else. The    *)
(* totals that end a game and the deadlines of callbacks are free choices  *)
(* (ApxServer checks them).                                                *)
(***************************************************************************)
EXTENDS Naturals, Sequences, SequencesExt, FiniteSets

CONSTANTS
    ClientFd     \* descriptors accept may return, a set of numbers > 0

LISTEN == 0       \* the listening socket, poll_fds[0]

ASSUME ClientFd \subseteq Nat \ {LISTEN} /\ ClientFd # {}

VARIABLES
    poll_fds,        \* sequence of [fd, pollout (POLLOUT in events), revents]
    players,         \* ServerLogic::players: fd -> [is_known, pending]
    client_buffers,  \* the keys of client_buffers
    stopping,        \* ServerLogic::stopping
    ready,           \* poll returned > 0
    pc,              \* where the loop is: poll, timers, accept, slot, check
    i,               \* the loop index
    ref,             \* the index the reference `pollfd` was taken at
    visited,         \* history: the descriptors visited in this pass
    stale,           \* the bytes left past the end of poll_fds by erase
    running          \* FALSE once an assertion aborted the process

vars == <<poll_fds, players, client_buffers, stopping, ready, pc, i, ref, visited, stale,
         running>>

PollFd == [fd: ClientFd \cup {LISTEN}, pollout: BOOLEAN,
           revents: SUBSET {"IN", "OUT", "HUP"}]
Player == [is_known: BOOLEAN, pending: BOOLEAN]

Slot(k) == poll_fds[k + 1]
Clients == 1..Len(poll_fds) - 1

(* What the reference `auto& pollfd = poll_fds[ref]` reads: the element    *)
(* now at that index, or, past the end, the stale bytes erase left there.  *)
At(k) == IF k < Len(poll_fds) THEN Slot(k) ELSE stale

TypeOK ==
    /\ poll_fds \in Seq(PollFd) /\ Len(poll_fds) >= 1
    /\ DOMAIN players \subseteq ClientFd
    /\ \A fd \in DOMAIN players : players[fd] \in Player
    /\ client_buffers \subseteq ClientFd
    /\ stopping \in BOOLEAN /\ ready \in BOOLEAN /\ running \in BOOLEAN
    /\ pc \in {"poll", "timers", "accept", "slot", "check"}
    /\ i \in 0..Cardinality(ClientFd) + 1
    /\ ref \in 0..Cardinality(ClientFd) + 1
    /\ visited \subseteq ClientFd
    /\ stale \in PollFd

ListenSlot == [fd |-> LISTEN, pollout |-> FALSE, revents |-> {}]

Init ==
    /\ poll_fds = <<ListenSlot>>
    /\ players = <<>>
    /\ client_buffers = {}
    /\ stopping = FALSE
    /\ ready = FALSE
    /\ pc = "poll"
    /\ i = 0 /\ ref = 0
    /\ visited = {}
    /\ stale = ListenSlot
    /\ running = TRUE

Without(ps, fd) == [f \in DOMAIN ps \ {fd} |-> ps[f]]

(* disconnect_client(fd, k): the engine forgets player fd, the slot at    *)
(* index k is erased and its buffer dropped. The callers move their index  *)
(* back by one.                                                            *)
\* Mutant: the line buffer of the client is kept.
disconnected_keepBuffer(fd, k) ==
    <<Without(players, fd), RemoveAt(poll_fds, k + 1), client_buffers>>

disconnected(fd, k) ==
    <<Without(players, fd), RemoveAt(poll_fds, k + 1), client_buffers \ {fd}>>

disconnect_client(k) ==
    /\ players' = disconnected(Slot(k).fd, k)[1]
    /\ poll_fds' = disconnected(Slot(k).fd, k)[2]
    /\ client_buffers' = disconnected(Slot(k).fd, k)[3]

-----------------------------------------------------------------------------
(***************************************************************************)
(* Top of the loop: poll reports events for every slot (POLLOUT only where *)
(* it was asked for, POLLIN on the listening socket only while accept has *)
(* a descriptor to give). If the game is stopping, reset_server and        *)
(* ServerLogic::reset close every client and the loop starts again.        *)
(***************************************************************************)
reset_server ==
    /\ poll_fds' = <<ListenSlot>>
    /\ players' = <<>>
    /\ client_buffers' = {}
    /\ stopping' = FALSE
    /\ UNCHANGED <<ready, pc>>

FreeFd == ClientFd \ DOMAIN players

poll ==
    /\ running /\ pc = "poll"
    /\ IF stopping
       THEN reset_server
       ELSE \E rev \in [1..Len(poll_fds) -> SUBSET {"IN", "OUT", "HUP"}] :
              /\ "OUT" \notin rev[1] /\ "HUP" \notin rev[1]
              /\ ("IN" \in rev[1] => FreeFd # {})
              /\ \A k \in 2..Len(poll_fds) : "OUT" \in rev[k] => poll_fds[k].pollout
              /\ poll_fds' = [k \in 1..Len(poll_fds) |-> [poll_fds[k] EXCEPT !.revents = rev[k]]]
              /\ ready' = \E k \in 1..Len(poll_fds) : rev[k] # {}
              /\ pc' = "timers"
              /\ UNCHANGED <<players, client_buffers, stopping>>
    /\ visited' = {}
    /\ UNCHANGED <<i, ref, stale, running>>

(***************************************************************************)
(* EventManager::check_timers runs the callbacks that are due, then the    *)
(* loop asks for POLLOUT on every client with pending messages. A due      *)
(* hello-wait callback of a client still unknown finds its slot by a       *)
(* linear search and disconnects it; a due STATE or BAD_PUT callback       *)
(* queues a message. At most one callback is due per pass here.            *)
(***************************************************************************)
hello_wait_index(fd) == SelectInSeq(poll_fds, LAMBDA s : s.fd = fd) - 1

hello_wait_callback(fd) == disconnected(fd, hello_wait_index(fd))

queue_callback(fd) ==
    <<[players EXCEPT ![fd].pending = TRUE], poll_fds, client_buffers>>

MarkPollout(ps, fds) ==
    [k \in 1..Len(fds) |->
        IF k = 1 THEN fds[1]
        ELSE [fds[k] EXCEPT !.pollout = @ \/ ps[fds[k].fd].pending]]

check_timers ==
    /\ running /\ pc = "timers"
    /\ \E o \in {<<players, poll_fds, client_buffers>>}
               \cup {hello_wait_callback(fd) : fd \in {f \in DOMAIN players : ~players[f].is_known}}
               \cup {queue_callback(fd) : fd \in {f \in DOMAIN players : players[f].is_known}} :
         /\ players' = o[1]
         /\ poll_fds' = MarkPollout(o[1], o[2])
         /\ client_buffers' = o[3]
    /\ pc' = IF ready THEN "accept" ELSE "poll"
    /\ UNCHANGED <<stopping, ready, i, ref, visited, stale, running>>

(* handle_new_connection when the listening socket is readable: accept     *)
(* takes the lowest free descriptor, which gets a slot at the end, no      *)
(* events yet, an empty buffer and an unknown player.                      *)
\* Mutant: the walk starts at the listening socket, index 0.
handle_new_connection_fromZero ==
    /\ running /\ pc = "accept"
    /\ IF "IN" \in Slot(LISTEN).revents
       THEN LET fd == Min(FreeFd) IN
            /\ players' = players @@ (fd :> [is_known |-> FALSE, pending |-> FALSE])
            /\ poll_fds' = Append(poll_fds, [fd |-> fd, pollout |-> FALSE, revents |-> {}])
            /\ client_buffers' = client_buffers \cup {fd}
       ELSE UNCHANGED <<players, poll_fds, client_buffers>>
    /\ pc' = "slot" /\ i' = 0
    /\ UNCHANGED <<stopping, ready, ref, visited, stale, running>>

handle_new_connection ==
    /\ running /\ pc = "accept"
    /\ IF "IN" \in Slot(LISTEN).revents
       THEN LET fd == Min(FreeFd) IN
            /\ players' = players @@ (fd :> [is_known |-> FALSE, pending |-> FALSE])
            /\ poll_fds' = Append(poll_fds, [fd |-> fd, pollout |-> FALSE, revents |-> {}])
            /\ client_buffers' = client_buffers \cup {fd}
       ELSE UNCHANGED <<players, poll_fds, client_buffers>>
    /\ pc' = "slot" /\ i' = 1
    /\ UNCHANGED <<stopping, ready, ref, visited, stale, running>>

(***************************************************************************)
(* The walk over the client slots, i = 1, 2, ... while i < poll_fds.size(). *)
(***************************************************************************)
loop_end ==
    /\ running /\ pc = "slot" /\ i >= Len(poll_fds)
    /\ pc' = "poll"
    /\ UNCHANGED <<poll_fds, players, client_buffers, stopping, ready, i, ref, visited, stale,
                   running>>

Visit == visited' = visited \cup {Slot(i).fd}

\* Mutant: the loop does not step back after erasing the slot.
slot_hangup_noStepBack ==
    /\ running /\ pc = "slot" /\ i < Len(poll_fds)
    /\ "HUP" \in Slot(i).revents
    /\ Visit
    /\ disconnect_client(i)
    /\ i' = i + 1
    /\ UNCHANGED <<stopping, ready, pc, ref, stale, running>>

(* POLLHUP: disconnect_client (i--), continue (i++).                       *)
slot_hangup ==
    /\ running /\ pc = "slot" /\ i < Len(poll_fds)
    /\ "HUP" \in Slot(i).revents
    /\ Visit
    /\ disconnect_client(i)
    /\ UNCHANGED <<stopping, ready, pc, i, ref, stale, running>>

(***************************************************************************)
(* ServerLogic::handle_client_message, as the loop sees it: a HELLO makes  *)
(* an unknown player known and queues COEFF; a PUT of a known player may   *)
(* queue a PENALTY (early) and may end the game, which queues SCORING for  *)
(* every known player and sets stopping. Anything else changes nothing.    *)
(***************************************************************************)
handle_hello(p) ==
    IF p.is_known THEN p ELSE [is_known |-> TRUE, pending |-> TRUE]

handle_put(ps, fd, early, ends) ==
    LET ps1 == [ps EXCEPT ![fd].pending = @ \/ early] IN
    IF ~ps[fd].is_known THEN ps
    ELSE IF ends
         THEN [f \in DOMAIN ps1 |-> [ps1[f] EXCEPT !.pending = @ \/ ps1[f].is_known]]
         ELSE ps1

handle_client_message(fd, line, early, ends) ==
    CASE line = "HELLO" -> [players EXCEPT ![fd] = handle_hello(@)]
      [] line = "PUT"   -> handle_put(players, fd, early, ends)
      [] OTHER          -> players

(***************************************************************************)
(* handle_read_from_client at slot i. recv <= 0: disconnect, return false, *)
(* continue. Otherwise the line is handled; if the player is still unknown *)
(* it is disconnected (i--) and the function still returns true, so the    *)
(* loop goes on with the reference `pollfd` taken at the old index and the *)
(* decremented i. The erase leaves the old last element's bytes past the   *)
(* new end of the vector.                                                  *)
(***************************************************************************)
handle_read_from_client ==
    /\ running /\ pc = "slot" /\ i < Len(poll_fds)
    /\ "HUP" \notin Slot(i).revents /\ "IN" \in Slot(i).revents
    /\ Visit
    /\ LET fd == Slot(i).fd IN
       \/ /\ disconnect_client(i)
          /\ UNCHANGED <<stopping, pc, i, ref, stale>>
       \/ \E line \in {"HELLO", "PUT", "OTHER"}, early \in BOOLEAN, ends \in BOOLEAN :
            LET ps == handle_client_message(fd, line, early, ends) IN
            /\ stopping' = (stopping \/ (line = "PUT" /\ players[fd].is_known /\ ends))
            /\ ref' = i /\ pc' = "check"
            /\ IF ps[fd].is_known
               THEN /\ players' = ps
                    /\ UNCHANGED <<poll_fds, client_buffers, i, stale>>
               ELSE /\ players' = Without(ps, fd)
                    /\ poll_fds' = RemoveAt(poll_fds, i + 1)
                    /\ client_buffers' = client_buffers \ {fd}
                    /\ i' = i - 1
                    /\ stale' = poll_fds[Len(poll_fds)]
    /\ UNCHANGED <<ready, running>>

(* Neither POLLHUP nor POLLIN: on to the stopping test with pollfd = slot i. *)
slot_no_input ==
    /\ running /\ pc = "slot" /\ i < Len(poll_fds)
    /\ "HUP" \notin Slot(i).revents /\ "IN" \notin Slot(i).revents
    /\ Visit
    /\ ref' = i /\ pc' = "check"
    /\ UNCHANGED <<poll_fds, players, client_buffers, stopping, ready, i, stale, running>>

(***************************************************************************)
(* handle_write_to_client(i): getClientPlayerID asserts that poll_fds[i]   *)
(* is a client. No pending message: stop asking for POLLOUT. Otherwise one *)
(* message is sent: whole (the deque may hold more), in part (the rest     *)
(* goes back to the front), or send <= 0 and the client is disconnected.   *)
(***************************************************************************)
handle_write_to_client ==
    LET fd == Slot(i).fd IN
    IF fd = LISTEN
    THEN /\ running' = FALSE
         /\ UNCHANGED <<poll_fds, players, client_buffers, i>>
    ELSE /\ UNCHANGED running
         /\ IF ~players[fd].pending
            THEN /\ poll_fds' = [poll_fds EXCEPT ![i + 1].pollout = FALSE]
                 /\ i' = i + 1
                 /\ UNCHANGED <<players, client_buffers>>
            ELSE \/ /\ \E more \in BOOLEAN : players' = [players EXCEPT ![fd].pending = more]
                    /\ i' = i + 1
                    /\ UNCHANGED <<poll_fds, client_buffers>>
                 \/ /\ i' = i + 1
                    /\ UNCHANGED <<poll_fds, players, client_buffers>>
                 \/ /\ disconnect_client(i)
                    /\ UNCHANGED i

\* Mutant: the write is tried before the stopping test.
check_stopping_and_write_writeFirst ==
    /\ running /\ pc = "check"
    /\ pc' = IF stopping THEN "poll" ELSE "slot"
    /\ IF "OUT" \in At(ref).revents
       THEN handle_write_to_client
       ELSE /\ i' = IF stopping THEN i ELSE i + 1
            /\ UNCHANGED <<poll_fds, players, client_buffers, running>>
    /\ UNCHANGED <<stopping, ready, ref, visited, stale>>

(* After the read: break if the game is stopping, else write if the       *)
(* `pollfd` reference shows POLLOUT, else on to the next slot.             *)
check_stopping_and_write ==
    /\ running /\ pc = "check"
    /\ pc' = IF stopping THEN "poll" ELSE "slot"
    /\ IF ~stopping /\ "OUT" \in At(ref).revents
       THEN handle_write_to_client
       ELSE /\ i' = IF stopping THEN i ELSE i + 1
            /\ UNCHANGED <<poll_fds, players, client_buffers, running>>
    /\ UNCHANGED <<stopping, ready, ref, visited, stale>>

(* After an abort the process is gone. *)
Exited ==
    /\ ~running
    /\ UNCHANGED vars

Next ==
    \/ poll
    \/ check_timers
    \/ handle_new_connection
    \/ loop_end
    \/ slot_hangup
    \/ handle_read_from_client
    \/ slot_no_input
    \/ check_stopping_and_write
    \/ Exited

Spec == Init /\ [][Next]_vars
-----------------------------------------------------------------------------
(***************************************************************************)
(* Properties.                                                             *)
(***************************************************************************)

(* The slots after the listening socket are exactly the connected players, *)
(* each once, and so are the keys of client_buffers: every disconnect      *)
(* (hang-up, read, write, hello-wait) erases the right slot, wherever the  *)
(* index is at the time.                                                   *)
PollFdsMatchPlayers ==
    /\ Slot(0).fd = LISTEN
    /\ Len(poll_fds) - 1 = Cardinality(DOMAIN players)
    /\ {Slot(k).fd : k \in Clients} = DOMAIN players
    /\ client_buffers = DOMAIN players

(* Erasing while iterating skips nobody: when the walk ends normally,      *)
(* every client that poll reported an event for and that is still in      *)
(* poll_fds has been visited.                                              *)
NoReadySlotSkipped ==
    (pc = "slot" /\ i >= Len(poll_fds)) =>
        \A k \in Clients : Slot(k).revents # {} => Slot(k).fd \in visited

(* Spec 5.2: a client whose first message is not HELLO is disconnected;    *)
(* the server goes on serving the others (an assertion failure ends the    *)
(* whole process).                                                         *)
ServerSurvivesBadClient == running

(* The client table the engine sees through the loop. *)
Table == INSTANCE ApxClientTable WITH
    conn    <- DOMAIN players,
    known   <- {fd \in DOMAIN players : players[fd].is_known},
    pending <- {fd \in DOMAIN players : players[fd].pending}

(* The loop implements the atomic client table of ApxClientTable: every    *)
(* step of the walk, whatever slot the index or the stale `pollfd`         *)
(* reference points at, is one engine operation or none; and once a PUT    *)
(* ends the game the loop breaks, reset_server runs at the next pass, and  *)
(* no client is accepted, read, written or disconnected in between.        *)
ImplementsClientTable == Table!Spec
====
