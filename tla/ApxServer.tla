----------------------------- MODULE ApxServer -----------------------------
(***************************************************************************)
(* The game engine of the-great-approximator server (server_logic.cpp),    *)
(* driven by its single-threaded poll loop (approx-server.cpp) and its     *)
(* timer manager (server_events.cpp).                                      *)
(*                                                                         *)
(* Modelled: the player table keyed by file descriptor, with the fd reuse  *)
(* of accept (lowest free descriptor); is_known, can_put, correct_puts,    *)
(* penalty and the outbound message queue of each player;                  *)
(* total_correct_puts; the pending scheduled callbacks with the tuple they *)
(* capture; the coefficient file cursor; game over, stopping and reset.    *)
(* Abstracted: deadlines (any pending callback may be the next one due),   *)
(* the values of a PUT (only whether it is in range), approximations and   *)
(* scores, partial reads and writes (a line is received and a message      *)
(* sent whole).                                                            *)
(***************************************************************************)
EXTENDS Naturals, Sequences, SequencesExt, FiniteSets, FiniteSetsExt, Bags, BagsExt

CONSTANTS
    Fd,         \* client descriptors accept may return (numbers)
    Addr,       \* client (ip, port) pairs
    Id,         \* player ids clients may send in HELLO
    UNKNOWN,    \* the id of a player before HELLO
    M,          \* number of correct puts that ends a game
    Lines,      \* number of lines of the coefficient file
    Conn,       \* connection identities (history, not in the code)
    MaxPenalty  \* clients stop sending rejected PUTs at this penalty

ASSUME /\ Fd \subseteq Nat \ {0} /\ Fd # {}
       /\ UNKNOWN \notin Id
       /\ M \in Nat \ {0} /\ Lines \in Nat /\ MaxPenalty \in Nat /\ Conn # {}

early_put_penalty == 20   \* constants.h
bad_put_penalty   == 10   \* constants.h

VARIABLES
    players,             \* ServerLogic::players: fd -> PlayerInfo
    total_correct_puts,  \* ServerLogic::total_correct_puts
    stopping,            \* ServerLogic::stopping
    events,              \* EventManager::events, a bag of callbacks
    coeff_read,          \* lines of coeff_file consumed so far
    running              \* FALSE once the process exited on a fatal error

vars == <<players, total_correct_puts, stopping, events, coeff_read, running>>

(* An outbound message; conn is the connection whose request caused it     *)
(* (history, not in the code).                                             *)
Msg(kind, c) == [kind |-> kind, conn |-> c]
MsgKind == {"COEFF", "STATE", "PENALTY", "BAD_PUT", "SCORING"}

(* A scheduled callback with the tuple its lambda captures. The hello-wait *)
(* callback captures no id.                                                *)
Event(kind, fd, p) ==
    [kind |-> kind, fd |-> fd, addr |-> p.addr,
     id |-> IF kind = "HELLO_WAIT" THEN UNKNOWN ELSE p.id, conn |-> p.conn]

PlayerInfo ==
    [conn: Conn, addr: Addr, id: Id \cup {UNKNOWN}, is_known: BOOLEAN,
     can_put: BOOLEAN, correct_puts: Nat, penalty: Nat,
     messages: Seq([kind: MsgKind, conn: Conn])]

TypeOK ==
    /\ DOMAIN players \subseteq Fd
    /\ \A fd \in DOMAIN players : players[fd] \in PlayerInfo
    /\ total_correct_puts \in Nat
    /\ stopping \in BOOLEAN
    /\ IsABag(events)
    /\ BagToSet(events) \subseteq
           [kind: {"HELLO_WAIT", "BAD_PUT", "STATE"}, fd: Fd, addr: Addr,
            id: Id \cup {UNKNOWN}, conn: Conn]
    /\ coeff_read \in 0..Lines
    /\ running \in BOOLEAN

Init ==
    /\ players = <<>>
    /\ total_correct_puts = 0
    /\ stopping = FALSE
    /\ events = EmptyBag
    /\ coeff_read = 0
    /\ running = TRUE

(* The poll loop runs these steps only while the game is not stopping.     *)
Serving == running /\ ~stopping

(* Removes fd from a player table. *)
Without(ps, fd) == [f \in DOMAIN ps \ {fd} |-> ps[f]]

(* Connection identities held by a player, a callback or a queued message. *)
ConnsInUse ==
    {players[fd].conn : fd \in DOMAIN players}
    \cup {e.conn : e \in BagToSet(events)}
    \cup UNION {{m.conn : m \in ToSet(players[fd].messages)} : fd \in DOMAIN players}

\* Mutant: the disconnect does not take the player's puts off the total.
handle_client_disconnect_keepTotal(fd) ==
    /\ total_correct_puts' = total_correct_puts
    /\ players' = Without(players, fd)

(* ServerLogic::handle_client_disconnect: the player's correct puts no     *)
(* longer count towards the game.                                          *)
handle_client_disconnect(fd) ==
    /\ total_correct_puts' = total_correct_puts - players[fd].correct_puts
    /\ players' = Without(players, fd)

(***************************************************************************)
(* handle_new_connection: accept returns the lowest free descriptor, the   *)
(* player is registered (register_new_client) and the hello-wait callback  *)
(* is scheduled with the (fd, ip, port) it captures. A live connection's   *)
(* ip and port are its own; a closed one's may come back.                  *)
(***************************************************************************)
register_new_client(fd, a, c) ==
    [conn |-> c, addr |-> a, id |-> UNKNOWN, is_known |-> FALSE, can_put |-> FALSE,
     correct_puts |-> 0, penalty |-> 0, messages |-> <<>>]

handle_new_connection ==
    /\ Serving
    /\ Fd \ DOMAIN players # {}
    /\ Conn \ ConnsInUse # {}
    /\ \E a \in Addr \ {players[f].addr : f \in DOMAIN players} :
         LET fd == Min(Fd \ DOMAIN players)
             p  == register_new_client(fd, a, Min(Conn \ ConnsInUse))
         IN /\ players' = players @@ (fd :> p)
            /\ events' = BagAdd(events, Event("HELLO_WAIT", fd, p))
    /\ UNCHANGED <<total_correct_puts, stopping, coeff_read, running>>

(***************************************************************************)
(* A client's line, once parsed: HELLO with an id, a PUT whose point and   *)
(* value are in range or not, or anything else (unparseable, or a type the *)
(* server does not accept).                                                *)
(***************************************************************************)
Line == [type: {"HELLO"}, id: Id] \cup [type: {"PUT"}, ok: BOOLEAN] \cup [type: {"OTHER"}]

\* Mutant: a failed getline is not noticed and the cursor moves on.
handle_hello_noEof(fd, id) ==
    LET p == players[fd] IN
    /\ players' = [players EXCEPT ![fd] =
                      [p EXCEPT !.id = id, !.is_known = TRUE, !.can_put = TRUE,
                                !.messages = Append(@, Msg("COEFF", p.conn))]]
    /\ coeff_read' = coeff_read + 1
    /\ UNCHANGED running

(* ServerLogic::handle_hello for a player not yet known: the next line of  *)
(* the coefficient file becomes its COEFF message; when the file is        *)
(* exhausted createMessage fails and the server exits (fatal).             *)
handle_hello(fd, id) ==
    LET p == players[fd] IN
    \/ /\ coeff_read < Lines
       /\ players' = [players EXCEPT ![fd] =
                         [p EXCEPT !.id = id, !.is_known = TRUE, !.can_put = TRUE,
                                   !.messages = Append(@, Msg("COEFF", p.conn))]]
       /\ coeff_read' = coeff_read + 1
       /\ UNCHANGED running
    \/ /\ coeff_read = Lines
       /\ running' = FALSE
       /\ UNCHANGED <<players, coeff_read>>

\* Mutant: the game ends only past M.
game_is_over_late(total) == total > M

(* handle_put ends the game when total_correct_puts reaches M. *)
game_is_over(total) == total >= M

(* ServerLogic::game_over: one SCORING message to every known player, then *)
(* stopping.                                                               *)
send_scoring_messages(ps) ==
    [fd \in DOMAIN ps |->
        IF ps[fd].is_known
        THEN [ps[fd] EXCEPT !.messages = Append(@, Msg("SCORING", ps[fd].conn))]
        ELSE ps[fd]]

(***************************************************************************)
(* ServerLogic::handle_put for a known player. An early PUT is answered    *)
(* with PENALTY (respond_with_penalty sets can_put, which handle_put then  *)
(* clears again); an out-of-range PUT schedules the BAD_PUT callback; only *)
(* a PUT that is neither counts, schedules the STATE callback and may end  *)
(* the game.                                                               *)
(***************************************************************************)
handle_put(fd, ok) ==
    LET p       == players[fd]
        early   == ~p.can_put
        success == ~early /\ ok
        q == [p EXCEPT
                !.can_put = FALSE,
                !.penalty = @ + (IF early THEN early_put_penalty ELSE 0)
                              + (IF ok THEN 0 ELSE bad_put_penalty),
                !.messages = IF early THEN Append(@, Msg("PENALTY", p.conn)) ELSE @,
                !.correct_puts = IF success THEN @ + 1 ELSE @]
        total == IF success THEN total_correct_puts + 1 ELSE total_correct_puts
        ps    == [players EXCEPT ![fd] = q]
    IN /\ total_correct_puts' = total
       /\ events' = CASE ~ok     -> BagAdd(events, Event("BAD_PUT", fd, p))
                      [] success -> BagAdd(events, Event("STATE", fd, p))
                      [] OTHER   -> events
       /\ IF success /\ game_is_over(total)
          THEN players' = send_scoring_messages(ps) /\ stopping' = TRUE
          ELSE players' = ps /\ UNCHANGED stopping

(***************************************************************************)
(* handle_read_from_client, one received line: handle_client_message, and  *)
(* the disconnect of a client that is still not known afterwards. Lines    *)
(* the server only logs (HELLO or another type from a known player) change *)
(* nothing and are not steps of the model. A client stops sending PUTs     *)
(* that would be rejected once its penalty reaches MaxPenalty.             *)
(***************************************************************************)
Rejected(p, line) == line.type = "PUT" /\ (~p.can_put \/ ~line.ok)

handle_read_from_client(fd, line) ==
    LET p == players[fd] IN
    /\ Serving
    /\ fd \in DOMAIN players
    /\ Rejected(p, line) => p.penalty < MaxPenalty
    /\ \/ /\ p.is_known /\ line.type = "PUT"
          /\ handle_put(fd, line.ok)
          /\ UNCHANGED <<coeff_read, running>>
       \/ /\ ~p.is_known /\ line.type = "HELLO"
          /\ handle_hello(fd, line.id)
          /\ UNCHANGED <<total_correct_puts, stopping, events>>
       \/ /\ ~p.is_known /\ line.type # "HELLO"
          /\ handle_client_disconnect(fd)
          /\ UNCHANGED <<stopping, events, coeff_read, running>>

(***************************************************************************)
(* EventManager::check_timers runs a due callback. Each callback first     *)
(* checks with validate_client that the descriptor still belongs to a      *)
(* client with the captured ip and port (and, but for hello-wait, id).     *)
(***************************************************************************)
validate_client(e) ==
    e.fd \in DOMAIN players /\ players[e.fd].addr = e.addr

\* Mutant: the BAD_PUT callback queues the reply but leaves can_put alone.
run_callback_badPutKeepsLock(e) ==
    LET p == players[e.fd] IN
    CASE e.kind = "HELLO_WAIT" ->
           IF validate_client(e) /\ ~p.is_known
           THEN handle_client_disconnect(e.fd)
           ELSE UNCHANGED <<players, total_correct_puts>>
      [] OTHER ->
           /\ IF validate_client(e) /\ p.id = e.id
              THEN players' = [players EXCEPT ![e.fd] =
                                 [p EXCEPT !.can_put = (e.kind = "STATE"),
                                           !.messages = Append(@, Msg(e.kind, e.conn))]]
              ELSE UNCHANGED players
           /\ UNCHANGED total_correct_puts

run_callback(e) ==
    LET p == players[e.fd] IN
    CASE e.kind = "HELLO_WAIT" ->
           IF validate_client(e) /\ ~p.is_known
           THEN handle_client_disconnect(e.fd)
           ELSE UNCHANGED <<players, total_correct_puts>>
      [] OTHER ->
           /\ IF validate_client(e) /\ p.id = e.id
              THEN players' = [players EXCEPT ![e.fd] =
                                 [p EXCEPT !.can_put = TRUE,
                                           !.messages = Append(@, Msg(e.kind, e.conn))]]
              ELSE UNCHANGED players
           /\ UNCHANGED total_correct_puts

check_timers ==
    /\ Serving
    /\ \E e \in BagToSet(events) :
         /\ events' = BagRemove(events, e)
         /\ run_callback(e)
    /\ UNCHANGED <<stopping, coeff_read, running>>

(* handle_write_to_client: the next queued message is sent. *)
handle_write_to_client(fd) ==
    /\ Serving
    /\ fd \in DOMAIN players
    /\ players[fd].messages # <<>>
    /\ players' = [players EXCEPT ![fd].messages = Tail(@)]
    /\ UNCHANGED <<total_correct_puts, stopping, events, coeff_read, running>>

(* disconnect_client on POLLHUP, or when recv or send returns <= 0 (a      *)
(* closed peer, or any error, EAGAIN included).                            *)
disconnect_client(fd) ==
    /\ Serving
    /\ fd \in DOMAIN players
    /\ handle_client_disconnect(fd)
    /\ UNCHANGED <<stopping, events, coeff_read, running>>

(* Main loop, stopping: reset_server drains what it can and closes every   *)
(* client, then ServerLogic::reset drops callbacks and players. The        *)
(* coefficient file is not rewound.                                        *)
reset ==
    /\ running /\ stopping
    /\ players' = <<>>
    /\ events' = EmptyBag
    /\ total_correct_puts' = 0
    /\ stopping' = FALSE
    /\ UNCHANGED <<coeff_read, running>>

(* After a fatal error the process is gone. *)
Exited ==
    /\ ~running
    /\ UNCHANGED vars

Next ==
    \/ handle_new_connection
    \/ \E fd \in Fd, line \in Line : handle_read_from_client(fd, line)
    \/ check_timers
    \/ \E fd \in Fd : handle_write_to_client(fd)
    \/ \E fd \in Fd : disconnect_client(fd)
    \/ reset
    \/ Exited

Spec == Init /\ [][Next]_vars
-----------------------------------------------------------------------------
(***************************************************************************)
(* Properties.                                                             *)
(***************************************************************************)

(* total_correct_puts, kept incrementally by handle_put, handle_client_    *)
(* disconnect and reset, equals the correct puts of the connected players, *)
(* whatever the interleaving of puts, disconnects, fd reuse and games.    *)
TotalIsSum ==
    total_correct_puts = MapThenSumSet(LAMBDA fd : players[fd].correct_puts, DOMAIN players)

(* A game never counts more than M correct puts, and a stopping server has *)
(* exactly M: handle_put ends the game at M and no line is handled after.  *)
GameEndsAtM ==
    /\ total_correct_puts <= M
    /\ stopping => total_correct_puts = M

(* No player is locked out: a known player that may not put while the     *)
(* game runs has a pending STATE or BAD_PUT callback whose captured tuple  *)
(* still validates, so check_timers will set can_put again. This covers    *)
(* the early PUT, which clears can_put without scheduling anything.        *)
NoLockout ==
    \A fd \in DOMAIN players :
        LET p == players[fd] IN
        (running /\ ~stopping /\ p.is_known /\ ~p.can_put) =>
            \E e \in BagToSet(events) :
                /\ e.kind \in {"BAD_PUT", "STATE"}
                /\ e.fd = fd /\ e.addr = p.addr /\ e.id = p.id
====
