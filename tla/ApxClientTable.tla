---------------------------- MODULE ApxClientTable ----------------------------
(***************************************************************************)
(* What the APX server promises about its clients, one engine operation at *)
(* a time: the table of connected clients, which of them are known (sent  *)
(* HELLO) and which have messages waiting to be sent, and whether the game *)
(* is stopping. Every operation is atomic here; the poll loop of           *)
(* approx-server.cpp (ApxPollLoop) implements them with an index walk over *)
(* poll_fds, erasing slots as it goes.                                     *)
(*                                                                         *)
(* Once a game ends nothing changes for any client until the reset: no    *)
(* accept, no message handled, no callback run, no write, no disconnect.   *)
(***************************************************************************)
EXTENDS FiniteSets

CONSTANTS
    ClientFd     \* descriptors a client may get

VARIABLES
    conn,        \* connected clients: the keys of ServerLogic::players
    known,       \* clients that sent HELLO: PlayerInfo::is_known
    pending,     \* clients with a non-empty outbound deque
    stopping     \* ServerLogic::stopping

vars == <<conn, known, pending, stopping>>

TypeOK ==
    /\ pending \subseteq known /\ known \subseteq conn /\ conn \subseteq ClientFd
    /\ stopping \in BOOLEAN

Init ==
    /\ conn = {} /\ known = {} /\ pending = {}
    /\ stopping = FALSE

(* register_new_client: a new, unknown client with nothing to send. *)
Accept(fd) ==
    /\ ~stopping /\ fd \in ClientFd \ conn
    /\ conn' = conn \cup {fd}
    /\ UNCHANGED <<known, pending, stopping>>

(* handle_hello of an unknown client: it becomes known and gets COEFF. *)
Hello(fd) ==
    /\ ~stopping /\ fd \in conn \ known
    /\ known' = known \cup {fd}
    /\ pending' = pending \cup {fd}
    /\ UNCHANGED <<conn, stopping>>

(* A STATE or BAD_PUT callback queues a message for a known client. *)
Queue(fd) ==
    /\ ~stopping /\ fd \in known
    /\ pending' = pending \cup {fd}
    /\ UNCHANGED <<conn, known, stopping>>

(* handle_put of a known client: an early PUT queues PENALTY; a PUT that  *)
(* reaches M ends the game (game_over), queueing SCORING for every known   *)
(* client and setting stopping.                                            *)
Put(fd, early, ends) ==
    /\ ~stopping /\ fd \in known
    /\ pending' = pending \cup (IF early THEN {fd} ELSE {})
                          \cup (IF ends THEN known ELSE {})
    /\ stopping' = ends
    /\ UNCHANGED <<conn, known>>

(* handle_write_to_client sends the last message queued for the client. *)
Send(fd) ==
    /\ ~stopping /\ fd \in pending
    /\ pending' = pending \ {fd}
    /\ UNCHANGED <<conn, known, stopping>>

(* disconnect_client and handle_client_disconnect. *)
Disconnect(fd) ==
    /\ ~stopping /\ fd \in conn
    /\ conn' = conn \ {fd}
    /\ known' = known \ {fd}
    /\ pending' = pending \ {fd}
    /\ UNCHANGED stopping

(* reset_server and ServerLogic::reset: every client is closed. *)
Reset ==
    /\ stopping
    /\ conn' = {} /\ known' = {} /\ pending' = {}
    /\ stopping' = FALSE

Next ==
    \/ \E fd \in ClientFd :
          \/ Accept(fd) \/ Hello(fd) \/ Queue(fd) \/ Send(fd) \/ Disconnect(fd)
          \/ \E early, ends \in BOOLEAN : Put(fd, early, ends)
    \/ Reset

Spec == Init /\ [][Next]_vars
====
