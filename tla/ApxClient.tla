----------------------------- MODULE ApxClient -----------------------------
(***************************************************************************)
(* The-great-approximator client (client_logic.cpp, ts_queue.h) composed   *)
(* with the server's side of its one connection (server_logic.cpp,         *)
(* approx-server.cpp).                                                     *)
(*                                                                         *)
(* Client threads: the main thread (send_hello_message), the strategy      *)
(* thread (manual or auto), network_sender, network_receiver and           *)
(* message_processor. They share outgoing_messages, incoming_messages,     *)
(* game_over and puts_without_answer. The log printer only prints and is   *)
(* left out.                                                               *)
(*                                                                         *)
(* The server side keeps what this connection sees of ServerLogic: the     *)
(* player's is_known, can_put and outbound deque, its pending STATE and    *)
(* BAD_PUT callbacks, the hello-wait callback, total_correct_puts (other   *)
(* players' puts count too) and stopping, then reset_server's best-effort  *)
(* drain and close.                                                        *)
(*                                                                         *)
(* A message is its type; a PUT also says whether its point and value are *)
(* in range. The two directions of TCP are FIFO sequences. The server's    *)
(* COEFF and STATE lines always parse, so the receiver's fatal branch for  *)
(* a malformed first line is never taken and is left out.                  *)
(***************************************************************************)
EXTENDS Naturals, Sequences, SequencesExt, Bags, BagsExt

CONSTANTS
    AutoStrategy,  \* the values of is_auto_strategy (option -a) to explore
    M,             \* correct puts, over all players, that end a game
    MaxPuts        \* PUT messages the strategy thread produces at most

ASSUME AutoStrategy \subseteq BOOLEAN /\ AutoStrategy # {}
       /\ M \in Nat \ {0} /\ MaxPuts \in Nat

VARIABLES
    is_auto_strategy,     \* ClientLogic::is_auto_strategy
    hello_sent,           \* the main thread has run send_hello_message
    outgoing_messages,    \* ClientLogic::outgoing_messages
    incoming_messages,    \* ClientLogic::incoming_messages
    game_over,            \* ClientLogic::game_over
    puts_without_answer,  \* ClientLogic::puts_without_answer
    K_set,                \* ClientLogic::K_set
    is_first_message,     \* message_processor's is_first_message
    scoring_received,     \* message_processor's scoring_received
    processor_pc,         \* "top": at the game_over check; "wait": in try_pop_for;
                          \* "done": the loop has ended with SCORING processed
    sender_pc,            \* network_sender, likewise ("done": the loop has ended)
    receiver_pc,          \* network_receiver: "wait" is inside recv (200 ms timeout)
    client,               \* "running", "exited" (return 0) or "fatal" (exit 1)
    puts_made,            \* PUTs the strategy thread produced (bounded)
    to_server,            \* bytes written by the client, not yet read by the server
    to_client,            \* bytes sent by the server, not yet received by the client
    closed,               \* the server closed the socket
    reset_by_peer,        \* it closed it with unread data: the client gets a RST
    is_known,             \* PlayerInfo::is_known
    can_put,              \* PlayerInfo::can_put
    messages,             \* PlayerInfo::messages, the server's outbound deque
    events,               \* this player's pending STATE and BAD_PUT callbacks
    hello_wait,           \* the hello-wait callback is pending
    total_correct_puts,   \* ServerLogic::total_correct_puts
    stopping              \* ServerLogic::stopping

client_vars == <<is_auto_strategy, hello_sent, outgoing_messages, incoming_messages,
                 game_over, puts_without_answer, K_set, is_first_message,
                 scoring_received, processor_pc, sender_pc, receiver_pc, client,
                 puts_made>>
wire_vars   == <<to_server, to_client, closed, reset_by_peer>>
server_vars == <<is_known, can_put, messages, events, hello_wait,
                 total_correct_puts, stopping>>
vars == <<client_vars, wire_vars, server_vars>>

ClientMsg == {"HELLO", "PUT_OK", "PUT_BAD"}
ServerMsg == {"COEFF", "STATE", "BAD_PUT", "PENALTY", "SCORING"}

TypeOK ==
    /\ is_auto_strategy \in BOOLEAN /\ hello_sent \in BOOLEAN
    /\ outgoing_messages \in Seq(ClientMsg) /\ to_server \in Seq(ClientMsg)
    /\ incoming_messages \in Seq(ServerMsg) /\ to_client \in Seq(ServerMsg)
    /\ messages \in Seq(ServerMsg)
    /\ game_over \in BOOLEAN /\ puts_without_answer \in Nat /\ K_set \in BOOLEAN
    /\ is_first_message \in BOOLEAN /\ scoring_received \in BOOLEAN
    /\ processor_pc \in {"top", "wait", "done"} /\ sender_pc \in {"top", "wait", "done"}
    /\ receiver_pc \in {"top", "wait", "done"}
    /\ client \in {"running", "exited", "fatal"}
    /\ puts_made \in 0..MaxPuts
    /\ closed \in BOOLEAN /\ reset_by_peer \in BOOLEAN
    /\ is_known \in BOOLEAN /\ can_put \in BOOLEAN
    /\ IsABag(events) /\ BagToSet(events) \subseteq {"STATE", "BAD_PUT"}
    /\ hello_wait \in BOOLEAN
    /\ total_correct_puts \in 0..M /\ stopping \in BOOLEAN

\* Mutant: the counter starts at 0, as if COEFF had already been answered.
(* "initialized to 1 to wait for coefficients before putting" *)
initial_puts_without_answer == 1

(* The ClientLogic constructor (puts_without_answer starts at 1, to wait   *)
(* for COEFF) and the server's register_new_client with its hello-wait     *)
(* callback: the connection is established when the threads start.        *)
Init ==
    /\ is_auto_strategy \in AutoStrategy
    /\ hello_sent = FALSE
    /\ outgoing_messages = <<>> /\ incoming_messages = <<>>
    /\ game_over = FALSE
    /\ puts_without_answer = initial_puts_without_answer
    /\ K_set = FALSE
    /\ is_first_message = TRUE /\ scoring_received = FALSE
    /\ processor_pc = "top" /\ sender_pc = "top" /\ receiver_pc = "top"
    /\ client = "running" /\ puts_made = 0
    /\ to_server = <<>> /\ to_client = <<>>
    /\ closed = FALSE /\ reset_by_peer = FALSE
    /\ is_known = FALSE /\ can_put = FALSE /\ messages = <<>>
    /\ events = EmptyBag /\ hello_wait = TRUE
    /\ total_correct_puts = 0 /\ stopping = FALSE

(* A thread runs only while the process lives. *)
Alive == client = "running"
-----------------------------------------------------------------------------
(***************************************************************************)
(* Client threads.                                                         *)
(***************************************************************************)

(* decrement_puts_without_answer: under the mutex, only a positive count   *)
(* is decremented (the waiting strategy is notified at 0).                 *)
decrement_puts_without_answer(n) == IF n > 0 THEN n - 1 ELSE n

(* start_threads_and_send_hello: the strategy, receiver, sender and        *)
(* processor threads are already running when the main thread queues       *)
(* HELLO.                                                                  *)
send_hello_message ==
    /\ Alive /\ ~hello_sent
    /\ hello_sent' = TRUE
    /\ outgoing_messages' = Append(outgoing_messages, "HELLO")
    /\ UNCHANGED <<is_auto_strategy, incoming_messages, game_over, puts_without_answer,
                   K_set, is_first_message, scoring_received,
                   processor_pc, sender_pc, receiver_pc, client,
                   puts_made, wire_vars, server_vars>>

(* manual_strategy: a stdin line "point value" that parses is queued as a  *)
(* PUT, whatever the state of the game; ok says whether it is in range.    *)
manual_strategy(ok) ==
    /\ Alive /\ ~is_auto_strategy /\ ~game_over
    /\ puts_made < MaxPuts
    /\ puts_made' = puts_made + 1
    /\ outgoing_messages' = Append(outgoing_messages, IF ok THEN "PUT_OK" ELSE "PUT_BAD")
    /\ UNCHANGED <<is_auto_strategy, hello_sent, incoming_messages, game_over,
                   puts_without_answer, K_set, is_first_message, scoring_received,
                   processor_pc, sender_pc, receiver_pc, client,
                   wire_vars, server_vars>>

(* auto_strategy: wait_for_puts returns true once puts_without_answer is   *)
(* 0; then increment_puts_without_answer, and the best put, which is       *)
(* clamped to [-5, 5] at a point the client knows to be in range.          *)
auto_strategy ==
    /\ Alive /\ is_auto_strategy /\ ~game_over
    /\ puts_made < MaxPuts
    /\ puts_without_answer = 0
    /\ puts_without_answer' = puts_without_answer + 1
    /\ puts_made' = puts_made + 1
    /\ outgoing_messages' = Append(outgoing_messages, "PUT_OK")
    /\ UNCHANGED <<is_auto_strategy, hello_sent, incoming_messages, game_over, K_set,
                   is_first_message, scoring_received, processor_pc,
                   sender_pc, receiver_pc, client,
                   wire_vars, server_vars>>

(* network_sender's loop tests game_over, then waits in try_pop_for       *)
(* (200 ms); a message popped there is written even if game_over was set   *)
(* meanwhile, and join_threads waits for that write.                       *)
network_sender_loop ==
    /\ Alive /\ sender_pc = "top"
    /\ sender_pc' = IF game_over THEN "done" ELSE "wait"
    /\ UNCHANGED <<is_auto_strategy, hello_sent, outgoing_messages, incoming_messages,
                   game_over, puts_without_answer, K_set, is_first_message,
                   scoring_received, processor_pc, receiver_pc,
                   client, puts_made, wire_vars,
                   server_vars>>

network_sender_timeout ==
    /\ Alive /\ sender_pc = "wait" /\ outgoing_messages = <<>>
    /\ sender_pc' = "top"
    /\ UNCHANGED <<is_auto_strategy, hello_sent, outgoing_messages, incoming_messages,
                   game_over, puts_without_answer, K_set, is_first_message,
                   scoring_received, processor_pc, receiver_pc,
                   client, puts_made, wire_vars,
                   server_vars>>

(* network_sender: the popped message is written. Once the server has     *)
(* closed the socket a write either goes nowhere or raises SIGPIPE, which  *)
(* nothing handles, and the process dies.                                  *)
network_sender ==
    /\ Alive /\ sender_pc = "wait" /\ outgoing_messages # <<>>
    /\ outgoing_messages' = Tail(outgoing_messages)
    /\ sender_pc' = "top"
    /\ \/ /\ ~closed
          /\ to_server' = Append(to_server, Head(outgoing_messages))
          /\ UNCHANGED client
       \/ /\ closed
          /\ client' \in {"running", "fatal"}
          /\ UNCHANGED to_server
    /\ UNCHANGED <<is_auto_strategy, hello_sent, incoming_messages, game_over,
                   puts_without_answer, K_set, is_first_message, scoring_received,
                   processor_pc, receiver_pc, puts_made, to_client,
                   closed, reset_by_peer,
                   server_vars>>

(* network_receiver's loop tests game_over, then blocks in recv for at    *)
(* most 200 ms (set_receive_timeout); what recv returns is handled even if *)
(* game_over was set meanwhile.                                            *)
network_receiver_loop ==
    /\ Alive /\ receiver_pc = "top"
    /\ receiver_pc' = IF game_over THEN "done" ELSE "wait"
    /\ UNCHANGED <<is_auto_strategy, hello_sent, outgoing_messages, incoming_messages,
                   game_over, puts_without_answer, K_set, is_first_message,
                   scoring_received, processor_pc, sender_pc, client, puts_made,
                   wire_vars, server_vars>>

\* Mutant: recv returning 0 is taken for a timeout, not end of game.
network_receiver_ignoreEof ==
    /\ Alive /\ receiver_pc = "wait"
    /\ receiver_pc' = "top"
    /\ \/ /\ to_client # <<>>
          /\ incoming_messages' = Append(incoming_messages, Head(to_client))
          /\ to_client' = Tail(to_client)
          /\ UNCHANGED <<game_over, client>>
       \/ /\ reset_by_peer
          /\ client' = "fatal"
          /\ UNCHANGED <<incoming_messages, to_client, game_over>>
       \/ /\ ~reset_by_peer /\ to_client = <<>>
          /\ UNCHANGED <<incoming_messages, to_client, game_over, client>>
    /\ UNCHANGED <<is_auto_strategy, hello_sent, outgoing_messages, puts_without_answer,
                   K_set, is_first_message, scoring_received, processor_pc, sender_pc,
                   puts_made, to_server, closed, reset_by_peer, server_vars>>

(* network_receiver: a received line is pushed to incoming_messages;      *)
(* recv returning 0 sets game_over; a connection reset is a syserr; a      *)
(* timeout (EAGAIN) goes round the loop.                                   *)
network_receiver ==
    /\ Alive /\ receiver_pc = "wait"
    /\ receiver_pc' = "top"
    /\ \/ /\ to_client # <<>>
          /\ incoming_messages' = Append(incoming_messages, Head(to_client))
          /\ to_client' = Tail(to_client)
          /\ UNCHANGED <<game_over, client>>
       \/ /\ closed /\ ~reset_by_peer /\ to_client = <<>>
          /\ game_over' = TRUE
          /\ UNCHANGED <<incoming_messages, to_client, client>>
       \/ /\ reset_by_peer
          /\ client' = "fatal"
          /\ UNCHANGED <<incoming_messages, to_client, game_over>>
       \/ /\ ~closed /\ to_client = <<>>
          /\ UNCHANGED <<incoming_messages, to_client, game_over, client>>
    /\ UNCHANGED <<is_auto_strategy, hello_sent, outgoing_messages, puts_without_answer,
                   K_set, is_first_message, scoring_received, processor_pc, sender_pc,
                   puts_made, to_server, closed, reset_by_peer, server_vars>>
(***************************************************************************)
(* message_processor. Its loop tests game_over, then waits in try_pop_for  *)
(* (200 ms); a message popped there is processed even if game_over was set *)
(* meanwhile. When the loop ends the process exits 1 (fatal) unless       *)
(* SCORING was processed; else the thread returns to join_threads.          *)
(***************************************************************************)
processor_exit ==
    IF scoring_received
    THEN processor_pc' = "done" /\ UNCHANGED client
    ELSE client' = "fatal" /\ UNCHANGED processor_pc

message_processor_loop ==
    /\ Alive /\ processor_pc = "top"
    /\ IF game_over
       THEN processor_exit
       ELSE /\ processor_pc' = "wait"
            /\ UNCHANGED client
    /\ UNCHANGED <<is_auto_strategy, hello_sent, outgoing_messages, incoming_messages,
                   game_over, puts_without_answer, K_set, is_first_message,
                   scoring_received, sender_pc, receiver_pc,
                   puts_made, wire_vars, server_vars>>

(* try_pop_for timed out on an empty queue. *)
message_processor_timeout ==
    /\ Alive /\ processor_pc = "wait" /\ incoming_messages = <<>>
    /\ processor_pc' = "top"
    /\ UNCHANGED <<is_auto_strategy, hello_sent, outgoing_messages, incoming_messages,
                   game_over, puts_without_answer, K_set, is_first_message,
                   scoring_received, sender_pc, receiver_pc, client,
                   puts_made, wire_vars,
                   server_vars>>

(* The handlers, as their effect on puts_without_answer, K_set, game_over, *)
(* scoring_received and client. processCoeffMessage is only reached for    *)
(* the first message; a first message that is not COEFF is fatal; a COEFF *)
(* later falls in the default case and is only logged.                    *)
processCoeffMessage ==
    /\ puts_without_answer' = decrement_puts_without_answer(puts_without_answer)
    /\ UNCHANGED <<K_set, game_over, scoring_received, client>>

processBadPutMessage ==
    /\ puts_without_answer' = IF is_auto_strategy
                              THEN decrement_puts_without_answer(puts_without_answer)
                              ELSE puts_without_answer
    /\ UNCHANGED <<K_set, game_over, scoring_received, client>>

\* Mutant: the first STATE (the one that sets K) is not counted back.
processStateMessage_firstNoDecrement ==
    /\ K_set' = (K_set \/ is_auto_strategy)
    /\ puts_without_answer' = IF is_auto_strategy /\ K_set
                              THEN decrement_puts_without_answer(puts_without_answer)
                              ELSE puts_without_answer
    /\ UNCHANGED <<game_over, scoring_received, client>>

processStateMessage ==
    /\ K_set' = (K_set \/ is_auto_strategy)
    /\ puts_without_answer' = IF is_auto_strategy
                              THEN decrement_puts_without_answer(puts_without_answer)
                              ELSE puts_without_answer
    /\ UNCHANGED <<game_over, scoring_received, client>>

processScoringMessage ==
    /\ game_over' = TRUE /\ scoring_received' = TRUE
    /\ UNCHANGED <<puts_without_answer, K_set, client>>

Logged == UNCHANGED <<puts_without_answer, K_set, game_over, scoring_received, client>>

message_processor(msg) ==
    IF is_first_message
    THEN IF msg = "COEFF" THEN processCoeffMessage
         ELSE client' = "fatal" /\ UNCHANGED <<puts_without_answer, K_set, game_over,
                                               scoring_received>>
    ELSE CASE msg = "BAD_PUT" -> processBadPutMessage
           [] msg = "STATE"   -> processStateMessage
           [] msg = "SCORING" -> processScoringMessage
           [] OTHER           -> Logged

message_processor_pop ==
    /\ Alive /\ processor_pc = "wait" /\ incoming_messages # <<>>
    /\ incoming_messages' = Tail(incoming_messages)
    /\ processor_pc' = "top"
    /\ is_first_message' = FALSE
    /\ message_processor(Head(incoming_messages))
    /\ UNCHANGED <<is_auto_strategy, hello_sent, outgoing_messages, sender_pc, receiver_pc,
                   puts_made, wire_vars, server_vars>>
-----------------------------------------------------------------------------
(***************************************************************************)
(* The server's side of the connection. Its poll loop resets when          *)
(* stopping, else runs due callbacks, reads and writes; none of these run  *)
(* once it has closed this client's socket.                                *)
(***************************************************************************)
Serving == ~closed /\ ~stopping

(* close() of the socket: with unread bytes in the receive buffer the      *)
(* kernel answers with a RST instead of a FIN. Lines already recv'd into   *)
(* client_buffers do not count, so with lines left either may happen.      *)
close_socket(unread) ==
    /\ closed' = TRUE
    /\ reset_by_peer' \in IF unread # <<>> THEN BOOLEAN ELSE {FALSE}

(* ServerLogic::handle_hello for a player not yet known: COEFF is queued.  *)
(* The coefficient file is assumed to have a line (ApxServer models EOF).  *)
handle_hello ==
    /\ is_known' = TRUE /\ can_put' = TRUE
    /\ messages' = Append(messages, "COEFF")
    /\ UNCHANGED <<events, total_correct_puts, stopping>>

\* Mutant: the game ends only past M.
game_over_at_late(total, msgs) ==
    IF total > M
    THEN /\ messages' = IF is_known THEN Append(msgs, "SCORING") ELSE msgs
         /\ stopping' = TRUE
    ELSE /\ messages' = msgs
         /\ UNCHANGED stopping

(* ServerLogic::game_over (send_scoring_messages, stopping) when the total *)
(* reaches M, given the queue the player had after handle_put.             *)
game_over_at(total, msgs) ==
    IF total >= M
    THEN /\ messages' = IF is_known THEN Append(msgs, "SCORING") ELSE msgs
         /\ stopping' = TRUE
    ELSE /\ messages' = msgs
         /\ UNCHANGED stopping

(* ServerLogic::handle_put for the known player: PENALTY if early (can_put *)
(* cleared all the same), the BAD_PUT callback if out of range, else the   *)
(* correct put, its STATE callback and perhaps the end of the game.        *)
handle_put(ok) ==
    LET early   == ~can_put
        success == ~early /\ ok
        total   == IF success THEN total_correct_puts + 1 ELSE total_correct_puts
    IN /\ can_put' = FALSE
       /\ events' = CASE ~ok     -> BagAdd(events, "BAD_PUT")
                      [] success -> BagAdd(events, "STATE")
                      [] OTHER   -> events
       /\ total_correct_puts' = total
       /\ game_over_at(total, IF early THEN Append(messages, "PENALTY") ELSE messages)
       /\ UNCHANGED <<is_known, hello_wait>>

(* handle_read_from_client, one line: handle_client_message, then the      *)
(* disconnect of a client that is still not known. A HELLO from a known    *)
(* player is only logged.                                                  *)
handle_read_from_client ==
    /\ Serving /\ to_server # <<>>
    /\ LET line == Head(to_server) IN
       /\ to_server' = Tail(to_server)
       /\ \/ /\ line = "HELLO" /\ ~is_known
             /\ handle_hello
             /\ UNCHANGED <<closed, reset_by_peer, hello_wait>>
          \/ /\ line = "HELLO" /\ is_known
             /\ UNCHANGED <<server_vars, closed, reset_by_peer>>
          \/ /\ line # "HELLO" /\ is_known
             /\ handle_put(line = "PUT_OK")
             /\ UNCHANGED <<closed, reset_by_peer>>
          \/ /\ line # "HELLO" /\ ~is_known
             /\ close_socket(Tail(to_server))
             /\ UNCHANGED server_vars
    /\ UNCHANGED <<client_vars, to_client>>

(* A pending STATE or BAD_PUT callback of this player comes due: it        *)
(* validates (same fd, ip, port and id), queues its message and sets       *)
(* can_put.                                                                *)
check_timers ==
    /\ Serving
    /\ \E e \in BagToSet(events) :
         /\ events' = BagRemove(events, e)
         /\ messages' = Append(messages, e)
         /\ can_put' = TRUE
    /\ UNCHANGED <<is_known, hello_wait, total_correct_puts, stopping,
                   client_vars, wire_vars>>

(* The hello-wait callback comes due 3 s after accept: a client that is    *)
(* still not known is disconnected.                                        *)
hello_wait_callback ==
    /\ Serving /\ hello_wait
    /\ hello_wait' = FALSE
    /\ IF ~is_known THEN close_socket(to_server) ELSE UNCHANGED <<closed, reset_by_peer>>
    /\ UNCHANGED <<is_known, can_put, messages, events, total_correct_puts, stopping,
                   client_vars, to_server, to_client>>

(* handle_write_to_client: the next queued message is sent. *)
handle_write_to_client ==
    /\ Serving /\ messages # <<>>
    /\ to_client' = Append(to_client, Head(messages))
    /\ messages' = Tail(messages)
    /\ UNCHANGED <<is_known, can_put, events, hello_wait, total_correct_puts, stopping,
                   client_vars, to_server, closed, reset_by_peer>>

(* Another player's correct put (handle_put on its descriptor) counts      *)
(* towards M and may end the game.                                         *)
other_player_put ==
    /\ Serving
    /\ total_correct_puts' = total_correct_puts + 1
    /\ game_over_at(total_correct_puts + 1, messages)
    /\ UNCHANGED <<is_known, can_put, events, hello_wait, client_vars, wire_vars>>

(* reset_server: the queued messages are sent until one send is not       *)
(* complete, every client socket is closed, and ServerLogic::reset drops   *)
(* the callbacks and the players.                                          *)
reset_server ==
    /\ ~closed /\ stopping
    /\ \E k \in 0..Len(messages) : to_client' = to_client \o SubSeq(messages, 1, k)
    /\ close_socket(to_server)
    /\ messages' = <<>> /\ events' = EmptyBag /\ hello_wait' = FALSE
    /\ is_known' = FALSE /\ can_put' = FALSE
    /\ total_correct_puts' = 0 /\ stopping' = FALSE
    /\ UNCHANGED <<client_vars, to_server>>

(* main: join_threads returns once the processor, the sender and the      *)
(* receiver have left their loops (the strategy thread leaves its loop at  *)
(* the next game_over test), and the process returns 0.                    *)
join_threads ==
    /\ Alive /\ processor_pc = "done" /\ sender_pc = "done" /\ receiver_pc = "done"
    /\ client' = "exited"
    /\ UNCHANGED <<is_auto_strategy, hello_sent, outgoing_messages, incoming_messages,
                   game_over, puts_without_answer, K_set, is_first_message,
                   scoring_received, processor_pc, sender_pc,
                   receiver_pc, puts_made, wire_vars,
                   server_vars>>

(* Once the client process has exited nothing of it changes. *)
Exited ==
    /\ ~Alive
    /\ UNCHANGED vars

Next ==
    \/ send_hello_message
    \/ \E ok \in BOOLEAN : manual_strategy(ok)
    \/ auto_strategy
    \/ network_sender_loop
    \/ network_sender_timeout
    \/ network_sender
    \/ network_receiver_loop
    \/ network_receiver
    \/ message_processor_loop
    \/ message_processor_timeout
    \/ message_processor_pop
    \/ handle_read_from_client
    \/ check_timers
    \/ hello_wait_callback
    \/ handle_write_to_client
    \/ other_player_put
    \/ reset_server
    \/ join_threads
    \/ Exited

Spec == Init /\ [][Next]_vars

(* The threads loop on 200 ms timeouts and the server's poll loop on      *)
(* 100 ms, so each keeps taking its steps: weak fairness for every thread  *)
(* and for each step of the server's loop. The hello-wait timer and the    *)
(* other players are not obliged to act.                                   *)
Fairness ==
    /\ WF_vars(send_hello_message)
    /\ WF_vars(auto_strategy)
    /\ WF_vars(network_sender_loop)
    /\ WF_vars(network_sender_timeout)
    /\ WF_vars(network_sender)
    /\ WF_vars(network_receiver_loop)
    /\ WF_vars(network_receiver)
    /\ WF_vars(message_processor_loop)
    /\ WF_vars(message_processor_timeout)
    /\ WF_vars(message_processor_pop)
    /\ WF_vars(handle_read_from_client)
    /\ WF_vars(check_timers)
    /\ WF_vars(handle_write_to_client)
    /\ WF_vars(reset_server)
    /\ WF_vars(join_threads)

FairSpec == Spec /\ Fairness
-----------------------------------------------------------------------------
(***************************************************************************)
(* Properties.                                                             *)
(***************************************************************************)

(* What the client has queued or written and the server has not read yet, *)
(* oldest first.                                                           *)
ToServer == to_server \o outgoing_messages

IsPut(x)    == x \in {"PUT_OK", "PUT_BAD"}
IsAnswer(x) == x \in {"STATE", "BAD_PUT"}
CountOf(s, Test(_)) == Len(SelectSeq(s, Test))

(* Spec 4.5, "first accepted message must be HELLO": while the connection  *)
(* is open, every PUT on its way to the server follows a HELLO, or the     *)
(* server already knows the player. The strategy thread is started before  *)
(* the main thread queues HELLO (start_threads_and_send_hello).            *)
HelloBeforePut ==
    ~closed =>
        \A i \in 1..Len(ToServer) :
            IsPut(ToServer[i]) => is_known \/ \E j \in 1..i-1 : ToServer[j] = "HELLO"

(* The auto strategy's puts_without_answer is exactly the number of its    *)
(* answers still to come: the PUTs not yet read by the server, the pending *)
(* STATE and BAD_PUT callbacks, the answers queued, in flight or waiting   *)
(* in incoming_messages, plus 1 until COEFF is processed. It is kept by    *)
(* three threads: the strategy increments it, the processor decrements it  *)
(* on COEFF, BAD_PUT and STATE, and wait_for_puts reads it.                *)
CreditMatchesOutstanding ==
    (is_auto_strategy /\ Alive /\ ~closed) =>
        puts_without_answer =
            CountOf(ToServer, IsPut) + BagCardinality(events)
            + CountOf(messages, IsAnswer) + CountOf(to_client, IsAnswer)
            + CountOf(incoming_messages, IsAnswer)
            + (IF is_first_message THEN 1 ELSE 0)

(* Spec 4.6, "absence of SCORING before disconnect is a fatal error": a    *)
(* client that has received SCORING (it is in incoming_messages, or        *)
(* message_processor has processed it) does not exit 1. The receiver sets  *)
(* game_over on EOF and the processor tests game_over before it pops the   *)
(* next message; the sender may still write a queued PUT to the closed     *)
(* socket and die of SIGPIPE; a reset connection makes recv fail.          *)
ScoredClientExitsCleanly ==
    client = "fatal" =>
        /\ ~scoring_received
        /\ \A i \in 1..Len(incoming_messages) : incoming_messages[i] # "SCORING"

(* An auto client's process ends: the game reaches M, SCORING is sent,     *)
(* reset_server closes the socket and the threads see game_over. It needs  *)
(* every answer to be counted back in puts_without_answer, or              *)
(* wait_for_puts waits forever. A manual client waits for its user.        *)
AutoClientTerminates == is_auto_strategy => <>(~Alive)
====
