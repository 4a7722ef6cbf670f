----------------------------- MODULE ChatServer -----------------------------
(***************************************************************************)
(* select/chat-server/server.c: the main thread that accepts, one thread   *)
(* per connection, the table of clients behind its mutex, and SIGINT, with *)
(* the clients of client.c at the other end of the sockets.  A connection  *)
(* stands for its address; what is said is counted, not spelled out.       *)
(***************************************************************************)
EXTENDS Integers, FiniteSets, FiniteSetsExt, Functions

CONSTANTS Client,       \* the connections that are made, each once
          MAX_CLIENTS,  \* size of the table
          Cap,          \* bound: messages a socket buffers for its reader
          Talker,       \* the clients that say something
          MaxMsg,       \* bound: messages each of them sends
          QuitEarly,    \* clients may disconnect before they are welcomed
          Sigint,       \* "never", "unlocked" (it interrupts a thread that does
                        \* not hold the mutex) or "any"
          Nobody

ASSUME TableAssumption == MAX_CLIENTS \in Nat \ {0} /\ Cap \in Nat \ {0}
ASSUME MsgAssumption == Talker \subseteq Client /\ MaxMsg \in Nat /\ QuitEarly \in BOOLEAN
ASSUME ClientAssumption == IsFiniteSet(Client) /\ Nobody \notin Client \cup {"main"}
ASSUME SigintAssumption == Sigint \in {"never", "unlocked", "any"}

Slot == 1..MAX_CLIENTS
Fd == 1..Cardinality(Client)    \* client sockets, numbered from 1
Free == [sockfd |-> 0, addr |-> Nobody]

VARIABLES
    clients, client_count, clients_mutex,
    main,       \* where main is, and for which connection
    new_socket,
    thread,     \* where handle_client is, for each connection
    sockfd, client, \* its two arguments; client is an index into the table
    name,       \* the address in the message it is about to broadcast
    todo,       \* the slots its broadcast has still to visit
    fds,        \* the kernel's table: the connection behind each open socket
    inside,     \* the connection on which a thread's read or send was already
                \* waiting when its socket was closed by another thread
    peer,       \* the client's end: "off", "open", "closed", "reset"
    unread,     \* messages the server has sent and the client not yet read
    said, heard,    \* messages sent by each client; read by its thread
    victim,     \* the thread interrupted by SIGINT
    handler,    \* how far cleanup has come: "idle", "closing" or "unlocked"
    closing,    \* the slots whose sockets cleanup has still to close
    server      \* "up", "exited" or "killed"

tableVars == <<clients, client_count>>
mainVars == <<main, new_socket>>
threadVars == <<thread, sockfd, client, name, todo>>
fdVars == <<fds, inside>>
netVars == <<peer, unread, said, heard>>
cleanupVars == <<victim, handler, closing>>
vars == <<tableVars, clients_mutex, mainVars, threadVars, fdVars, netVars, cleanupVars, server>>

Init ==
    /\ clients = [i \in Slot |-> Free] /\ client_count = 0
    /\ clients_mutex = Nobody
    /\ main = <<"build", Nobody>> /\ new_socket = 0
    /\ thread = [c \in Client |-> "off"]
    /\ sockfd = [c \in Client |-> 0] /\ client = [c \in Client |-> 0]
    /\ name = [c \in Client |-> Nobody] /\ todo = [c \in Client |-> {}]
    /\ fds = [f \in Fd |-> Nobody] /\ inside = [c \in Client |-> Nobody]
    /\ peer = [c \in Client |-> "off"] /\ unread = [c \in Client |-> 0]
    /\ said = [c \in Client |-> 0] /\ heard = [c \in Client |-> 0]
    /\ victim = Nobody /\ handler = "idle" /\ closing = {} /\ server = "up"

Running(t) == server = "up" /\ victim # t
Goto(c, l) == thread' = [thread EXCEPT ![c] = l]
Used == {i \in Slot : clients[i].sockfd # 0}
Holding(f) == {i \in Slot : clients[i].sockfd = f}

-----------------------------------------------------------------------------
(* The clients (client.c)                                                  *)

connect(c) ==
    /\ server = "up" /\ peer[c] = "off"
    /\ peer' = [peer EXCEPT ![c] = "open"]
    /\ UNCHANGED <<tableVars, clients_mutex, mainVars, threadVars, fdVars, unread,
                   said, heard, cleanupVars, server>>

say(c) ==
    /\ server = "up" /\ peer[c] = "open" /\ c \in Talker /\ said[c] < MaxMsg
    /\ said' = [said EXCEPT ![c] = @ + 1]
    /\ UNCHANGED <<tableVars, clients_mutex, mainVars, threadVars, fdVars, peer,
                   unread, heard, cleanupVars, server>>

receive_messages(c) ==
    /\ server = "up" /\ peer[c] = "open" /\ unread[c] > 0
    /\ unread' = [unread EXCEPT ![c] = @ - 1]
    /\ UNCHANGED <<tableVars, clients_mutex, mainVars, threadVars, fdVars, peer,
                   said, heard, cleanupVars, server>>

(* Closing a socket that holds unread messages resets the connection.      *)
quit(c) ==
    /\ server = "up" /\ peer[c] = "open"
    /\ QuitEarly \/ thread[c] \notin {"off", "welcome"}
    /\ peer' = [peer EXCEPT ![c] = IF unread[c] > 0 THEN "reset" ELSE "closed"]
    /\ unread' = [unread EXCEPT ![c] = 0]
    /\ UNCHANGED <<tableVars, clients_mutex, mainVars, threadVars, fdVars, said,
                   heard, cleanupVars, server>>

(* The kernel's send to a connection, or to a number that is not open: it  *)
(* waits for room, the first send to a client that has gone resets the     *)
(* connection, and the next one raises SIGPIPE unless the caller asked for *)
(* no signal.                                                              *)
send(c, nosignal) ==
    IF c = Nobody
    THEN UNCHANGED <<peer, unread, server>>
    ELSE \/ /\ peer[c] = "open" /\ unread[c] < Cap
            /\ unread' = [unread EXCEPT ![c] = @ + 1]
            /\ UNCHANGED <<peer, server>>
         \/ /\ peer[c] = "closed"
            /\ peer' = [peer EXCEPT ![c] = "reset"]
            /\ UNCHANGED <<unread, server>>
         \/ /\ peer[c] = "reset"
            /\ server' = IF nosignal THEN server ELSE "killed"
            /\ UNCHANGED <<peer, unread>>

-----------------------------------------------------------------------------
(* Sockets: a call names a number, and keeps the connection it found there *)
(* although another thread closes the number while it waits.               *)

(* The number in the call that a thread makes next, or is waiting in.      *)
Using(c) ==
    IF thread[c] \in {"welcome", "read"} THEN sockfd[c]
    ELSE IF clients_mutex = c /\ todo[c] # {} THEN clients[Min(todo[c])].sockfd ELSE 0

Reached(c) ==
    IF inside[c] # Nobody THEN inside[c]
    ELSE IF Using(c) \in Fd THEN fds[Using(c)] ELSE Nobody

Return(c) == inside' = [inside EXCEPT ![c] = Nobody]

(* Fault: the socket is never closed.                                      *)
close_Leak(f) == UNCHANGED fdVars

close(f) ==
    /\ fds' = [fds EXCEPT ![f] = Nobody]
    /\ \E waiting \in SUBSET {c \in Client \ {victim} : Using(c) = f /\ Reached(c) # Nobody} :
          inside' = [c \in Client |-> IF c \in waiting THEN Reached(c) ELSE inside[c]]

-----------------------------------------------------------------------------
(* The main thread                                                         *)

Waiting(c) == peer[c] # "off" /\ thread[c] = "off" /\ sockfd[c] = 0

(* The fd_set is built under the mutex.                                    *)
BuildFdSet ==
    /\ Running("main") /\ main[1] = "build" /\ clients_mutex = Nobody
    /\ main' = <<"select", Nobody>>
    /\ UNCHANGED <<tableVars, clients_mutex, new_socket, threadVars, fdVars, netVars,
                   cleanupVars, server>>

(* select returns for a client's socket only: main goes round again.  (It  *)
(* may have been called before cleanup closed that socket; called after, it*)
(* fails, server_fd is still in its set, and main waits in accept.)        *)
Reselect ==
    /\ Running("main") /\ main[1] = "select" /\ ~\E c \in Client : Waiting(c)
    /\ \E i \in Used : \E c \in {clients[i].addr, fds[clients[i].sockfd]} \ {Nobody} :
          heard[c] < said[c] \/ peer[c] \in {"closed", "reset"}
    /\ main' = <<"build", Nobody>>
    /\ UNCHANGED <<tableVars, clients_mutex, new_socket, threadVars, fdVars, netVars,
                   cleanupVars, server>>

(* A connection is waiting; accept takes the lowest free descriptor.       *)
accept(c) ==
    /\ Running("main") /\ main[1] = "select" /\ Waiting(c)
    /\ new_socket' = Min({f \in Fd : fds[f] = Nobody})
    /\ fds' = [fds EXCEPT ![new_socket'] = c]
    /\ sockfd' = [sockfd EXCEPT ![c] = new_socket']
    /\ main' = <<"add", c>>
    /\ UNCHANGED <<tableVars, clients_mutex, thread, client, name, todo, inside, netVars,
                   cleanupVars, server>>

(* Fault: the counter is not kept.                                         *)
add_client_Uncounted(f, addr) ==
    /\ Holding(0) # {}
    /\ clients' = [clients EXCEPT ![Min(Holding(0))] = [sockfd |-> f, addr |-> addr]]
    /\ UNCHANGED client_count

(* The first free slot; the caller is not told when there is none.         *)
add_client(f, addr) ==
    IF Holding(0) = {}
    THEN UNCHANGED tableVars
    ELSE /\ clients' = [clients EXCEPT ![Min(Holding(0))] = [sockfd |-> f, addr |-> addr]]
         /\ client_count' = client_count + 1

AddClient ==
    /\ Running("main") /\ main[1] = "add" /\ clients_mutex = Nobody
    /\ add_client(new_socket, main[2])
    /\ main' = <<"create", main[2]>>
    /\ UNCHANGED <<clients_mutex, new_socket, threadVars, fdVars, netVars, cleanupVars, server>>

(* args->client is taken from client_count, read without the mutex.        *)
pthread_create ==
    LET c == main[2] IN
    /\ Running("main") /\ main[1] = "create"
    /\ \/ /\ client' = [client EXCEPT ![c] = client_count]
          /\ Goto(c, "welcome")
          /\ main' = <<"build", Nobody>> /\ new_socket' = 0
          /\ UNCHANGED fdVars
       \/ /\ main' = <<"undo", c>>
          /\ close(new_socket)
          /\ UNCHANGED <<client, thread, new_socket>>
    /\ UNCHANGED <<tableVars, clients_mutex, sockfd, name, todo, netVars, cleanupVars,
                   server>>

(* Fault: whoever asks, the first slot is cleared.                         *)
remove_client_First(f) ==
    /\ clients' = [clients EXCEPT ![1] = Free]
    /\ client_count' = client_count - 1

remove_client(f) ==
    IF Holding(f) = {}
    THEN UNCHANGED tableVars
    ELSE /\ clients' = [clients EXCEPT ![Min(Holding(f))] = Free]
         /\ client_count' = client_count - 1

(* The thread could not be created: the socket is closed, then removed.    *)
UndoAccept ==
    /\ Running("main") /\ main[1] = "undo" /\ clients_mutex = Nobody
    /\ remove_client(new_socket)
    /\ main' = <<"build", Nobody>> /\ new_socket' = 0
    /\ Goto(main[2], "gone")
    /\ UNCHANGED <<clients_mutex, sockfd, client, name, todo, fdVars, netVars,
                   cleanupVars, server>>

-----------------------------------------------------------------------------
(* handle_client                                                           *)

(* client->ip and client->port, read without the mutex.                    *)
ClientName(c) == IF client[c] = 0 THEN Nobody ELSE clients[client[c]].addr

Compose(c) == name' = [name EXCEPT ![c] = ClientName(c)]

(* The welcome is sent without MSG_NOSIGNAL.                               *)
Welcome(c) ==
    /\ Running(c) /\ thread[c] = "welcome"
    /\ send(Reached(c), FALSE) /\ Return(c)
    /\ Goto(c, "compose")
    /\ UNCHANGED <<tableVars, clients_mutex, mainVars, sockfd, client, name, todo,
                   fds, said, heard, cleanupVars>>

ComposeJoin(c) ==
    /\ Running(c) /\ thread[c] = "compose"
    /\ Compose(c) /\ Goto(c, "join")
    /\ UNCHANGED <<tableVars, clients_mutex, mainVars, sockfd, client, todo, fdVars,
                   netVars, cleanupVars, server>>

(* Fault: only a failing read is taken for the end of the connection.      *)
Disconnected_Error(c) == peer[c] = "reset"

(* valread <= 0                                                            *)
Disconnected(c) == peer[c] = "reset" \/ (peer[c] = "closed" /\ heard[c] = said[c])

(* read returns what has arrived, several messages run together maybe,     *)
(* reports that the client has gone, or fails on a number that is closed.  *)
Read(c) ==
    /\ Running(c) /\ thread[c] = "read"
    /\ LET d == Reached(c) IN
       \/ /\ d # Nobody
          /\ \E n \in heard[d] + 1 .. said[d] : heard' = [heard EXCEPT ![d] = n]
          /\ Goto(c, "message")
       \/ /\ d # Nobody => Disconnected(d)
          /\ Goto(c, "leave") /\ UNCHANGED heard
    /\ Compose(c) /\ Return(c)
    /\ UNCHANGED <<tableVars, clients_mutex, mainVars, sockfd, client, todo, fds,
                   peer, unread, said, cleanupVars, server>>

(* broadcast_message: the mutex is held across all the sends.              *)
broadcast_message(c) ==
    /\ Running(c) /\ thread[c] \in {"join", "message", "leave"}
    /\ clients_mutex = Nobody
    /\ clients_mutex' = c
    /\ todo' = [todo EXCEPT ![c] = Used \ Holding(sockfd[c])]
    /\ UNCHANGED <<tableVars, mainVars, thread, sockfd, client, name, fdVars, netVars,
                   cleanupVars, server>>

(* Fault: a broadcast is sent like the welcome.                            *)
MSG_NOSIGNAL_Missing == FALSE

MSG_NOSIGNAL == TRUE

BroadcastSend(c) ==
    LET i == Min(todo[c]) IN
    /\ Running(c) /\ clients_mutex = c /\ todo[c] # {}
    /\ send(Reached(c), MSG_NOSIGNAL) /\ Return(c)
    /\ todo' = [todo EXCEPT ![c] = @ \ {i}]
    /\ UNCHANGED <<tableVars, clients_mutex, mainVars, thread, sockfd, client, name,
                   fds, said, heard, cleanupVars>>

BroadcastEnd(c) ==
    /\ Running(c) /\ clients_mutex = c /\ todo[c] = {}
    /\ clients_mutex' = Nobody
    /\ Goto(c, IF thread[c] = "leave" THEN "remove" ELSE "read")
    /\ name' = [name EXCEPT ![c] = Nobody]
    /\ UNCHANGED <<tableVars, mainVars, sockfd, client, todo, fdVars, netVars,
                   cleanupVars, server>>

RemoveSelf(c) ==
    /\ Running(c) /\ thread[c] = "remove" /\ clients_mutex = Nobody
    /\ remove_client(sockfd[c])
    /\ Goto(c, "close")
    /\ UNCHANGED <<clients_mutex, mainVars, sockfd, client, name, todo, fdVars, netVars,
                   cleanupVars, server>>

CloseSelf(c) ==
    /\ Running(c) /\ thread[c] = "close"
    /\ close(sockfd[c])
    /\ Goto(c, "gone")
    /\ UNCHANGED <<tableVars, clients_mutex, mainVars, sockfd, client, name, todo,
                   netVars, cleanupVars, server>>

-----------------------------------------------------------------------------
(* SIGINT, once: the handler runs on top of whichever thread the kernel    *)
(* chose, and the other threads run on until exit.                         *)

Alive == {"main"} \cup {c \in Client : thread[c] \notin {"off", "gone"}}

SIGINT(t) ==
    /\ server = "up" /\ victim = Nobody
    /\ Sigint # "never" /\ (Sigint = "unlocked" => clients_mutex # t)
    /\ victim' = t
    /\ UNCHANGED <<tableVars, clients_mutex, mainVars, threadVars, fdVars, netVars, handler,
                   closing, server>>

CleanupLock ==
    /\ handler = "idle" /\ clients_mutex = Nobody
    /\ clients_mutex' = victim /\ handler' = "closing" /\ closing' = Used
    /\ UNCHANGED fdVars

CleanupClose ==
    LET i == Min(closing) IN
    /\ handler = "closing" /\ closing # {}
    /\ close(clients[i].sockfd) /\ closing' = closing \ {i}
    /\ UNCHANGED <<clients_mutex, handler>>

CleanupUnlock ==
    /\ handler = "closing" /\ closing = {}
    /\ clients_mutex' = Nobody /\ handler' = "unlocked"
    /\ UNCHANGED <<closing, fdVars>>

(* Fault: the handler returns to the thread it interrupted.                *)
ExitServer_Missing == UNCHANGED server

ExitServer == server' = "exited"

(* pthread_mutex_destroy and exit, which ends the threads and closes what  *)
(* is open.  What the threads make of the mutex between the two is         *)
(* undefined, and left out.                                                *)
Exit ==
    /\ handler = "unlocked"
    /\ ExitServer
    /\ thread' = [c \in Client |-> "gone"] /\ name' = [c \in Client |-> Nobody]
    /\ todo' = [c \in Client |-> {}] /\ clients_mutex' = Nobody
    /\ fds' = [f \in Fd |-> Nobody] /\ inside' = [c \in Client |-> Nobody]
    /\ UNCHANGED <<sockfd, client, handler, closing>>

(* cleanup, then exit.                                                     *)
sigint_handler ==
    /\ server = "up" /\ victim # Nobody
    /\ \/ /\ CleanupLock \/ CleanupClose \/ CleanupUnlock
          /\ UNCHANGED <<threadVars, server>>
       \/ Exit
    /\ UNCHANGED <<tableVars, mainVars, netVars, victim>>

-----------------------------------------------------------------------------
MainStep ==
    \/ BuildFdSet \/ Reselect \/ \E c \in Client : accept(c)
    \/ AddClient \/ pthread_create \/ UndoAccept

ThreadStep(c) ==
    \/ Welcome(c) \/ ComposeJoin(c) \/ Read(c) \/ broadcast_message(c)
    \/ BroadcastSend(c) \/ BroadcastEnd(c) \/ RemoveSelf(c) \/ CloseSelf(c)

(* The process has ended, or every client has come and is idle or gone.    *)
Rest ==
    /\ server # "up" \/ \A c \in Client : thread[c] \in {"gone", "read"}
    /\ UNCHANGED vars

Next ==
    \/ \E c \in Client : \/ connect(c) \/ say(c) \/ receive_messages(c) \/ quit(c)
                         \/ ThreadStep(c)
    \/ MainStep \/ (\E t \in Alive : SIGINT(t)) \/ sigint_handler
    \/ Rest

(* Every thread of the server is scheduled, a free mutex is got by one who *)
(* waits for it, and each client's receiving thread reads.                 *)
Fairness ==
    /\ WF_vars(MainStep) /\ WF_vars(sigint_handler)
    /\ \A c \in Client : WF_vars(ThreadStep(c)) /\ WF_vars(receive_messages(c))

Spec == Init /\ [][Next]_vars

FairSpec == Spec /\ Fairness
-----------------------------------------------------------------------------
Places == {"off", "welcome", "compose", "join", "read", "message", "leave",
           "remove", "close", "gone"}

(* Every variable has its type: in particular the count stays within the   *)
(* table, and with it the pointer handed to a thread.                      *)
TypeOK ==
    /\ clients \in [Slot -> [sockfd : Fd \cup {0}, addr : Client \cup {Nobody}]]
    /\ client_count \in 0..MAX_CLIENTS
    /\ clients_mutex \in Client \cup {"main", Nobody}
    /\ main \in {"build", "select", "add", "create", "undo"} \X (Client \cup {Nobody})
    /\ new_socket \in Fd \cup {0}
    /\ thread \in [Client -> Places]
    /\ sockfd \in [Client -> Fd \cup {0}]
    /\ client \in [Client -> 0..MAX_CLIENTS]
    /\ name \in [Client -> Client \cup {Nobody}]
    /\ todo \in [Client -> SUBSET Slot]
    /\ fds \in [Fd -> Client \cup {Nobody}] /\ inside \in [Client -> Client \cup {Nobody}]
    /\ peer \in [Client -> {"off", "open", "closed", "reset"}]
    /\ unread \in [Client -> 0..Cap]
    /\ said \in [Client -> 0..MaxMsg] /\ heard \in [Client -> 0..MaxMsg]
    /\ victim \in Client \cup {"main", Nobody}
    /\ handler \in {"idle", "closing", "unlocked"}
    /\ closing \in SUBSET Slot
    /\ server \in {"up", "exited", "killed"}

(* cleanup has not given the mutex back yet.  From there to exit the other *)
(* threads run on over sockets that were closed under them, and nothing is *)
(* claimed: the table still names those sockets, a thread that leaves      *)
(* closes its number again, and main may have given the number to another  *)
(* connection meanwhile.                                                   *)
BeforeUnlock == handler \in {"idle", "closing"}

(* cleanup has closed the socket in a slot.                                *)
Shut(i) == handler = "closing" /\ i \in Used \ closing

(* The table agrees with the kernel although sockets are closed and their  *)
(* numbers reused by four functions: until cleanup unlocks, the socket in a*)
(* slot is open and is that of the client named there, so that neither a   *)
(* broadcast nor cleanup ever reaches a stranger - except while main undoes*)
(* an accept, and once cleanup has been there itself - and client_count is *)
(* the number of slots in use.                                             *)
TableConsistent ==
    server = "up" /\ BeforeUnlock =>
       /\ client_count = Cardinality(Used)
       /\ \A i \in Used : \/ fds[clients[i].sockfd] = clients[i].addr
                          \/ main = <<"undo", clients[i].addr>>
                          \/ Shut(i)
       /\ \A i, j \in Used : clients[i].sockfd = clients[j].sockfd => i = j

(* Until cleanup unlocks, nobody closes a socket under the thread that     *)
(* serves it but cleanup itself, for a client in the table; and an open    *)
(* socket is that of a client being served or accepted: when its thread    *)
(* ends it has been closed.                                                *)
SocketsOwned ==
    server = "up" /\ BeforeUnlock =>
       /\ \A c \in Client : thread[c] \notin {"off", "gone"} =>
             fds[sockfd[c]] = c \/ \E i \in Used : Shut(i) /\ clients[i].addr = c
       /\ \A f \in Fd : fds[f] # Nobody =>
             thread[fds[f]] \notin {"off", "gone"} \/ main[2] = fds[f]

(* "Broadcast that a new user has joined" / "... has left": what a thread  *)
(* broadcasts carries the address of the client it serves.                 *)
NamesItsClient ==
    \A c \in Client : thread[c] \in {"join", "message", "leave"} => name[c] = c

(* "Add the client": as long as there are slots for all, a client that has *)
(* been welcomed to the room is in the table until it leaves, and so hears *)
(* what the others say, until cleanup has closed the sockets.              *)
WelcomedAreListed ==
    Cardinality(Client) <= MAX_CLIENTS /\ BeforeUnlock =>
       \A c \in Client :
          thread[c] \in {"join", "read", "message", "leave"} =>
             \E i \in Slot : clients[i].addr = c

(* A client that disconnects once it has been welcomed does not take the   *)
(* server with it, although others go on broadcasting to it: SIGPIPE does  *)
(* not come, until cleanup has closed the sockets.                         *)
ServerSurvives == ~QuitEarly /\ BeforeUnlock => server # "killed"

(* A client that connects gets its thread, what it says is broadcast, and  *)
(* when it disconnects its thread ends and its socket is closed: no thread *)
(* waits for ever on the mutex or on a socket as long as clients read.     *)
EveryoneServed ==
    /\ \A c \in Client :
          /\ peer[c] # "off" ~> thread[c] # "off" \/ victim # Nobody
          /\ peer[c] \in {"closed", "reset"} ~> thread[c] = "gone" \/ victim # Nobody
    /\ \A c \in Talker, n \in 1..MaxMsg :
          said[c] >= n ~> \/ heard[c] >= n /\ thread[c] = "read"
                          \/ thread[c] = "gone" \/ victim # Nobody

(* Ctrl+C shuts the server down ("the server is shutting down...").        *)
ShutdownCompletes == victim # Nobody ~> server # "up"
=============================================================================
