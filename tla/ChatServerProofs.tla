-------------------------- MODULE ChatServerProofs --------------------------
(***************************************************************************)
(* Proofs about ChatServer, for any number of clients, any size of the     *)
(* table and every schedule, SIGINT included.  Some facts hold as long as  *)
(* the server is up (Sound), the others until cleanup unlocks the mutex    *)
(* (Kept).                                                                 *)
(***************************************************************************)
EXTENDS ChatServer, FiniteSetTheorems, WellFoundedInduction, TLAPS

Listed == {"welcome", "compose", "join", "read", "message", "leave", "remove"}
Serving == Listed \cup {"close"}

(* A thread that serves a client was given a socket.                       *)
FdOK(c) == thread[c] \in Serving => sockfd[c] \in Fd

(* An open number is the one its connection was given.                     *)
BackOK(f) == fds[f] # Nobody => sockfd[fds[f]] = f

(* What main knows of the connection it accepts.                           *)
MainFd ==
    /\ main[1] \in {"build", "select"} => main[2] = Nobody
    /\ main[1] \in {"add", "create", "undo"} =>
          /\ main[2] \in Client /\ thread[main[2]] = "off"
          /\ new_socket = sockfd[main[2]] /\ new_socket \in Fd

(* Whoever holds the mutex is broadcasting, or is in cleanup.              *)
MutexOK ==
    /\ clients_mutex # Nobody =>
          \/ clients_mutex \in Client /\ thread[clients_mutex] \in {"join", "message", "leave"}
          \/ handler = "closing"
    /\ handler = "closing" => clients_mutex = victim
    /\ handler # "idle" => victim # Nobody

Sound ==
    /\ client_count = Cardinality(Used)
    /\ \A c \in Client : FdOK(c)
    /\ \A f \in Fd : BackOK(f)
    /\ MainFd /\ MutexOK

(* The socket of a client in the table has been closed by cleanup.         *)
ShutClient(c) == \E i \in Used : Shut(i) /\ clients[i].addr = c

(* A thread that serves a client has its socket.                           *)
ThreadOK(c) == thread[c] \in Serving => fds[sockfd[c]] = c \/ ShutClient(c)

(* An open socket is that of a client being served or being accepted.      *)
SocketOK(f) ==
    fds[f] # Nobody => \/ thread[fds[f]] \in Serving
                       \/ main[1] \in {"add", "create"} /\ main[2] = fds[f]

(* The socket of the connection main accepts.                              *)
MainOK ==
    /\ main[1] = "add" => fds[new_socket] = main[2]
    /\ main[1] = "create" => \/ fds[new_socket] = main[2]
                             \/ fds[new_socket] = Nobody /\ ShutClient(main[2])
    /\ main[1] = "undo" => fds[new_socket] = Nobody

(* A slot in use names a client whose thread has not removed it yet, or the*)
(* one main has just entered, with its socket.                             *)
SlotOK(i) ==
    clients[i].sockfd # 0 =>
       LET c == clients[i].addr IN
       /\ c \in Client /\ sockfd[c] = clients[i].sockfd
       /\ \/ thread[c] \in Listed
          \/ main[1] \in {"create", "undo"} /\ main[2] = c

(* No client and no socket has two slots.                                  *)
OneSlot ==
    \A i, j \in Used :
       clients[i].addr = clients[j].addr \/ clients[i].sockfd = clients[j].sockfd => i = j

(* The number of a socket cleanup has closed is given to nobody but the    *)
(* connection main has accepted last.                                      *)
ReuseOK(i) ==
    Shut(i) => LET c == fds[clients[i].sockfd] IN c = Nobody \/ main = <<"add", c>>

(* A welcome that waits while its socket is closed goes to its own client. *)
InsideOK(c) ==
    /\ thread[c] = "off" => inside[c] = Nobody
    /\ thread[c] = "welcome" => inside[c] = Nobody \/ inside[c] = c

Kept ==
    /\ \A c \in Client : ThreadOK(c) /\ InsideOK(c)
    /\ \A f \in Fd : SocketOK(f)
    /\ \A i \in Slot : SlotOK(i)
    /\ \A i \in Used : ReuseOK(i)
    /\ OneSlot /\ MainOK

Good == Sound /\ (BeforeUnlock => Kept)

goodVars == <<tableVars, clients_mutex, mainVars, thread, sockfd, fdVars, cleanupVars>>

Inv == TypeOK /\ (server = "up" => Good)

-----------------------------------------------------------------------------
(* Facts about the constants and the table                                 *)

(* The first free slot and the lowest free descriptor exist whenever there *)
(* is one at all.                                                          *)
LEMMA MinProperties ==
    ASSUME NEW S \in SUBSET Nat, S # {}
    PROVE  Min(S) \in S
<1>1. PICK x \in S : \A y \in S : <<y, x>> \notin OpToRel(<, Nat)
  BY NatLessThanWellFounded, WFMin, Zenon
<1>2. \A y \in S : ~(y < x)
  BY <1>1, Zenon DEF OpToRel
<1>3. \A y \in S : x <= y
  BY <1>2
<1> QED BY <1>3, Zenon DEF Min

(* Slots and descriptors are positive, and nobody is a client.             *)
LEMMA Constants ==
    /\ Slot \subseteq Nat /\ Fd \subseteq Nat /\ 0 \notin Fd /\ Nobody \notin Client
    /\ Nobody # "main" /\ Cardinality(Client) \in Nat
    /\ IsFiniteSet(Slot) /\ Cardinality(Slot) = MAX_CLIENTS
    /\ IsFiniteSet(Fd) /\ Cardinality(Fd) = Cardinality(Client)
<1>1. Cardinality(Client) \in Nat
  BY Zenon, ClientAssumption, FS_CardinalityType
<1>2. MAX_CLIENTS \in Nat
  BY Zenon, TableAssumption
<1>3. IsFiniteSet(Slot) /\ Cardinality(Slot) = MAX_CLIENTS
  BY <1>2, FS_Interval, TableAssumption DEF Slot
<1>4. IsFiniteSet(Fd) /\ Cardinality(Fd) = Cardinality(Client)
  BY <1>1, FS_Interval DEF Fd
<1>5. Slot \subseteq Nat /\ Fd \subseteq Nat /\ 0 \notin Fd
  BY <1>1, <1>2 DEF Slot, Fd
<1> QED BY Zenon, <1>1, <1>3, <1>4, <1>5, ClientAssumption

(* Slots are finitely many, at most the size of the table.                 *)
LEMMA SlotCount ==
    ASSUME NEW U \in SUBSET Slot
    PROVE  IsFiniteSet(U) /\ Cardinality(U) \in 0..MAX_CLIENTS
<1>1. IsFiniteSet(U) /\ Cardinality(U) <= MAX_CLIENTS /\ Cardinality(U) \in Nat
  BY Zenon, Constants, FS_Subset, FS_CardinalityType
<1> QED BY <1>1, TableAssumption

(* While a client that waits has no socket, there is a free descriptor: the*)
(* open ones belong to different other clients.                            *)
LEMMA DescriptorFree ==
    ASSUME TypeOK, Good, NEW c \in Client, sockfd[c] = 0
    PROVE  \E f \in Fd : fds[f] = Nobody
<1> SUFFICES ASSUME \A f \in Fd : fds[f] # Nobody
             PROVE  FALSE
  BY Zenon
<1>1. \A f \in Fd : fds[f] \in Client /\ sockfd[fds[f]] = f
  BY DEF TypeOK, Good, Sound, BackOK
<1>2. fds \in [Fd -> Client \ {c}]
  BY <1>1, Constants DEF TypeOK
<1>3. IsFiniteSet(Client \ {c}) /\ Cardinality(Client \ {c}) = Cardinality(Client) - 1
  BY Zenon, ClientAssumption, FS_RemoveElement
<1>4. Cardinality(Client \ {c}) < Cardinality(Fd)
  BY <1>3, Constants
<1>5. PICK f \in Fd, g \in Fd : f # g /\ fds[f] = fds[g]
  BY Zenon, <1>2, <1>3, <1>4, Constants, FS_PigeonHole
<1> QED BY Zenon, <1>1, <1>5

(* While others wait for the mutex, or one of them holds it, cleanup has   *)
(* not begun.                                                              *)
LEMMA NotBegun ==
    ASSUME Good, BeforeUnlock, clients_mutex = Nobody \/ clients_mutex # victim
    PROVE  handler = "idle" /\ \A c : ~ShutClient(c)
<1>1. handler = "idle"
  BY Zenon DEF Good, Sound, MutexOK, BeforeUnlock
<1> QED BY <1>1, Zenon DEF ShutClient, Shut

(* A client that is being accepted or served.                              *)
Present(c) ==
    thread[c] \in Serving \/ (main[1] \in {"add", "create", "undo"} /\ main[2] = c)

(* Before cleanup two of them do not share a socket.                       *)
LEMMA OwnSocket ==
    ASSUME Good, handler = "idle", NEW c \in Client, NEW d \in Client, Present(c), Present(d),
           sockfd[c] = sockfd[d]
    PROVE  c = d
<1>1. Kept /\ MainFd /\ \A x : ~ShutClient(x)
  BY Zenon DEF Good, Sound, BeforeUnlock, ShutClient, Shut
<1>2. \A x \in Client : ThreadOK(x)
  BY <1>1, Zenon DEF Kept
<1>3. thread[c] \in Serving => fds[sockfd[c]] = c
  BY <1>1, <1>2, Zenon DEF ThreadOK
<1>4. thread[d] \in Serving => fds[sockfd[d]] = d
  BY <1>1, <1>2, Zenon DEF ThreadOK
<1>5. \A x \in Client : main[1] \in {"add", "create", "undo"} /\ main[2] = x =>
                           fds[sockfd[x]] = x \/ fds[sockfd[x]] = Nobody
  BY <1>1, Zenon DEF Kept, MainOK, MainFd
<1> QED BY <1>3, <1>4, <1>5, Constants, Zenon DEF Present

(* The client named in a slot is present.                                  *)
LEMMA SlotPresent ==
    ASSUME Kept, NEW i \in Used
    PROVE  /\ clients[i].addr \in Client /\ Present(clients[i].addr)
           /\ sockfd[clients[i].addr] = clients[i].sockfd
BY Zenon DEF Kept, SlotOK, Present, Used, Serving

(* A slot that holds the socket of a client names that client.             *)
LEMMA SlotOfSocket ==
    ASSUME Good, handler = "idle", NEW c \in Client, Present(c), NEW i \in Slot,
           clients[i].sockfd = sockfd[c], sockfd[c] # 0
    PROVE  i \in Used /\ clients[i].addr = c
<1>1. i \in Used /\ Kept
  BY Zenon DEF Used, Good, BeforeUnlock
<1> QED BY Zenon, <1>1, SlotPresent, OwnSocket

-----------------------------------------------------------------------------
(* Types                                                                   *)

(* The slot and the descriptor that are looked up exist.                   *)
LEMMA LookupType ==
    /\ Holding(0) # {} => Min(Holding(0)) \in Holding(0)
    /\ \A f \in Fd : Holding(f) # {} => Min(Holding(f)) \in Holding(f)
    /\ \A c \in Client : todo[c] \in SUBSET Slot /\ todo[c] # {} => Min(todo[c]) \in Slot
<1>1. \A f : Holding(f) \in SUBSET Nat
  BY Constants, Zenon DEF Holding
<1>2. \A f : Holding(f) # {} => Min(Holding(f)) \in Holding(f)
  BY Zenon, <1>1, MinProperties
<1>3. \A c \in Client : todo[c] \in SUBSET Slot /\ todo[c] # {} => Min(todo[c]) \in todo[c]
  BY Zenon, Constants, MinProperties
<1> QED BY Zenon, <1>2, <1>3

(* A call reaches a connection, or nothing.                                *)
LEMMA ReachedType ==
    ASSUME TypeOK, NEW c \in Client
    PROVE  Reached(c) \in Client \cup {Nobody}
BY Zenon DEF TypeOK, Reached

(* send keeps the types of what it changes.                                *)
LEMMA SendTypes ==
    ASSUME TypeOK, NEW c \in Client \cup {Nobody}, NEW n \in BOOLEAN, send(c, n)
    PROVE  /\ peer' \in [Client -> {"off", "open", "closed", "reset"}]
           /\ unread' \in [Client -> 0..Cap]
           /\ server' \in {"up", "exited", "killed"}
<1>1. CASE c = Nobody
  BY <1>1, Zenon DEF send, TypeOK
<1>2. CASE c \in Client /\ peer[c] = "open" /\ unread[c] < Cap
  BY <1>2, Constants, TableAssumption DEF send, TypeOK
<1>3. CASE c \in Client /\ ~(peer[c] = "open" /\ unread[c] < Cap)
  BY <1>3, Constants, Zenon DEF send, TypeOK
<1> QED BY Zenon, <1>1, <1>2, <1>3

(* close frees the number; a call that waits keeps what it had reached.    *)
LEMMA CloseEffect ==
    ASSUME TypeOK, NEW f, close(f)
    PROVE  /\ fds' \in [Fd -> Client \cup {Nobody}]
           /\ inside' \in [Client -> Client \cup {Nobody}]
           /\ \A g \in Fd : fds'[g] = IF g = f THEN Nobody ELSE fds[g]
           /\ \A c \in Client : \/ inside'[c] = inside[c]
                                \/ c # victim /\ Using(c) = f /\ inside'[c] = Reached(c)
<1>1. fds' = [fds EXCEPT ![f] = Nobody]
  BY Zenon DEF close
<1>2. PICK waiting \in SUBSET {c \in Client \ {victim} : Using(c) = f /\ Reached(c) # Nobody} :
          inside' = [c \in Client |-> IF c \in waiting THEN Reached(c) ELSE inside[c]]
  BY Zenon DEF close
<1>3. \A c \in Client : inside'[c] = IF c \in waiting THEN Reached(c) ELSE inside[c]
  BY Zenon, <1>2
<1>4. inside' \in [Client -> Client \cup {Nobody}]
  <2>1. ASSUME NEW c \in Client PROVE inside'[c] \in Client \cup {Nobody}
    <3>1. inside[c] \in Client \cup {Nobody} /\ Reached(c) \in Client \cup {Nobody}
      BY ReachedType, Zenon DEF TypeOK
    <3> QED BY <1>3, <3>1, Zenon
  <2> QED BY Zenon, <1>2, <2>1
<1>5. fds' \in [Fd -> Client \cup {Nobody}]
  BY <1>1, Zenon DEF TypeOK
<1>6. \A g \in Fd : fds'[g] = IF g = f THEN Nobody ELSE fds[g]
  BY <1>1, Zenon DEF TypeOK
<1> QED BY Zenon, <1>2, <1>3, <1>4, <1>5, <1>6

(* Every step of a client keeps the types.                                 *)
LEMMA ClientTypes ==
    ASSUME TypeOK, NEW c \in Client, connect(c) \/ say(c) \/ receive_messages(c) \/ quit(c)
    PROVE  TypeOK' /\ UNCHANGED goodVars /\ server = "up"
<1>1. CASE connect(c)
  BY <1>1, Zenon DEF connect, TypeOK, goodVars, tableVars, mainVars, threadVars,
            fdVars, cleanupVars
<1>2. CASE say(c)
  <2>1. said' \in [Client -> 0..MaxMsg]
    BY <1>2, MsgAssumption DEF say, TypeOK
  <2> QED BY <1>2, <2>1, Zenon DEF say, TypeOK, goodVars, tableVars, mainVars, threadVars,
            fdVars, cleanupVars
<1>3. CASE receive_messages(c)
  <2>1. unread' \in [Client -> 0..Cap]
    BY <1>3, TableAssumption DEF receive_messages, TypeOK
  <2> QED BY <1>3, <2>1, Zenon DEF receive_messages, TypeOK, goodVars, tableVars, mainVars, threadVars,
            fdVars, cleanupVars
<1>4. CASE quit(c)
  <2>1. unread' \in [Client -> 0..Cap]
    BY <1>4, TableAssumption DEF quit, TypeOK
  <2>2. peer' \in [Client -> {"off", "open", "closed", "reset"}]
    BY <1>4, Zenon DEF quit, TypeOK
  <2> QED BY <1>4, <2>1, <2>2, Zenon DEF quit, TypeOK, goodVars, tableVars, mainVars, threadVars,
            fdVars, cleanupVars
<1> QED BY Zenon, <1>1, <1>2, <1>3, <1>4

(* A thread's name for its client is an address of the table.              *)
LEMMA NameType ==
    ASSUME TypeOK, NEW c \in Client, Compose(c)
    PROVE  name' \in [Client -> Client \cup {Nobody}]
<1>1. client[c] \in Slot \cup {0}
  BY TableAssumption DEF TypeOK, Slot
<1>2. ClientName(c) \in Client \cup {Nobody}
  BY <1>1, Zenon DEF TypeOK, ClientName
<1> QED BY <1>2, Zenon DEF Compose, TypeOK

(* The steps of a thread that leave the table, the sockets and the mutex   *)
(* alone: the thread stays listed.                                         *)
LEMMA TalkTypes ==
    ASSUME TypeOK, NEW c \in Client, Welcome(c) \/ ComposeJoin(c) \/ Read(c)
    PROVE  /\ TypeOK' /\ server = "up"
           /\ UNCHANGED <<tableVars, clients_mutex, mainVars, sockfd, fds, cleanupVars>>
           /\ inside' = inside \/ inside' = [inside EXCEPT ![c] = Nobody]
           /\ thread[c] \in Listed \ {"join", "message", "leave"}
           /\ \E l \in Listed \ {"welcome"} : thread' = [thread EXCEPT ![c] = l]
<1>0. \A l \in Listed : [thread EXCEPT ![c] = l] \in [Client -> Places]
  BY Zenon DEF TypeOK, Listed, Places
<1>1. [inside EXCEPT ![c] = Nobody] \in [Client -> Client \cup {Nobody}]
  BY Zenon DEF TypeOK
<1>2. CASE Welcome(c)
  <2>1. /\ peer' \in [Client -> {"off", "open", "closed", "reset"}]
        /\ unread' \in [Client -> 0..Cap]
        /\ server' \in {"up", "exited", "killed"}
    BY <1>2, ReachedType, SendTypes, Zenon DEF Welcome
  <2> QED BY <1>0, <1>1, <1>2, <2>1, Zenon
          DEF Welcome, Return, Running, Goto, TypeOK, Listed, tableVars, mainVars, cleanupVars
<1>3. CASE ComposeJoin(c)
  <2>1. name' \in [Client -> Client \cup {Nobody}]
    BY <1>3, NameType, Zenon DEF ComposeJoin
  <2> QED BY Zenon, <1>0, <1>3, <2>1
          DEF ComposeJoin, Running, Goto, TypeOK, Listed, tableVars, mainVars, netVars, fdVars,
              cleanupVars
<1>4. CASE Read(c)
  <2>1. name' \in [Client -> Client \cup {Nobody}]
    BY <1>4, NameType, Zenon DEF Read
  <2>2. heard' \in [Client -> 0..MaxMsg]
    <3> DEFINE d == Reached(c)
    <3>1. d \in Client \cup {Nobody}
      BY Zenon, ReachedType
    <3>2. \/ d # Nobody /\ \E n \in heard[d] + 1 .. said[d] : heard' = [heard EXCEPT ![d] = n]
          \/ UNCHANGED heard
      BY <1>4, Zenon DEF Read
    <3> HIDE DEF d
    <3> QED BY <3>1, <3>2, MsgAssumption DEF TypeOK
  <2> QED BY Zenon, <1>0, <1>1, <1>4, <2>1, <2>2
          DEF Read, Return, Running, Goto, TypeOK, Listed, tableVars, mainVars, cleanupVars
<1> QED BY Zenon, <1>2, <1>3, <1>4

-----------------------------------------------------------------------------
(* Steps that leave the table and the sockets alone                        *)

(* A slot stays shut as long as the table and cleanup stand still.         *)
LEMMA TableStays ==
    ASSUME UNCHANGED <<tableVars, handler, closing>>
    PROVE  /\ Used' = Used /\ BeforeUnlock' = BeforeUnlock
           /\ \A i : Shut(i)' = Shut(i)
           /\ \A c : ShutClient(c)' = ShutClient(c)
<1>1. Used' = Used
  BY Zenon DEF Used, tableVars
<1>2. \A i : Shut(i)' = Shut(i)
  BY <1>1, Zenon DEF Shut
<1>3. \A c : ShutClient(c)' = ShutClient(c)
  BY <1>1, <1>2, Zenon DEF ShutClient, tableVars
<1> QED BY <1>1, <1>2, <1>3, Zenon DEF BeforeUnlock

(* A step that changes nothing Good is about.                              *)
LEMMA GoodStays ==
    ASSUME Good, UNCHANGED goodVars
    PROVE  Good'
<1>1. /\ Used' = Used /\ BeforeUnlock' = BeforeUnlock
      /\ \A i : Shut(i)' = Shut(i)
      /\ \A c : ShutClient(c)' = ShutClient(c)
  BY TableStays, Zenon DEF goodVars, cleanupVars
<1>2. Sound'
  BY <1>1, Zenon DEF Good, Sound, FdOK, BackOK, MainFd, MutexOK, goodVars, tableVars, mainVars,
                     fdVars, cleanupVars
<1>3. Kept => Kept'
  BY <1>1, Zenon DEF Kept, ThreadOK, SocketOK, SlotOK, OneSlot, MainOK, ReuseOK, InsideOK,
                     goodVars, tableVars, mainVars, fdVars
<1> QED BY <1>1, <1>2, <1>3, Zenon DEF Good

(* main moves between building its set and waiting in select.              *)
LEMMA IdleMain ==
    ASSUME TypeOK, Good, BuildFdSet \/ Reselect
    PROVE  TypeOK' /\ Good'
<1>1. /\ main[1] \in {"build", "select"} /\ main'[1] \in {"build", "select"}
      /\ main'[2] = Nobody
      /\ main' \in {"build", "select", "add", "create", "undo"} \X (Client \cup {Nobody})
      /\ UNCHANGED <<tableVars, clients_mutex, new_socket, threadVars, fdVars, netVars,
                     cleanupVars, server>>
  BY DEF BuildFdSet, Reselect
<1>2. TypeOK'
  BY <1>1, Zenon DEF TypeOK, tableVars, threadVars, netVars, fdVars, cleanupVars
<1>3. /\ Used' = Used /\ BeforeUnlock' = BeforeUnlock
      /\ \A i : Shut(i)' = Shut(i)
      /\ \A c : ShutClient(c)' = ShutClient(c)
  BY <1>1, TableStays, Zenon DEF cleanupVars
<1>4. Sound'
  BY <1>1, <1>3, Zenon DEF Good, Sound, FdOK, BackOK, MainFd, MutexOK, tableVars, threadVars,
                           fdVars, cleanupVars
<1>5. \A c : main # <<"add", c>>
  BY <1>1
<1>6. Kept => Kept'
  BY <1>1, <1>3, <1>5, Zenon DEF Kept, ThreadOK, SocketOK, SlotOK, OneSlot, MainOK, ReuseOK,
                                 InsideOK, tableVars, threadVars, fdVars
<1> QED BY <1>2, <1>3, <1>4, <1>6, Zenon DEF Good

(* A listed thread moves to another listed place.                          *)
LEMMA GoodTalk ==
    ASSUME TypeOK, Good, NEW c \in Client, NEW l \in Listed \ {"welcome"}, thread[c] \in Listed,
           thread' = [thread EXCEPT ![c] = l],
           UNCHANGED <<tableVars, mainVars, sockfd, fds, cleanupVars>>,
           inside' = inside \/ inside' = [inside EXCEPT ![c] = Nobody],
           MutexOK'
    PROVE  Good'
<1>1. /\ Used' = Used /\ BeforeUnlock' = BeforeUnlock
      /\ \A i : Shut(i)' = Shut(i)
      /\ \A d : ShutClient(d)' = ShutClient(d)
  BY TableStays, Zenon DEF cleanupVars
<1>2. \A d \in Client : thread'[d] = thread[d] \/ (d = c /\ thread'[d] \in Listed \ {"welcome"})
  BY Zenon DEF TypeOK
<1>3. \A d \in Client : thread'[d] \in Serving => thread[d] \in Serving
  BY <1>2, Zenon DEF Serving
<1>4. Sound'
  <2>1. \A d \in Client : FdOK(d)'
    BY <1>3, Zenon DEF Good, Sound, FdOK
  <2>2. \A f \in Fd : BackOK(f)'
    BY Zenon DEF Good, Sound, BackOK
  <2>3. MainFd'
    BY <1>2, Zenon DEF Good, Sound, MainFd, mainVars, Listed
  <2> QED BY <1>1, <2>1, <2>2, <2>3, Zenon DEF Good, Sound, tableVars
<1>5. ASSUME Kept PROVE Kept'
  <2>1. \A d \in Client : ThreadOK(d)'
    BY <1>1, <1>3, <1>5, Zenon DEF Kept, ThreadOK
  <2>2. \A d \in Client : InsideOK(d)'
    <3>1. \A d \in Client : inside'[d] = inside[d] \/ inside'[d] = Nobody
      BY Zenon DEF TypeOK
    <3>2. \A d \in Client : thread'[d] \in {"off", "welcome"} => thread'[d] = thread[d]
      BY <1>2, Zenon DEF Listed
    <3> QED BY <1>5, <3>1, <3>2, Zenon DEF Kept, InsideOK
  <2>3. \A f \in Fd : SocketOK(f)'
    BY <1>2, <1>5, Constants DEF Kept, SocketOK, Serving, mainVars, TypeOK
  <2>4. \A i \in Slot : SlotOK(i)'
    BY <1>2, <1>5, Zenon DEF Kept, SlotOK, mainVars, tableVars
  <2>5. OneSlot' /\ MainOK' /\ \A i \in Used' : ReuseOK(i)'
    BY <1>1, <1>5, Zenon DEF Kept, OneSlot, MainOK, ReuseOK, tableVars, mainVars
  <2> QED BY <2>1, <2>2, <2>3, <2>4, <2>5, Zenon DEF Kept
<1> QED BY <1>1, <1>4, <1>5, Zenon DEF Good

(* So does each of the three steps in which a thread does not broadcast.   *)
LEMMA TalkStep ==
    ASSUME TypeOK, Good, NEW c \in Client, Welcome(c) \/ ComposeJoin(c) \/ Read(c)
    PROVE  TypeOK' /\ Good'
<1>1. PICK l \in Listed \ {"welcome"} : thread' = [thread EXCEPT ![c] = l]
  BY Zenon, TalkTypes
<1>2. UNCHANGED <<clients_mutex, cleanupVars>> /\ thread[c] \notin {"join", "message", "leave"}
  BY Zenon, TalkTypes
<1>3. \A d \in Client : d # c => thread'[d] = thread[d]
  BY <1>1, Zenon DEF TypeOK
<1>4. MutexOK'
  BY <1>2, <1>3, Zenon DEF Good, Sound, MutexOK, cleanupVars
<1>5. thread[c] \in Listed
  BY Zenon, TalkTypes
<1> QED BY Zenon, <1>1, <1>4, <1>5, TalkTypes, GoodTalk

(* A broadcast takes the mutex, sends, and gives it back.                  *)
LEMMA BroadcastStep ==
    ASSUME TypeOK, Good, NEW c \in Client,
           broadcast_message(c) \/ BroadcastSend(c) \/ BroadcastEnd(c)
    PROVE  /\ TypeOK' /\ Good' /\ thread[c] \in {"join", "message", "leave"}
           /\ \E l \in Listed \ {"welcome"} : thread' = [thread EXCEPT ![c] = l]
<1>1. thread[c] \in {"join", "message", "leave"} /\ handler # "closing"
  BY Constants, Zenon DEF Good, Sound, MutexOK, broadcast_message, BroadcastSend, BroadcastEnd,
                          Running
<1>2. thread[c] \in Listed \ {"welcome"} /\ thread = [thread EXCEPT ![c] = thread[c]]
  BY <1>1, Zenon DEF Listed, TypeOK
<1>3. CASE broadcast_message(c)
  <2>1. TypeOK'
    BY <1>3, Zenon DEF broadcast_message, TypeOK, Used, tableVars, mainVars, netVars, fdVars,
                       cleanupVars
  <2>2. MutexOK'
    BY <1>1, <1>3, Zenon DEF broadcast_message, Good, Sound, MutexOK, cleanupVars
  <2>3. thread' = [thread EXCEPT ![c] = thread[c]] /\ inside' = inside
    BY <1>2, <1>3, Zenon DEF broadcast_message, fdVars
  <2>4. UNCHANGED <<tableVars, mainVars, sockfd, fds, cleanupVars>>
    BY <1>3, Zenon DEF broadcast_message, fdVars
  <2>5. Good'
    BY <1>2, <2>2, <2>3, <2>4, GoodTalk, Zenon
  <2> QED BY <1>1, <1>2, <2>1, <2>3, <2>5, Zenon
<1>4. CASE BroadcastSend(c)
  <2>1. /\ send(Reached(c), MSG_NOSIGNAL) /\ MSG_NOSIGNAL \in BOOLEAN
        /\ Reached(c) \in Client \cup {Nobody}
    BY <1>4, ReachedType, Zenon DEF BroadcastSend, MSG_NOSIGNAL
  <2>2. /\ peer' \in [Client -> {"off", "open", "closed", "reset"}]
        /\ unread' \in [Client -> 0..Cap]
        /\ server' \in {"up", "exited", "killed"}
    BY Zenon, <2>1, SendTypes
  <2>3. todo' \in [Client -> SUBSET Slot]
    BY <1>4, Zenon DEF BroadcastSend, TypeOK
  <2>4. /\ inside' = [inside EXCEPT ![c] = Nobody]
        /\ inside' \in [Client -> Client \cup {Nobody}]
    BY <1>4, Zenon DEF BroadcastSend, Return, TypeOK
  <2>5. TypeOK'
    BY <1>4, <2>2, <2>3, <2>4, Zenon DEF BroadcastSend, TypeOK, tableVars, mainVars, cleanupVars
  <2>6. /\ thread' = [thread EXCEPT ![c] = thread[c]] /\ MutexOK'
        /\ UNCHANGED <<tableVars, mainVars, sockfd, fds, cleanupVars>>
    BY <1>2, <1>4, Zenon DEF BroadcastSend, Good, Sound, MutexOK, cleanupVars
  <2>7. Good'
    BY Zenon, <1>2, <2>4, <2>6, GoodTalk
  <2> QED BY Zenon, <1>1, <1>2, <2>5, <2>6, <2>7
<1>5. CASE BroadcastEnd(c)
  <2>0. (IF thread[c] = "leave" THEN "remove" ELSE "read") \in Listed \ {"welcome"}
    BY DEF Listed
  <2>1. PICK l \in Listed \ {"welcome"} : thread' = [thread EXCEPT ![c] = l]
    BY <1>5, <2>0, Zenon DEF BroadcastEnd, Goto
  <2>2. thread' \in [Client -> Places] /\ name' \in [Client -> Client \cup {Nobody}]
    BY <1>5, <2>1, Zenon DEF BroadcastEnd, TypeOK, Listed, Places
  <2>3. TypeOK'
    BY <1>5, <2>2, Zenon DEF BroadcastEnd, TypeOK, tableVars, mainVars, netVars, fdVars,
                             cleanupVars
  <2>4. MutexOK'
    BY <1>1, <1>5, Zenon DEF BroadcastEnd, Good, Sound, MutexOK, cleanupVars
  <2>5. UNCHANGED <<tableVars, mainVars, sockfd, fds, inside, cleanupVars>>
    BY <1>5, Zenon DEF BroadcastEnd, fdVars
  <2>6. Good'
    BY Zenon, <1>2, <2>1, <2>4, <2>5, GoodTalk
  <2> QED BY Zenon, <1>1, <2>1, <2>3, <2>6
<1> QED BY Zenon, <1>3, <1>4, <1>5

-----------------------------------------------------------------------------
(* Steps that change the table or the sockets                              *)

(* accept gives a client that has none a descriptor nobody has.            *)
LEMMA AcceptStep ==
    ASSUME TypeOK, Good, NEW c \in Client, accept(c)
    PROVE  TypeOK' /\ Good'
<1> DEFINE f == new_socket'
<1>1. f \in Fd /\ fds[f] = Nobody
  <2>1. sockfd[c] = 0
    BY Zenon DEF accept, Waiting
  <2>2. {g \in Fd : fds[g] = Nobody} # {}
    BY Zenon, <2>1, DescriptorFree
  <2>3. {g \in Fd : fds[g] = Nobody} \in SUBSET Nat
    BY Zenon, Constants
  <2> QED BY <2>2, <2>3, MinProperties, Zenon DEF accept
<1>2. /\ fds' = [fds EXCEPT ![f] = c] /\ sockfd' = [sockfd EXCEPT ![c] = f]
      /\ main' = <<"add", c>> /\ main[1] = "select"
      /\ thread[c] = "off" /\ sockfd[c] = 0
      /\ UNCHANGED <<tableVars, clients_mutex, thread, inside, cleanupVars>>
  BY Zenon DEF accept, Waiting
<1>3. TypeOK'
  BY <1>1, <1>2 DEF accept, TypeOK, tableVars, netVars, cleanupVars
<1>4. /\ \A g \in Fd : fds'[g] = IF g = f THEN c ELSE fds[g]
      /\ \A d \in Client : sockfd'[d] = IF d = c THEN f ELSE sockfd[d]
  BY <1>1, <1>2, Zenon DEF TypeOK
<1>5. /\ Used' = Used /\ BeforeUnlock' = BeforeUnlock
      /\ \A i : Shut(i)' = Shut(i)
      /\ \A d : ShutClient(d)' = ShutClient(d)
  BY <1>2, TableStays, Zenon DEF cleanupVars
<1> HIDE DEF f
<1>6. Sound'
  <2>1. \A d \in Client : FdOK(d)'
    BY <1>1, <1>2, <1>4, Zenon DEF Good, Sound, FdOK
  <2>2. ASSUME NEW g \in Fd, fds'[g] # Nobody PROVE sockfd'[fds'[g]] = g
    <3>1. CASE g = f
      BY Zenon, <1>4, <3>1
    <3>2. CASE g # f
      <4>1. fds'[g] = fds[g] /\ fds[g] \in Client /\ sockfd[fds[g]] = g /\ g # 0
        BY <1>4, <2>2, <3>2, Constants DEF Good, Sound, BackOK, TypeOK
      <4> QED BY <1>2, <1>4, <4>1, Zenon
    <3> QED BY Zenon, <3>1, <3>2
  <2>3. MainFd'
    BY <1>1, <1>2, <1>4, Zenon DEF MainFd, f
  <2>4. MutexOK'
    BY <1>2, Zenon DEF Good, Sound, MutexOK, cleanupVars
  <2> QED BY <1>2, <1>5, <2>1, <2>2, <2>3, <2>4, Zenon DEF Good, Sound, BackOK, tableVars
<1>7. ASSUME Kept PROVE Kept'
  <2>1. ASSUME NEW d \in Client PROVE ThreadOK(d)'
    <3>1. ThreadOK(d) /\ FdOK(d)
      BY <1>7, Zenon DEF Kept, Good, Sound
    <3> QED BY <1>1, <1>2, <1>4, <1>5, <3>1, Constants, Zenon
            DEF ThreadOK, FdOK, Serving, Listed
  <2>2. \A d \in Client : InsideOK(d)'
    BY <1>2, <1>7, Zenon DEF Kept, InsideOK
  <2>3. \A g \in Fd : SocketOK(g)'
    <3> SUFFICES ASSUME NEW g \in Fd, fds'[g] # Nobody
                 PROVE  SocketOK(g)'
      BY Zenon DEF SocketOK
    <3>1. CASE g = f
      BY <1>2, <1>4, <3>1, Zenon DEF SocketOK
    <3>2. CASE g # f
      BY <1>2, <1>4, <1>7, <3>2, Zenon DEF Kept, SocketOK
    <3> QED BY Zenon, <3>1, <3>2
  <2>4. \A i \in Slot : SlotOK(i)'
    BY <1>2, <1>4, <1>7, Constants, ZenonT(30) DEF Kept, SlotOK, tableVars, Listed
  <2>5. OneSlot'
    BY <1>2, <1>5, <1>7, Zenon DEF Kept, OneSlot, tableVars
  <2>6. MainOK'
    BY <1>1, <1>2, <1>4, Zenon DEF MainOK, f
  <2>7. \A i \in Used' : ReuseOK(i)'
    <3> SUFFICES ASSUME NEW i \in Used, Shut(i), fds'[clients[i].sockfd] # Nobody
                 PROVE  fds'[clients[i].sockfd] = c
      BY <1>2, <1>5, Zenon DEF ReuseOK, tableVars
    <3>1. clients[i].sockfd \in Fd
      BY Zenon DEF Used, TypeOK
    <3>2. fds[clients[i].sockfd] = Nobody
      BY <1>2, <1>7 DEF Kept, ReuseOK
    <3> QED BY Zenon, <1>4, <3>1, <3>2
  <2> QED BY <2>1, <2>2, <2>3, <2>4, <2>5, <2>6, <2>7, Zenon DEF Kept
<1> QED BY <1>3, <1>5, <1>6, <1>7, Zenon DEF Good

(* main enters the client in the first free slot, if there is one.         *)
LEMMA AddStep ==
    ASSUME TypeOK, Good, AddClient
    PROVE  TypeOK' /\ Good'
<1> DEFINE c == main[2]
           i == Min(Holding(0))
<1>1. /\ main[1] = "add" /\ main' = <<"create", c>> /\ add_client(new_socket, c)
      /\ clients_mutex = Nobody
      /\ UNCHANGED <<clients_mutex, new_socket, threadVars, fdVars, netVars, cleanupVars, server>>
  BY Zenon DEF AddClient
<1>2. /\ c \in Client /\ thread[c] = "off" /\ new_socket = sockfd[c] /\ new_socket \in Fd
  BY <1>1, Zenon DEF Good, Sound, MainFd
<1>3. /\ \A d \in Client : FdOK(d)'
      /\ \A f \in Fd : BackOK(f)'
      /\ MainFd' /\ MutexOK'
  BY <1>1, <1>2, Zenon DEF Good, Sound, FdOK, BackOK, MainFd, MutexOK, threadVars, fdVars,
                           cleanupVars
<1>4. ASSUME BeforeUnlock PROVE handler = "idle" /\ Kept /\ \A d : ~ShutClient(d)
  BY <1>1, <1>4, NotBegun, Zenon DEF Good
<1>5. BeforeUnlock' = BeforeUnlock /\ (handler = "idle" => \A j : ~Shut(j)')
  BY <1>1, Zenon DEF BeforeUnlock, Shut, cleanupVars
<1>6. ASSUME BeforeUnlock
      PROVE  /\ \A d \in Client : ThreadOK(d)' /\ InsideOK(d)'
             /\ \A f \in Fd : SocketOK(f)'
             /\ \A j \in Used' : ReuseOK(j)'
             /\ MainOK' /\ fds[new_socket] = c
             /\ \A j \in Used : clients[j].addr # c /\ clients[j].sockfd # new_socket
  <2>1. fds[new_socket] = c
    BY <1>1, <1>4, <1>6, Zenon DEF Kept, MainOK
  <2>2. \A d \in Client : ThreadOK(d)' /\ InsideOK(d)'
    BY <1>1, <1>4, <1>6, Zenon DEF Kept, ThreadOK, InsideOK, threadVars, fdVars
  <2>3. \A f \in Fd : SocketOK(f)'
    BY <1>1, <1>2, <1>4, <1>6, Zenon DEF Kept, SocketOK, threadVars, fdVars
  <2>4. MainOK' /\ \A j \in Used' : ReuseOK(j)'
    BY <1>1, <1>4, <1>5, <1>6, <2>1, Zenon DEF MainOK, ReuseOK, fdVars
  <2>5. \A j \in Used : clients[j].addr \in Client /\ thread[clients[j].addr] \in Listed
    BY <1>1, <1>4, <1>6, Zenon DEF Kept, SlotOK, Used
  <2>6. \A j \in Used : clients[j].addr # c
    BY <1>2, <2>5, Zenon DEF Listed
  <2>7. Present(c)
    BY <1>1, Zenon DEF Present
  <2>8. \A j \in Used : clients[j].sockfd # new_socket
    BY <1>2, <1>4, <1>6, <2>6, <2>7, SlotPresent, OwnSocket, Zenon
  <2> QED BY Zenon, <2>1, <2>2, <2>3, <2>4, <2>6, <2>8
<1>7. CASE Holding(0) = {}
  <2>1. UNCHANGED <<clients, client_count>> /\ Used' = Used
    BY <1>1, <1>7, Zenon DEF add_client, tableVars, Used
  <2>2. TypeOK'
    BY <1>1, <1>2, <2>1, Zenon DEF TypeOK, threadVars, netVars, fdVars, cleanupVars
  <2>3. Sound'
    BY <1>3, <2>1, Zenon DEF Good, Sound
  <2>4. BeforeUnlock => OneSlot' /\ \A j \in Slot : SlotOK(j)'
    BY <1>1, <1>4, <2>1, Zenon DEF Kept, SlotOK, OneSlot, threadVars
  <2> QED BY <1>5, <1>6, <2>2, <2>3, <2>4, Zenon DEF Good, Kept
<1>8. CASE Holding(0) # {}
  <2>1. i \in Slot /\ clients[i].sockfd = 0
    BY <1>8, LookupType, Zenon DEF Holding
  <2>2. /\ clients' = [clients EXCEPT ![i] = [sockfd |-> new_socket, addr |-> c]]
        /\ client_count' = client_count + 1
    BY <1>1, <1>8, Zenon DEF add_client
  <2> HIDE DEF i
  <2>3. clients' \in [Slot -> [sockfd : Fd \cup {0}, addr : Client \cup {Nobody}]]
    BY <1>2, <2>1, <2>2, Zenon DEF TypeOK
  <2>4. /\ clients'[i].sockfd = new_socket /\ clients'[i].addr = c
        /\ \A j \in Slot \ {i} : clients'[j] = clients[j]
    BY <2>1, <2>2, Zenon DEF TypeOK
  <2>5. Used' = Used \cup {i} /\ i \notin Used
    BY <1>2, <2>1, <2>4, Constants, Zenon DEF Used
  <2>6. client_count' = Cardinality(Used') /\ client_count' \in 0..MAX_CLIENTS
    <3>1. Used \in SUBSET Slot /\ Used' \in SUBSET Slot
      BY Zenon DEF Used
    <3>2. Cardinality(Used \cup {i}) = Cardinality(Used) + 1
      BY Zenon, <2>5, <3>1, SlotCount, FS_AddElement
    <3> QED BY <2>2, <2>5, <3>1, <3>2, SlotCount, Zenon DEF Good, Sound
  <2>7. TypeOK'
    BY <1>1, <1>2, <2>3, <2>6, Zenon DEF TypeOK, threadVars, netVars, fdVars, cleanupVars
  <2>8. Sound'
    BY <1>3, <2>6, Zenon DEF Sound
  <2>9. ASSUME BeforeUnlock, NEW j \in Slot PROVE SlotOK(j)'
    <3>1. CASE j = i
      BY <1>1, <1>2, <2>4, <3>1, Zenon DEF SlotOK, threadVars
    <3>2. CASE j # i
      BY <1>1, <1>4, <2>4, <2>9, <3>2, Zenon DEF Kept, SlotOK, threadVars
    <3> QED BY Zenon, <3>1, <3>2
  <2>10. ASSUME BeforeUnlock PROVE OneSlot'
    <3>1. \A j \in Used : j \in Slot \ {i} /\ clients'[j] = clients[j]
      BY <2>4, <2>5, Zenon DEF Used
    <3>2. \A j, k \in Used : clients[j].addr = clients[k].addr \/ clients[j].sockfd = clients[k].sockfd
                             => j = k
      BY <1>4, <2>10, Zenon DEF Kept, OneSlot
    <3>3. \A j \in Used : clients[j].addr # c /\ clients[j].sockfd # new_socket
      BY <1>6, <2>10, Zenon
    <3> QED BY <2>4, <2>5, <3>1, <3>2, <3>3 DEF OneSlot
  <2> QED BY <1>5, <1>6, <2>7, <2>8, <2>9, <2>10, Zenon DEF Good, Kept
<1> QED BY Zenon, <1>7, <1>8

(* A welcome that waits on a number that is closed keeps its own client,   *)
(* unless the number had been given to another.                            *)
LEMMA InsideClose ==
    ASSUME TypeOK, Good, Kept, NEW f, close(f),
           \A d \in Client : thread[d] = "welcome" /\ sockfd[d] = f =>
                                fds[f] = Nobody \/ fds[f] = d
    PROVE  \A c \in Client : /\ thread[c] = "off" => inside'[c] = Nobody
                             /\ thread[c] = "welcome" => inside'[c] = Nobody \/ inside'[c] = c
<1> SUFFICES ASSUME NEW c \in Client
             PROVE  /\ thread[c] = "off" => inside'[c] = Nobody
                    /\ thread[c] = "welcome" => inside'[c] = Nobody \/ inside'[c] = c
  BY Zenon
<1>1. InsideOK(c)
  BY Zenon DEF Kept
<1>2. CASE inside'[c] = inside[c]
  BY <1>1, <1>2, Zenon DEF InsideOK
<1>3. CASE c # victim /\ Using(c) = f /\ inside'[c] = Reached(c) /\ inside[c] = Nobody
  <2>1. Reached(c) = Nobody \/ Reached(c) = fds[f]
    BY <1>3, Zenon DEF Reached
  <2>2. thread[c] = "welcome" => sockfd[c] = f
    BY <1>3, Zenon DEF Using
  <2>3. thread[c] = "off" => Reached(c) = Nobody
    <3>1. ASSUME thread[c] = "off" PROVE clients_mutex # c
      BY <1>3, <3>1, Constants, Zenon DEF Good, Sound, MutexOK
    <3>2. thread[c] = "off" => Using(c) = 0
      BY <3>1, Zenon DEF Using
    <3> QED BY <1>3, <3>2, Constants, Zenon DEF Reached
  <2> QED BY Zenon, <1>3, <2>1, <2>2, <2>3
<1>4. CASE inside'[c] = Reached(c) /\ inside[c] # Nobody
  BY <1>1, <1>4, Zenon DEF InsideOK, Reached
<1> QED BY Zenon, <1>2, <1>3, <1>4, CloseEffect

(* The thread is created, or the socket is closed again.                   *)
LEMMA CreateStep ==
    ASSUME TypeOK, Good, pthread_create
    PROVE  TypeOK' /\ Good'
<1> DEFINE c == main[2]
<1>1. /\ main[1] = "create"
      /\ c \in Client /\ thread[c] = "off" /\ new_socket = sockfd[c] /\ new_socket \in Fd
      /\ UNCHANGED <<clients, client_count, clients_mutex, sockfd, name, todo, netVars,
                     cleanupVars, server>>
  BY Zenon DEF pthread_create, Good, Sound, MainFd, tableVars
<1>2. /\ Used' = Used /\ BeforeUnlock' = BeforeUnlock
      /\ \A i : Shut(i)' = Shut(i)
      /\ \A d : ShutClient(d)' = ShutClient(d)
  BY <1>1, TableStays, Zenon DEF tableVars, cleanupVars
<1>3. ASSUME Kept
      PROVE  /\ OneSlot'
             /\ fds[new_socket] = c \/ (fds[new_socket] = Nobody /\ ShutClient(c))
             /\ \A i \in Used : Shut(i) => fds[clients[i].sockfd] = Nobody
  <2>1. \A d : main # <<"add", d>>
    BY <1>1
  <2> QED BY <1>1, <1>2, <1>3, <2>1, Zenon DEF Kept, OneSlot, MainOK, ReuseOK
<1>4. CASE /\ client' = [client EXCEPT ![c] = client_count]
           /\ thread' = [thread EXCEPT ![c] = "welcome"]
           /\ main' = <<"build", Nobody>> /\ new_socket' = 0
           /\ UNCHANGED fdVars
  <2>1. TypeOK'
    BY <1>1, <1>4, Zenon DEF TypeOK, Places, netVars, fdVars, cleanupVars
  <2>2. \A d \in Client : thread'[d] = IF d = c THEN "welcome" ELSE thread[d]
    BY <1>1, <1>4, Zenon DEF TypeOK
  <2>3. Sound'
    <3>1. \A d \in Client : FdOK(d)'
      BY <1>1, <2>2, Zenon DEF Good, Sound, FdOK
    <3>2. (\A f \in Fd : BackOK(f)') /\ MainFd'
      BY <1>1, <1>4, Zenon DEF Good, Sound, BackOK, MainFd, fdVars
    <3>3. MutexOK'
      BY <1>1, <2>2, Zenon DEF Good, Sound, MutexOK, cleanupVars
    <3> QED BY <1>1, <1>2, <3>1, <3>2, <3>3, Zenon DEF Good, Sound
  <2>4. ASSUME Kept PROVE Kept'
    <3>1. ASSUME NEW d \in Client PROVE ThreadOK(d)' /\ InsideOK(d)'
      <4>1. ThreadOK(d) /\ InsideOK(d)
        BY <2>4, Zenon DEF Kept
      <4> QED BY <1>1, <1>2, <1>3, <1>4, <2>2, <2>4, <4>1, Zenon DEF ThreadOK, InsideOK, fdVars
    <3>2. \A f \in Fd : SocketOK(f)'
      BY <1>1, <1>4, <2>2, <2>4 DEF Kept, SocketOK, Serving, Listed, TypeOK, fdVars
    <3>3. \A i \in Slot : SlotOK(i)'
      BY <1>1, <1>4, <2>2, <2>4 DEF Kept, SlotOK, Listed
    <3>4. MainOK' /\ \A i \in Used' : ReuseOK(i)'
      BY <1>1, <1>2, <1>3, <1>4, <2>4, Zenon DEF MainOK, ReuseOK, fdVars
    <3> QED BY <1>3, <2>4, <3>1, <3>2, <3>3, <3>4, Zenon DEF Kept
  <2> QED BY <1>2, <2>1, <2>3, <2>4, Zenon DEF Good
<1>5. CASE /\ main' = <<"undo", c>>
           /\ close(new_socket)
           /\ UNCHANGED <<client, thread, new_socket>>
  <2>1. /\ fds' \in [Fd -> Client \cup {Nobody}]
        /\ inside' \in [Client -> Client \cup {Nobody}]
        /\ \A f \in Fd : fds'[f] = IF f = new_socket THEN Nobody ELSE fds[f]
    BY Zenon, <1>5, CloseEffect
  <2>2. TypeOK'
    BY <1>1, <1>5, <2>1, Zenon DEF TypeOK, netVars, cleanupVars
  <2>3. Sound'
    <3>1. (\A d \in Client : FdOK(d)') /\ \A f \in Fd : BackOK(f)'
      BY <1>1, <1>5, <2>1, Zenon DEF Good, Sound, FdOK, BackOK
    <3>2. MainFd' /\ MutexOK'
      BY <1>1, <1>5, Zenon DEF Good, Sound, MainFd, MutexOK, cleanupVars
    <3> QED BY <1>1, <1>2, <3>1, <3>2, Zenon DEF Good, Sound
  <2>4. ASSUME Kept PROVE Kept'
    <3>1. ASSUME NEW d \in Client PROVE ThreadOK(d)'
      <4>1. ThreadOK(d) /\ FdOK(d)
        BY <2>4, Zenon DEF Kept, Good, Sound
      <4> QED BY <1>1, <1>2, <1>3, <1>5, <2>1, <2>4, <4>1, Constants, Zenon
              DEF ThreadOK, FdOK, Serving, Listed
    <3>2. \A d \in Client : InsideOK(d)'
      <4>1. ASSUME NEW d \in Client, thread[d] = "welcome", sockfd[d] = new_socket
            PROVE  fds[new_socket] = Nobody \/ fds[new_socket] = d
        <5>1. ThreadOK(d) /\ thread[d] \in Serving
          BY <2>4, <4>1, Zenon DEF Kept, Serving, Listed
        <5>2. CASE ShutClient(d)
          <6>1. PICK i \in Used : Shut(i) /\ clients[i].addr = d
            BY <5>2, Zenon DEF ShutClient
          <6> QED BY Zenon, <1>3, <2>4, <4>1, <6>1, SlotPresent
        <5> QED BY <4>1, <5>1, <5>2, Zenon DEF ThreadOK
      <4> QED BY <1>5, <2>4, <4>1, InsideClose, Zenon DEF InsideOK
    <3>3. ASSUME NEW f \in Fd PROVE SocketOK(f)'
      <4>1. SocketOK(f) /\ BackOK(f)
        BY <2>4, Zenon DEF Kept, Good, Sound
      <4> QED BY <1>1, <1>5, <2>1, <4>1, Zenon DEF SocketOK, BackOK
    <3>4. \A i \in Slot : SlotOK(i)'
      BY <1>1, <1>5, <2>4, Zenon DEF Kept, SlotOK
    <3>5. MainOK'
      BY <1>1, <1>5, <2>1, Zenon DEF MainOK
    <3>6. \A i \in Used' : ReuseOK(i)'
      <4>1. \A i \in Used : clients[i].sockfd \in Fd
        BY Zenon DEF Used, TypeOK
      <4> QED BY <1>1, <1>2, <1>3, <2>1, <2>4, <4>1, Zenon DEF ReuseOK
    <3> QED BY <1>3, <2>4, <3>1, <3>2, <3>3, <3>4, <3>5, <3>6, Zenon DEF Kept
  <2> QED BY <1>2, <2>2, <2>3, <2>4, Zenon DEF Good
<1> QED BY <1>4, <1>5, Zenon DEF pthread_create, Goto

(* remove_client clears one slot or none; before cleanup it is that of the *)
(* client whose socket it is given.                                        *)
LEMMA Removal ==
    ASSUME TypeOK, Good, NEW c \in Client, Present(c), NEW f \in Fd, f = sockfd[c],
           remove_client(f)
    PROVE  /\ clients' \in [Slot -> [sockfd : Fd \cup {0}, addr : Client \cup {Nobody}]]
           /\ client_count' = Cardinality(Used') /\ client_count' \in 0..MAX_CLIENTS
           /\ \A j \in Slot : clients'[j].sockfd # 0 => j \in Used /\ clients'[j] = clients[j]
           /\ handler = "idle" =>
                 \A j \in Slot : clients'[j].sockfd # 0 => clients[j].addr # c
<1> DEFINE i == Min(Holding(f))
<1>0. Used \in SUBSET Slot /\ Used' \in SUBSET Slot /\ f # 0
  BY Constants, Zenon DEF Used
<1>1. handler = "idle" => Kept
  BY Zenon DEF Good, BeforeUnlock
<1>2. CASE Holding(f) = {}
  <2>1. UNCHANGED <<clients, client_count>> /\ Used' = Used
    BY <1>2, Zenon DEF remove_client, tableVars, Used
  <2>2. \A j \in Used : clients[j].sockfd # f
    BY <1>2, Zenon DEF Holding, Used
  <2>3. handler = "idle" => \A j \in Used : clients[j].addr # c
    BY Zenon, <1>1, <2>2, SlotPresent
  <2> QED BY <2>1, <2>3, Zenon DEF Good, Sound, TypeOK, Used
<1>3. CASE Holding(f) # {}
  <2>1. i \in Slot /\ clients[i].sockfd = f
    BY <1>3, LookupType, Zenon DEF Holding
  <2>2. /\ clients' = [clients EXCEPT ![i] = Free]
        /\ client_count' = client_count - 1
    BY <1>3, Zenon DEF remove_client
  <2> HIDE DEF i
  <2>3. i \in Used /\ (handler = "idle" => clients[i].addr = c)
    BY <1>0, <2>1, SlotOfSocket, Zenon DEF Used
  <2>4. clients' \in [Slot -> [sockfd : Fd \cup {0}, addr : Client \cup {Nobody}]]
    BY <2>1, <2>2, Zenon DEF TypeOK, Free
  <2>5. clients'[i].sockfd = 0 /\ \A j \in Slot \ {i} : clients'[j] = clients[j]
    BY <2>1, <2>2, Zenon DEF TypeOK, Free
  <2>6. Used' = Used \ {i}
    BY <2>5, <2>3 DEF Used
  <2>7. client_count' = Cardinality(Used') /\ client_count' \in 0..MAX_CLIENTS
    <3>1. Cardinality(Used \ {i}) = Cardinality(Used) - 1
      BY Zenon, <1>0, <2>3, SlotCount, FS_RemoveElement
    <3> QED BY <1>0, <2>2, <2>6, <3>1, SlotCount, Zenon DEF Good, Sound
  <2>8. \A j \in Slot : clients'[j].sockfd # 0 => j \in Used /\ j # i /\ clients'[j] = clients[j]
    BY <2>5, Zenon DEF Used
  <2>9. handler = "idle" => \A j \in Slot : clients'[j].sockfd # 0 => clients[j].addr # c
    BY <1>1, <2>3, <2>8, Zenon DEF Kept, OneSlot
  <2> QED BY Zenon, <2>4, <2>7, <2>8, <2>9
<1> QED BY Zenon, <1>2, <1>3

(* main removes the client it could not serve.                             *)
LEMMA UndoStep ==
    ASSUME TypeOK, Good, UndoAccept
    PROVE  TypeOK' /\ Good'
<1> DEFINE c == main[2]
<1>1. /\ main[1] = "undo" /\ main' = <<"build", Nobody>> /\ new_socket' = 0
      /\ thread' = [thread EXCEPT ![c] = "gone"] /\ remove_client(new_socket)
      /\ clients_mutex = Nobody
      /\ UNCHANGED <<clients_mutex, sockfd, client, name, todo, fdVars, netVars, cleanupVars,
                     server>>
  BY Zenon DEF UndoAccept, Goto
<1>2. /\ c \in Client /\ thread[c] = "off" /\ new_socket = sockfd[c] /\ new_socket \in Fd
  BY <1>1, Zenon DEF Good, Sound, MainFd
<1>3. Present(c)
  BY <1>1, Zenon DEF Present
<1>4. /\ clients' \in [Slot -> [sockfd : Fd \cup {0}, addr : Client \cup {Nobody}]]
      /\ client_count' = Cardinality(Used') /\ client_count' \in 0..MAX_CLIENTS
      /\ \A j \in Slot : clients'[j].sockfd # 0 => j \in Used /\ clients'[j] = clients[j]
      /\ handler = "idle" => \A j \in Slot : clients'[j].sockfd # 0 => clients[j].addr # c
  BY Zenon, <1>1, <1>2, <1>3, Removal
<1>5. TypeOK'
  BY <1>1, <1>2, <1>4, Zenon DEF TypeOK, Places, netVars, fdVars, cleanupVars
<1>6. \A d \in Client : thread'[d] = IF d = c THEN "gone" ELSE thread[d]
  BY <1>1, <1>2, Zenon DEF TypeOK
<1>7. Sound'
  <2>1. \A d \in Client : FdOK(d)'
    BY <1>1, <1>6, SMTT(30) DEF Good, Sound, FdOK, Serving, Listed
  <2>2. (\A f \in Fd : BackOK(f)') /\ MainFd'
    BY <1>1, Zenon DEF Good, Sound, BackOK, MainFd, fdVars
  <2>3. MutexOK'
    BY <1>1, Zenon DEF Good, Sound, MutexOK, cleanupVars
  <2> QED BY <1>4, <2>1, <2>2, <2>3, Zenon DEF Sound
<1>8. ASSUME BeforeUnlock PROVE Kept'
  <2>1. handler = "idle" /\ Kept /\ (\A d : ~ShutClient(d)) /\ \A j : ~Shut(j)'
    BY <1>1, <1>8, NotBegun, Zenon DEF Good, Shut, cleanupVars
  <2>2. ASSUME NEW d \in Client PROVE ThreadOK(d)'
    <3>1. ThreadOK(d)
      BY <2>1, Zenon DEF Kept
    <3> QED BY <1>1, <1>6, <2>1, <3>1, SMTT(30) DEF ThreadOK, Serving, Listed, fdVars
  <2>3. \A d \in Client : InsideOK(d)'
    BY <1>1, <1>6, <2>1, SMTT(30) DEF Kept, InsideOK, fdVars
  <2>4. \A f \in Fd : SocketOK(f)'
    BY <1>1, <1>2, <1>6, <2>1, SMTT(30) DEF Kept, SocketOK, Serving, Listed, TypeOK, fdVars
  <2>5. \A j \in Slot : SlotOK(j)'
    BY <1>1, <1>4, <1>6, <2>1, SMTT(30) DEF Kept, SlotOK, Used
  <2>6. OneSlot'
    BY <1>4, <2>1, Zenon DEF Kept, OneSlot, Used
  <2>7. MainOK' /\ \A j \in Used' : ReuseOK(j)'
    BY <1>1, <2>1, Zenon DEF MainOK, ReuseOK
  <2> QED BY <2>2, <2>3, <2>4, <2>5, <2>6, <2>7, Zenon DEF Kept
<1> QED BY <1>1, <1>5, <1>7, <1>8, Zenon DEF Good, BeforeUnlock, cleanupVars

(* A thread removes its client from the table.                             *)
LEMMA RemoveStep ==
    ASSUME TypeOK, Good, NEW c \in Client, RemoveSelf(c)
    PROVE  TypeOK' /\ Good'
<1>1. /\ thread[c] = "remove" /\ thread' = [thread EXCEPT ![c] = "close"]
      /\ remove_client(sockfd[c]) /\ clients_mutex = Nobody
      /\ UNCHANGED <<clients_mutex, main, new_socket, sockfd, client, name, todo, fdVars, netVars,
                     cleanupVars, server>>
  BY Zenon DEF RemoveSelf, Goto, mainVars
<1>2. Present(c) /\ sockfd[c] \in Fd
  BY <1>1, Zenon DEF Present, Good, Sound, FdOK, Serving, Listed
<1>3. /\ clients' \in [Slot -> [sockfd : Fd \cup {0}, addr : Client \cup {Nobody}]]
      /\ client_count' = Cardinality(Used') /\ client_count' \in 0..MAX_CLIENTS
      /\ \A j \in Slot : clients'[j].sockfd # 0 => j \in Used /\ clients'[j] = clients[j]
      /\ handler = "idle" => \A j \in Slot : clients'[j].sockfd # 0 => clients[j].addr # c
  BY Zenon, <1>1, <1>2, Removal
<1>4. TypeOK'
  BY <1>1, <1>3, Zenon DEF TypeOK, Places, netVars, fdVars, cleanupVars
<1>5. \A d \in Client : thread'[d] = IF d = c THEN "close" ELSE thread[d]
  BY <1>1, Zenon DEF TypeOK
<1>6. Sound'
  <2>1. \A d \in Client : FdOK(d)'
    BY <1>1, <1>2, <1>5, Zenon DEF Good, Sound, FdOK
  <2>2. (\A f \in Fd : BackOK(f)') /\ MainFd'
    BY <1>1, <1>5, Zenon DEF Good, Sound, BackOK, MainFd, fdVars
  <2>3. MutexOK'
    BY <1>1, Zenon DEF Good, Sound, MutexOK, cleanupVars
  <2> QED BY <1>3, <2>1, <2>2, <2>3, Zenon DEF Sound
<1>7. ASSUME BeforeUnlock PROVE Kept'
  <2>1. handler = "idle" /\ Kept /\ (\A d : ~ShutClient(d)) /\ \A j : ~Shut(j)'
    BY <1>1, <1>7, NotBegun, Zenon DEF Good, Shut, cleanupVars
  <2>2. fds[sockfd[c]] = c
    BY <1>1, <2>1, Zenon DEF Kept, ThreadOK, Serving, Listed
  <2>3. \A d \in Client : ThreadOK(d)' /\ InsideOK(d)'
    <3>1. \A d \in Client : ThreadOK(d)'
      BY <1>1, <1>5, <2>1, <2>2, Zenon DEF Kept, ThreadOK, fdVars
    <3>2. \A d \in Client : InsideOK(d)'
      BY <1>1, <1>5, <2>1 DEF Kept, InsideOK, fdVars
    <3> QED BY Zenon, <3>1, <3>2
  <2>4. \A f \in Fd : SocketOK(f)'
    BY <1>1, <1>5, <2>1 DEF Kept, SocketOK, Serving, TypeOK, fdVars
  <2>5. ASSUME NEW j \in Slot PROVE SlotOK(j)'
    <3>1. SlotOK(j)
      BY <2>1, Zenon DEF Kept
    <3> QED BY <1>1, <1>3, <1>5, <2>1, <3>1, Zenon DEF SlotOK, Used
  <2>6. OneSlot'
    BY <1>3, <2>1, Zenon DEF Kept, OneSlot, Used
  <2>7. MainOK' /\ \A j \in Used' : ReuseOK(j)'
    BY <1>1, <2>1, Zenon DEF Kept, MainOK, ReuseOK, fdVars
  <2> QED BY <2>3, <2>4, <2>5, <2>6, <2>7, Zenon DEF Kept
<1> QED BY <1>1, <1>4, <1>6, <1>7, Zenon DEF Good, BeforeUnlock, cleanupVars

(* A thread closes its socket: nobody else's, until cleanup unlocks.       *)
LEMMA CloseStep ==
    ASSUME TypeOK, Good, NEW c \in Client, CloseSelf(c)
    PROVE  TypeOK' /\ Good'
<1> DEFINE f == sockfd[c]
<1>1. /\ thread[c] = "close" /\ thread' = [thread EXCEPT ![c] = "gone"] /\ close(f)
      /\ UNCHANGED <<clients, client_count, clients_mutex, main, new_socket, sockfd, client,
                     name, todo, netVars, cleanupVars, server>>
  BY Zenon DEF CloseSelf, Goto, mainVars, tableVars
<1>2. /\ fds' \in [Fd -> Client \cup {Nobody}]
      /\ inside' \in [Client -> Client \cup {Nobody}]
      /\ \A g \in Fd : fds'[g] = IF g = f THEN Nobody ELSE fds[g]
  BY Zenon, <1>1, CloseEffect
<1>3. f \in Fd
  BY <1>1, Zenon DEF Good, Sound, FdOK, Serving
<1> HIDE DEF f
<1>4. \A d \in Client : thread'[d] = IF d = c THEN "gone" ELSE thread[d]
  BY <1>1, Zenon DEF TypeOK
<1>5. TypeOK'
  BY <1>1, <1>2, Zenon DEF TypeOK, Places, netVars, cleanupVars
<1>6. /\ Used' = Used /\ BeforeUnlock' = BeforeUnlock
      /\ \A i : Shut(i)' = Shut(i)
      /\ \A d : ShutClient(d)' = ShutClient(d)
  BY <1>1, TableStays, Zenon DEF tableVars, cleanupVars
<1>7. Sound'
  <2>1. \A d \in Client : FdOK(d)'
    BY <1>1, <1>4, SMTT(30) DEF Good, Sound, FdOK, Serving, Listed
  <2>2. \A g \in Fd : BackOK(g)'
    BY <1>1, <1>2, Zenon DEF Good, Sound, BackOK
  <2>3. MainFd'
    BY <1>1, <1>4, Zenon DEF Good, Sound, MainFd
  <2>4. MutexOK'
    BY <1>1, <1>4, Zenon DEF Good, Sound, MutexOK, cleanupVars
  <2> QED BY <1>1, <1>6, <2>1, <2>2, <2>3, <2>4, Zenon DEF Good, Sound
<1>8. ASSUME Kept PROVE Kept'
  <2>1. fds[f] = c
    <3>1. ~ShutClient(c)
      BY <1>1, <1>8, Zenon DEF ShutClient, Kept, SlotOK, Used, Listed, Good, Sound, MainFd
    <3> QED BY <1>1, <1>8, <3>1, Zenon DEF Kept, ThreadOK, Serving, f
  <2>2. ASSUME NEW d \in Client PROVE ThreadOK(d)'
    <3>1. ThreadOK(d) /\ FdOK(d)
      BY <1>8, Zenon DEF Kept, Good, Sound
    <3> QED BY <1>1, <1>2, <1>4, <1>6, <2>1, <3>1, SMTT(30) DEF ThreadOK, FdOK, Serving, Listed
  <2>3. \A d \in Client : InsideOK(d)'
    <3>1. ASSUME NEW d \in Client, thread[d] = "welcome", sockfd[d] = f
          PROVE  fds[f] = Nobody \/ fds[f] = d
      <4>1. ThreadOK(d) /\ thread[d] \in Serving
        BY <1>8, <3>1, Zenon DEF Kept, Serving, Listed
      <4>2. CASE ShutClient(d)
        <5>1. PICK i \in Used : Shut(i) /\ clients[i].addr = d
          BY <4>2, Zenon DEF ShutClient
        <5>2. clients[i].sockfd = f
          BY Zenon, <1>8, <3>1, <5>1, SlotPresent
        <5>3. main # <<"add", c>>
          BY <1>1 DEF Good, Sound, MainFd
        <5> QED BY <1>8, <2>1, <5>1, <5>2, <5>3, Zenon DEF Kept, ReuseOK
      <4> QED BY <3>1, <4>1, <4>2, Zenon DEF ThreadOK
    <3>2. \A d \in Client : /\ thread[d] = "off" => inside'[d] = Nobody
                            /\ thread[d] = "welcome" => inside'[d] = Nobody \/ inside'[d] = d
      BY <1>1, <1>8, <3>1, InsideClose, Zenon
    <3> QED BY <1>4, <3>2, SMTT(30) DEF InsideOK
  <2>4. \A g \in Fd : SocketOK(g)'
    BY <1>1, <1>2, <1>4, <1>8, <2>1, SMTT(30) DEF Kept, SocketOK, Good, Sound, BackOK, TypeOK, f
  <2>5. ASSUME NEW j \in Slot PROVE SlotOK(j)'
    <3>1. SlotOK(j)
      BY <1>8, Zenon DEF Kept
    <3> QED BY <1>1, <1>4, <3>1, Zenon DEF SlotOK, Listed
  <2>6. OneSlot'
    BY <1>1, <1>6, <1>8, Zenon DEF Kept, OneSlot
  <2>7. MainOK'
    BY <1>1, <1>2, <1>6, <1>8, <2>1, SMTT(30) DEF Kept, MainOK, Good, Sound, MainFd
  <2>8. \A j \in Used' : ReuseOK(j)'
    <3>1. \A j \in Used : clients[j].sockfd \in Fd
      BY Zenon DEF Used, TypeOK
    <3> QED BY <1>1, <1>2, <1>6, <1>8, <3>1, Zenon DEF Kept, ReuseOK
  <2> QED BY <2>2, <2>3, <2>4, <2>5, <2>6, <2>7, <2>8, Zenon DEF Kept
<1> QED BY <1>5, <1>6, <1>7, <1>8, Zenon DEF Good

-----------------------------------------------------------------------------
(* The signal handler                                                      *)

(* A thread is interrupted; cleanup has not begun.                         *)
LEMMA SigintStep ==
    ASSUME TypeOK, Good, NEW t \in Alive, SIGINT(t)
    PROVE  TypeOK' /\ Good'
<1>1. /\ victim' = t /\ t \in Client \cup {"main"} /\ handler = "idle"
      /\ UNCHANGED <<tableVars, clients_mutex, mainVars, threadVars, fdVars, netVars, handler,
                     closing, server>>
  BY Zenon DEF SIGINT, Alive, Good, Sound, MutexOK
<1>2. TypeOK'
  BY <1>1, Zenon DEF TypeOK, tableVars, mainVars, threadVars, fdVars, netVars
<1>3. /\ Used' = Used /\ BeforeUnlock' = BeforeUnlock
      /\ \A i : Shut(i)' = Shut(i)
      /\ \A c : ShutClient(c)' = ShutClient(c)
  BY Zenon, <1>1, TableStays
<1>4. MutexOK'
  BY <1>1, Zenon DEF Good, Sound, MutexOK, threadVars
<1>5. Sound'
  BY <1>1, <1>3, <1>4, Zenon DEF Good, Sound, FdOK, BackOK, MainFd, tableVars, mainVars,
                                 threadVars, fdVars
<1>6. Kept => Kept'
  BY <1>1, <1>3, Zenon DEF Kept, ThreadOK, SocketOK, SlotOK, OneSlot, MainOK, ReuseOK, InsideOK,
                           tableVars, mainVars, threadVars, fdVars
<1> QED BY <1>2, <1>3, <1>5, <1>6, Zenon DEF Good

(* cleanup takes the mutex, and gives it back.                             *)
LEMMA LockStep ==
    ASSUME TypeOK, Good, CleanupLock \/ CleanupUnlock, victim # Nobody,
           UNCHANGED <<tableVars, mainVars, threadVars, netVars, victim, server>>
    PROVE  TypeOK' /\ Good'
<1>1. /\ handler' \in {"closing", "unlocked"} /\ closing' \in SUBSET Slot
      /\ clients_mutex' \in Client \cup {"main", Nobody} /\ UNCHANGED fdVars
  BY Zenon DEF CleanupLock, CleanupUnlock, TypeOK, Used
<1>2. TypeOK'
  BY <1>1, Zenon DEF TypeOK, tableVars, mainVars, threadVars, fdVars, netVars
<1>3. Used' = Used
  BY Zenon DEF Used, tableVars
<1>4. MutexOK'
  BY Zenon DEF CleanupLock, CleanupUnlock, MutexOK
<1>5. Sound'
  BY <1>1, <1>3, <1>4, Zenon DEF Good, Sound, FdOK, BackOK, MainFd, tableVars, mainVars,
                                 threadVars, fdVars
<1>6. ASSUME BeforeUnlock' PROVE Kept'
  <2>1. handler = "idle" /\ closing' = Used
    BY <1>6, Zenon DEF BeforeUnlock, CleanupLock, CleanupUnlock
  <2>2. (\A i \in Used : ~Shut(i)') /\ \A c : ~ShutClient(c)
    BY <1>3, <2>1, Zenon DEF Shut, ShutClient
  <2>3. Kept
    BY <2>1, Zenon DEF Good, BeforeUnlock
  <2> QED BY <1>1, <1>3, <2>2, <2>3, Zenon
          DEF Kept, ThreadOK, SocketOK, SlotOK, OneSlot, MainOK, ReuseOK, InsideOK, tableVars,
              mainVars, threadVars, fdVars
<1> QED BY <1>2, <1>5, <1>6, Zenon DEF Good

(* cleanup closes the socket in a slot: that of the client named there.    *)
LEMMA ShutStep ==
    ASSUME TypeOK, Good, CleanupClose,
           UNCHANGED <<tableVars, mainVars, threadVars, netVars, victim, server>>
    PROVE  TypeOK' /\ Good'
<1>0. PICK i, f, c : i = Min(closing) /\ f = clients[i].sockfd /\ c = clients[i].addr
  BY Zenon
<1>1. /\ handler = "closing" /\ closing # {} /\ closing' = closing \ {i} /\ close(f)
      /\ UNCHANGED <<clients_mutex, handler>>
  BY <1>0, Zenon DEF CleanupClose
<1>2. i \in closing /\ i \in Slot
  <2>1. closing \in SUBSET Nat /\ closing \in SUBSET Slot
    BY Constants, Zenon DEF TypeOK
  <2> QED BY Zenon, <1>0, <1>1, <2>1, MinProperties
<1>3. /\ fds' \in [Fd -> Client \cup {Nobody}]
      /\ inside' \in [Client -> Client \cup {Nobody}]
      /\ \A g \in Fd : fds'[g] = IF g = f THEN Nobody ELSE fds[g]
  BY Zenon, <1>1, CloseEffect
<1>4. TypeOK'
  BY <1>1, <1>3, Zenon DEF TypeOK, tableVars, mainVars, threadVars, netVars
<1>5. Used' = Used /\ BeforeUnlock
  BY <1>1, Zenon DEF Used, BeforeUnlock, tableVars
<1>6. Sound'
  <2>1. \A g \in Fd : BackOK(g)'
    BY <1>3, Zenon DEF Good, Sound, BackOK, threadVars
  <2>2. MutexOK'
    BY <1>1, Zenon DEF Good, Sound, MutexOK, threadVars
  <2> QED BY <1>5, <2>1, <2>2, Zenon DEF Good, Sound, FdOK, MainFd, tableVars, mainVars, threadVars
<1>7. Kept /\ Sound
  BY <1>5, Zenon DEF Good
<1>8. /\ \A j \in Used : Shut(j)' <=> Shut(j) \/ j = i
      /\ ~Shut(i)
  BY <1>1, <1>2, <1>5, Zenon DEF Shut
<1>9. \A d : ShutClient(d) => ShutClient(d)'
  BY <1>5, <1>8, Zenon DEF ShutClient, tableVars
<1>10. \A d : ShutClient(d) => ~(i \in Used /\ c = d) /\ (d \in Client /\ i \in Used => sockfd[d] # f)
  <2> SUFFICES ASSUME NEW d, ShutClient(d), i \in Used
               PROVE  c # d /\ (d \in Client => sockfd[d] # f)
    BY Zenon
  <2>1. PICK j \in Used : Shut(j) /\ clients[j].addr = d
    BY Zenon DEF ShutClient
  <2>2. j # i
    BY Zenon, <1>8, <2>1
  <2>3. sockfd[d] = clients[j].sockfd
    BY Zenon, <1>7, <2>1, SlotPresent
  <2> QED BY <1>0, <1>7, <2>1, <2>2, <2>3, Zenon DEF Kept, OneSlot
<1>11. ASSUME i \in Used, f \in Fd, fds[f] # Nobody
       PROVE  fds[f] = c /\ ShutClient(c)' /\ (thread[c] \in Listed \/ (main[1] = "create" /\ main[2] = c))
  <2>1. /\ c \in Client /\ sockfd[c] = f
        /\ \/ thread[c] \in Listed
           \/ main[1] \in {"create", "undo"} /\ main[2] = c
    BY <1>0, <1>7, <1>11, Zenon DEF Kept, SlotOK, Used
  <2>2. ~ShutClient(c)
    BY Zenon, <1>10, <1>11
  <2>3. ShutClient(c)'
    BY <1>0, <1>5, <1>8, <1>11, Zenon DEF ShutClient, tableVars
  <2>4. CASE thread[c] \in Listed
    <3>1. ThreadOK(c) /\ thread[c] \in Serving
      BY <1>7, <2>1, <2>4, Zenon DEF Kept, Serving
    <3>2. fds[sockfd[c]] = c
      BY <2>2, <3>1, Zenon DEF ThreadOK
    <3>3. fds[f] = c
      BY <2>1, <3>2
    <3> QED BY Zenon, <2>3, <2>4, <3>3
  <2>5. CASE main[1] \in {"create", "undo"} /\ main[2] = c
    BY <1>7, <1>11, <2>1, <2>2, <2>3, <2>5, Zenon DEF Kept, MainOK, Sound, MainFd
  <2> QED BY Zenon, <2>1, <2>4, <2>5
<1>12. CASE i \notin Used
  <2>1. f = 0 /\ f \notin Fd
    BY <1>0, <1>2, <1>12, Constants, Zenon DEF Used
  <2>2. fds' = fds
    BY <1>3, <2>1 DEF TypeOK
  <2>3. \A d \in Client : InsideOK(d)'
    <3>1. \A d \in Client : thread[d] = "welcome" => sockfd[d] # f
      BY <1>7, <2>1, Zenon DEF Sound, FdOK, Serving, Listed
    <3> QED BY <1>1, <1>7, <3>1, InsideClose, Zenon DEF InsideOK, threadVars
  <2>4. (\A j \in Used : Shut(j)' <=> Shut(j)) /\ \A d : ShutClient(d)' <=> ShutClient(d)
    BY <1>5, <1>8, <1>12, Zenon DEF ShutClient, tableVars
  <2>5. Kept'
    BY <1>5, <1>7, <2>2, <2>3, <2>4, Zenon
       DEF Kept, ThreadOK, SocketOK, SlotOK, OneSlot, MainOK, ReuseOK, tableVars, mainVars,
           threadVars
  <2> QED BY <1>4, <1>6, <2>5, Zenon DEF Good
<1>13. CASE i \in Used
  <2>0. f \in Fd
    BY <1>0, <1>13, Zenon DEF Used, TypeOK
  <2>1. ASSUME NEW d \in Client PROVE ThreadOK(d)'
    <3>1. ThreadOK(d) /\ FdOK(d)
      BY <1>7, Zenon DEF Kept, Sound
    <3> QED BY <1>3, <1>9, <1>11, <1>13, <2>0, <3>1, Constants, Zenon DEF ThreadOK, FdOK, threadVars
  <2>2. \A d \in Client : InsideOK(d)'
    <3>1. ASSUME NEW d \in Client, thread[d] = "welcome", sockfd[d] = f
          PROVE  fds[f] = Nobody \/ fds[f] = d
      <4>1. ThreadOK(d) /\ thread[d] \in Serving
        BY <1>7, <3>1, Zenon DEF Kept, Serving, Listed
      <4> QED BY <1>10, <1>13, <3>1, <4>1, Zenon DEF ThreadOK
    <3> QED BY <1>1, <1>7, <3>1, InsideClose, Zenon DEF InsideOK, threadVars
  <2>3. \A g \in Fd : SocketOK(g)'
    BY <1>3, <1>7, Zenon DEF Kept, SocketOK, mainVars, threadVars
  <2>4. \A j \in Slot : SlotOK(j)'
    BY <1>7, Zenon DEF Kept, SlotOK, tableVars, mainVars, threadVars
  <2>5. OneSlot'
    BY <1>5, <1>7, Zenon DEF Kept, OneSlot, tableVars
  <2>6. MainOK'
    <3>1. CASE main[1] = "add"
      <4>1. new_socket \in Fd /\ fds[new_socket] = main[2] /\ thread[main[2]] = "off" /\ main[2] \in Client
        BY <1>7, <3>1, Zenon DEF Kept, MainOK, Sound, MainFd
      <4>2. new_socket # f
        BY <1>11, <1>13, <2>0, <3>1, <4>1, Constants DEF Listed
      <4> QED BY <1>3, <3>1, <4>1, <4>2, Zenon DEF MainOK, mainVars
    <3>2. CASE main[1] = "create"
      <4>1. new_socket \in Fd /\ main[2] \in Client
        BY <1>7, <3>2, Zenon DEF Sound, MainFd
      <4> QED BY <1>3, <1>7, <1>9, <1>11, <1>13, <2>0, <3>2, <4>1, Constants, Zenon
              DEF Kept, MainOK, mainVars
    <3>3. CASE main[1] \notin {"add", "create"}
      BY <1>3, <1>7, <3>3, Zenon DEF Kept, MainOK, Sound, MainFd, mainVars
    <3> QED BY Zenon, <3>1, <3>2, <3>3
  <2>7. \A j \in Used' : ReuseOK(j)'
    <3>1. \A j \in Used : clients[j].sockfd \in Fd
      BY Zenon DEF Used, TypeOK
    <3> QED BY <1>0, <1>3, <1>5, <1>7, <1>8, <3>1, Zenon DEF Kept, ReuseOK, tableVars, mainVars
  <2>8. Kept'
    BY <2>1, <2>2, <2>3, <2>4, <2>5, <2>6, <2>7, Zenon DEF Kept
  <2> QED BY <1>4, <1>6, <2>8, Zenon DEF Good
<1> QED BY Zenon, <1>12, <1>13

(* The handler's steps up to exit.                                         *)
LEMMA HandlerStep ==
    ASSUME TypeOK, Good, sigint_handler
    PROVE  TypeOK' /\ (server' = "up" => Good')
<1>1. victim # Nobody /\ UNCHANGED <<tableVars, mainVars, netVars, victim>>
  BY Zenon DEF sigint_handler
<1>2. CASE (CleanupLock \/ CleanupClose \/ CleanupUnlock) /\ UNCHANGED <<threadVars, server>>
  BY Zenon, <1>1, <1>2, LockStep, ShutStep
<1>3. CASE Exit
  <2>1. /\ thread' \in [Client -> Places] /\ name' \in [Client -> Client \cup {Nobody}]
        /\ todo' \in [Client -> SUBSET Slot] /\ fds' \in [Fd -> Client \cup {Nobody}]
        /\ inside' \in [Client -> Client \cup {Nobody}]
    BY <1>3, Zenon DEF Exit, Places
  <2>2. server' = "exited" /\ clients_mutex' = Nobody
    BY <1>3, Zenon DEF Exit, ExitServer
  <2>3. TypeOK'
    BY <1>1, <1>3, <2>1, <2>2, Zenon DEF Exit, TypeOK, tableVars, mainVars, netVars
  <2> QED BY <2>2, <2>3
<1> QED BY <1>2, <1>3, Zenon DEF sigint_handler

-----------------------------------------------------------------------------
(* The invariant and the theorems                                          *)

(* No client has connected and the table is empty.                         *)
LEMMA InitInv == Init => Inv
<1> SUFFICES ASSUME Init PROVE Inv
  BY Zenon
<1>1. TypeOK
  BY TableAssumption, MsgAssumption DEF Init, TypeOK, Places, Free
<1>2. Used = {}
  BY Zenon DEF Init, Used, Free
<1>3. client_count = Cardinality(Used)
  BY <1>2, FS_EmptySet, Zenon DEF Init
<1>4. /\ \A c \in Client : FdOK(c) /\ ThreadOK(c) /\ InsideOK(c)
      /\ \A f \in Fd : BackOK(f) /\ SocketOK(f)
  BY Zenon DEF Init, FdOK, ThreadOK, InsideOK, BackOK, SocketOK, Serving, Listed
<1>5. \A i \in Slot : SlotOK(i)
  BY Zenon DEF Init, SlotOK, Free
<1>6. OneSlot /\ MainOK /\ MainFd /\ MutexOK /\ \A i \in Used : ReuseOK(i)
  BY <1>2, Zenon DEF Init, OneSlot, MainOK, MainFd, MutexOK
<1> QED BY <1>1, <1>3, <1>4, <1>5, <1>6, Zenon DEF Inv, Good, Sound, Kept

(* One case per action; when the process has ended only Rest is possible.  *)
LEMMA StepInv == Inv /\ [Next]_vars => Inv'
<1> SUFFICES ASSUME Inv, [Next]_vars PROVE Inv'
  BY Zenon
<1>0. TypeOK /\ (server = "up" => Good)
  BY Zenon DEF Inv
<1>1. CASE UNCHANGED vars
  <2>1. TypeOK' /\ UNCHANGED <<goodVars, server>>
    BY <1>0, <1>1, Zenon DEF vars, TypeOK, goodVars, tableVars, mainVars, threadVars, netVars,
                             fdVars, cleanupVars
  <2> QED BY <1>0, <2>1, GoodStays, Zenon DEF Inv
<1>2. ASSUME NEW c \in Client, connect(c) \/ say(c) \/ receive_messages(c) \/ quit(c)
      PROVE  Inv'
  BY <1>0, <1>2, ClientTypes, GoodStays, Zenon DEF Inv
<1>3. ASSUME NEW c \in Client, ThreadStep(c)
      PROVE  Inv'
  <2>1. server = "up"
    BY <1>3, Zenon DEF ThreadStep, Welcome, ComposeJoin, Read, broadcast_message, BroadcastSend,
                BroadcastEnd, RemoveSelf, CloseSelf, Running
  <2> QED BY Zenon, <1>0, <1>3, <2>1, TalkStep, BroadcastStep, RemoveStep, CloseStep
          DEF ThreadStep, Inv
<1>4. CASE MainStep
  <2>1. server = "up"
    BY <1>4, Zenon DEF MainStep, BuildFdSet, Reselect, accept, AddClient, pthread_create,
                       UndoAccept, Running
  <2> QED BY Zenon, <1>0, <1>4, <2>1, IdleMain, AcceptStep, AddStep, CreateStep, UndoStep
          DEF MainStep, Inv
<1>5. ASSUME NEW t \in Alive, SIGINT(t)
      PROVE  Inv'
  BY <1>0, <1>5, SigintStep, Zenon DEF SIGINT, Inv
<1>6. CASE sigint_handler
  BY <1>0, <1>6, HandlerStep, Zenon DEF sigint_handler, Inv
<1>7. CASE Rest
  BY <1>1, <1>7, Zenon DEF Rest
<1> QED BY <1>1, <1>2, <1>3, <1>4, <1>5, <1>6, <1>7, Zenon DEF Next

(* The invariant holds in every reachable state.                           *)
LEMMA Invariance == Spec => []Inv
BY InitInv, StepInv, PTL DEF Spec

(* server.c: the count handed to a new thread as an index always points    *)
(* into the table, whatever the number of clients, and every variable has  *)
(* its type.                                                               *)
THEOREM TypeCorrect == Spec => []TypeOK
<1>1. Inv => TypeOK
  BY Zenon DEF Inv
<1> QED BY <1>1, Invariance, PTL

(* add_client, remove_client, close, the failed pthread_create and cleanup *)
(* up to its unlock: the table, its count and the kernel's descriptors     *)
(* agree.                                                                  *)
THEOREM Consistency == Spec => []TableConsistent
<1>1. ASSUME Inv PROVE TableConsistent
  <2> SUFFICES ASSUME server = "up", BeforeUnlock, Sound, Kept, TypeOK PROVE TableConsistent
    BY <1>1, Zenon DEF Inv, Good, TableConsistent
  <2>1. ASSUME NEW i \in Used
        PROVE  \/ fds[clients[i].sockfd] = clients[i].addr
               \/ main = <<"undo", clients[i].addr>>
               \/ Shut(i)
    <3> DEFINE c == clients[i].addr
    <3>1. /\ c \in Client /\ sockfd[c] = clients[i].sockfd
          /\ \/ thread[c] \in Listed
             \/ main[1] \in {"create", "undo"} /\ main[2] = c
      BY Zenon DEF Kept, SlotOK, Used
    <3>2. ShutClient(c) => Shut(i)
      BY Zenon DEF ShutClient, Kept, OneSlot
    <3>3. thread[c] \in Listed => fds[sockfd[c]] = c \/ Shut(i)
      BY <3>1, <3>2, Zenon DEF Kept, ThreadOK, Serving
    <3>4. main[1] = "create" /\ main[2] = c => fds[sockfd[c]] = c \/ Shut(i)
      BY <3>2, Zenon DEF Kept, MainOK, Sound, MainFd
    <3>5. main[1] = "undo" /\ main[2] = c => main = <<"undo", c>>
      BY DEF TypeOK
    <3>6. fds[sockfd[c]] = fds[clients[i].sockfd]
      BY <3>1
    <3> QED BY Zenon, <3>1, <3>3, <3>4, <3>5, <3>6
  <2> QED BY <2>1, Zenon DEF TableConsistent, Sound, Kept, OneSlot
<1> QED BY <1>1, Invariance, PTL

(* handle_client, main and cleanup up to its unlock: a socket is open as   *)
(* long as its thread serves it, unless cleanup has closed it, and is not  *)
(* left open when the thread ends.                                         *)
THEOREM Ownership == Spec => []SocketsOwned
<1>1. ASSUME Inv PROVE SocketsOwned
  <2> SUFFICES ASSUME server = "up", BeforeUnlock, Kept, TypeOK PROVE SocketsOwned
    BY <1>1, Zenon DEF Inv, Good, SocketsOwned
  <2>1. \A c \in Client : thread[c] \notin {"off", "gone"} => thread[c] \in Serving
    BY Zenon DEF TypeOK, Places, Serving, Listed
  <2>2. \A c \in Client : thread[c] \in Serving => thread[c] \notin {"off", "gone"}
    BY Zenon DEF Serving, Listed
  <2>3. \A f \in Fd : fds[f] # Nobody => fds[f] \in Client
    BY Zenon DEF TypeOK
  <2>4. \A c \in Client : thread[c] \notin {"off", "gone"} => fds[sockfd[c]] = c \/ ShutClient(c)
    BY <2>1, Zenon DEF Kept, ThreadOK
  <2>5. \A f \in Fd : fds[f] # Nobody => thread[fds[f]] \notin {"off", "gone"} \/ main[2] = fds[f]
    BY <2>2, <2>3, Zenon DEF Kept, SocketOK
  <2> QED BY <2>4, <2>5, Zenon DEF SocketsOwned, ShutClient
<1> QED BY <1>1, Invariance, PTL

-----------------------------------------------------------------------------
(* Disconnections and SIGPIPE                                              *)

(* When nobody quits before being welcomed: the client of a thread that has*)
(* still to send its welcome is there, and until cleanup unlocks the server*)
(* has not been killed.                                                    *)
Spared ==
    ~QuitEarly => /\ BeforeUnlock => server # "killed"
                  /\ \A c \in Client : thread[c] \in {"off", "welcome"} =>
                                          peer[c] \in {"off", "open"}

(* send only ever resets a connection whose client has closed it, and the  *)
(* signal comes only from a connection that was reset.                     *)
LEMMA SendEffect ==
    ASSUME TypeOK, NEW c \in Client \cup {Nobody}, NEW n \in BOOLEAN, send(c, n)
    PROVE  /\ \A d \in Client : peer'[d] = peer[d] \/ peer[d] = "closed"
           /\ server' = server \/ (~n /\ c \in Client /\ peer[c] = "reset")
<1>1. CASE c = Nobody
  BY <1>1, Zenon DEF send
<1>2. CASE c \in Client
  BY <1>2, Constants, Zenon DEF send, TypeOK
<1> QED BY Zenon, <1>1, <1>2

(* The welcome reaches the thread's own client, one that main is about to  *)
(* enter in the table, or nobody.                                          *)
LEMMA WelcomeReaches ==
    ASSUME TypeOK, Good, BeforeUnlock, NEW c \in Client, thread[c] = "welcome"
    PROVE  Reached(c) \in Client => thread[Reached(c)] \in {"off", "welcome"}
<1>1. /\ Kept /\ InsideOK(c) /\ ThreadOK(c) /\ sockfd[c] \in Fd /\ Using(c) = sockfd[c]
      /\ thread[c] \in Serving
  BY Zenon DEF Good, Sound, FdOK, Kept, Using, Serving, Listed
<1>2. CASE inside[c] # Nobody
  BY <1>1, <1>2, Zenon DEF InsideOK, Reached
<1>3. CASE inside[c] = Nobody
  <2>1. Reached(c) = fds[sockfd[c]]
    BY <1>1, <1>3, Zenon DEF Reached
  <2>2. CASE fds[sockfd[c]] = c
    BY Zenon, <2>1, <2>2
  <2>3. CASE ShutClient(c)
    <3>1. PICK i \in Used : Shut(i) /\ clients[i].addr = c
      BY <2>3, Zenon DEF ShutClient
    <3>2. clients[i].sockfd = sockfd[c]
      BY Zenon, <1>1, <3>1, SlotPresent
    <3>3. fds[sockfd[c]] = Nobody \/ main = <<"add", fds[sockfd[c]]>>
      BY <1>1, <3>1, <3>2, Zenon DEF Kept, ReuseOK
    <3>4. main = <<"add", fds[sockfd[c]]>> => thread[fds[sockfd[c]]] = "off"
      BY DEF Good, Sound, MainFd
    <3> QED BY Zenon, <2>1, <3>3, <3>4, Constants
  <2> QED BY <1>1, <2>2, <2>3, Zenon DEF ThreadOK
<1> QED BY Zenon, <1>2, <1>3

(* Every step of the program keeps the two facts.                          *)
LEMMA SparedStep ==
    ASSUME Inv, Spared, [Next]_vars
    PROVE  Spared'
<1> SUFFICES ASSUME ~QuitEarly PROVE Spared'
  BY Zenon DEF Spared
<1>0. /\ TypeOK /\ (server = "up" => Good) /\ (BeforeUnlock => server # "killed")
      /\ \A c \in Client : thread[c] \in {"off", "welcome"} => peer[c] \in {"off", "open"}
  BY Zenon DEF Inv, Spared
<1>1. ASSUME BeforeUnlock' => server' # "killed",
             \A d \in Client : peer'[d] = peer[d] \/ peer[d] = "closed",
             \A d \in Client : thread'[d] = thread[d] \/ thread'[d] \notin {"off", "welcome"}
      PROVE  Spared'
  BY <1>0, <1>1, Zenon DEF Spared
<1>2. ASSUME UNCHANGED <<handler, server>>
      PROVE  BeforeUnlock' => server' # "killed"
  BY <1>0, <1>2, Zenon DEF BeforeUnlock
<1>3. ASSUME NEW c \in Client, connect(c) \/ say(c) \/ receive_messages(c) \/ quit(c)
      PROVE  Spared'
  <2>1. UNCHANGED <<handler, server, thread>>
    BY <1>3, Zenon DEF connect, say, receive_messages, quit, cleanupVars, threadVars
  <2>2. ASSUME NEW d \in Client, thread[d] \in {"off", "welcome"}
        PROVE  peer'[d] \in {"off", "open"}
    BY <1>0, <1>3, <2>2, Zenon DEF connect, say, receive_messages, quit, TypeOK
  <2> QED BY <1>2, <2>1, <2>2, Zenon DEF Spared
<1>4. ASSUME NEW c \in Client, Welcome(c)
      PROVE  Spared'
  <2>1. /\ server = "up" /\ thread[c] = "welcome" /\ send(Reached(c), FALSE)
        /\ thread' = [thread EXCEPT ![c] = "compose"] /\ UNCHANGED handler
    BY <1>4, Zenon DEF Welcome, Running, Goto, cleanupVars
  <2>2. /\ \A d \in Client : peer'[d] = peer[d] \/ peer[d] = "closed"
        /\ server' = server \/ (Reached(c) \in Client /\ peer[Reached(c)] = "reset")
    BY Zenon, <1>0, <2>1, ReachedType, SendEffect
  <2>3. BeforeUnlock' => server' # "killed"
    <3>1. ASSUME BeforeUnlock, Reached(c) \in Client PROVE peer[Reached(c)] # "reset"
      BY <1>0, <2>1, <3>1, WelcomeReaches, Zenon
    <3> QED BY <1>0, <2>1, <2>2, <3>1, Zenon DEF BeforeUnlock
  <2> QED BY <1>0, <1>1, <2>1, <2>2, <2>3, Zenon DEF TypeOK
<1>5. ASSUME NEW c \in Client, BroadcastSend(c)
      PROVE  Spared'
  <2>1. UNCHANGED <<thread, handler>> /\ send(Reached(c), TRUE)
    BY <1>5, Zenon DEF BroadcastSend, MSG_NOSIGNAL, cleanupVars
  <2>2. /\ \A d \in Client : peer'[d] = peer[d] \/ peer[d] = "closed"
        /\ server' = server
    BY Zenon, <1>0, <2>1, ReachedType, SendEffect
  <2> QED BY Zenon, <1>1, <1>2, <2>1, <2>2
<1>6. ASSUME NEW c \in Client,
             \/ ComposeJoin(c) \/ Read(c) \/ broadcast_message(c) \/ BroadcastEnd(c)
             \/ RemoveSelf(c) \/ CloseSelf(c)
      PROVE  Spared'
  <2>1. /\ UNCHANGED <<peer, server, handler>>
        /\ \/ UNCHANGED thread
           \/ \E l \in Places \ {"off", "welcome"} : thread' = [thread EXCEPT ![c] = l]
    BY <1>6, Zenon DEF ComposeJoin, Read, broadcast_message, BroadcastEnd, RemoveSelf,
                       CloseSelf, Goto, netVars, cleanupVars, Places
  <2> QED BY <1>0, <1>1, <1>2, <2>1, Zenon DEF TypeOK
<1>7. CASE BuildFdSet \/ Reselect \/ (\E c \in Client : accept(c)) \/ AddClient
  BY Zenon, <1>1, <1>2, <1>7
     DEF BuildFdSet, Reselect, accept, AddClient, netVars, threadVars, cleanupVars
<1>8. CASE pthread_create \/ UndoAccept
  <2>1. /\ server = "up" /\ UNCHANGED <<peer, server, handler>>
        /\ main[1] \in {"create", "undo"}
        /\ \/ UNCHANGED thread
           \/ thread' = [thread EXCEPT ![main[2]] = "welcome"]
           \/ thread' = [thread EXCEPT ![main[2]] = "gone"]
    BY <1>8, Zenon DEF pthread_create, UndoAccept, Running, Goto, netVars, cleanupVars
  <2>2. main[2] \in Client /\ thread[main[2]] = "off"
    BY <1>0, <2>1, Zenon DEF Good, Sound, MainFd
  <2> QED BY <1>0, <1>2, <2>1, <2>2, Zenon DEF Spared, TypeOK
<1>9. CASE (\E t \in Alive : SIGINT(t)) \/ Rest \/ UNCHANGED vars
  BY <1>1, <1>2, <1>9, Zenon DEF SIGINT, Rest, vars, netVars, threadVars, cleanupVars
<1>10. CASE sigint_handler
  <2>1. /\ UNCHANGED peer /\ server' # "killed"
        /\ UNCHANGED thread \/ thread' = [d \in Client |-> "gone"]
    BY <1>10, Zenon DEF sigint_handler, CleanupLock, CleanupClose, CleanupUnlock, Exit, ExitServer,
                        netVars, threadVars
  <2> QED BY Zenon, <1>1, <2>1
<1>11. ASSUME NEW c \in Client, ThreadStep(c)
       PROVE  Spared'
  BY <1>4, <1>5, <1>6, <1>11, Zenon DEF ThreadStep
<1>12. CASE MainStep
  BY <1>7, <1>8, <1>12, Zenon DEF MainStep
<1> QED BY <1>3, <1>9, <1>10, <1>11, <1>12, Zenon DEF Next

(* handle_client's welcome is the only send that can raise SIGPIPE: when   *)
(* no client disconnects before it has been welcomed, no disconnection     *)
(* kills the server before cleanup has closed the sockets, for any number  *)
(* of clients and every schedule.                                          *)
THEOREM Survival == Spec => []ServerSurvives
<1>1. Init => Spared
  BY Zenon DEF Init, Spared
<1>2. Spared => ServerSurvives
  BY Zenon DEF Spared, ServerSurvives
<1> QED BY <1>1, <1>2, SparedStep, Invariance, PTL DEF Spec

-----------------------------------------------------------------------------
(* The table has room for everybody                                        *)

(* The client named in a slot that is in use.                              *)
InTable(c) == \E i \in Used : clients[i].addr = c

(* With slots for all, a client is in the table from add_client until its  *)
(* thread removes it, or cleanup unlocks.                                  *)
Entered ==
    Cardinality(Client) <= MAX_CLIENTS /\ BeforeUnlock =>
       \A c \in Client : thread[c] \in Listed \/ main = <<"create", c>> => InTable(c)

(* While one of the clients is not in the table there is a free slot: the  *)
(* slots in use name different other clients.                              *)
LEMMA SlotFree ==
    ASSUME TypeOK, Kept, Cardinality(Client) <= MAX_CLIENTS,
           NEW c \in Client, ~InTable(c)
    PROVE  Holding(0) # {}
<1> SUFFICES ASSUME Holding(0) = {}
             PROVE  FALSE
  BY Zenon
<1>1. Used = Slot
  BY Zenon DEF Holding, Used
<1>2. \A i \in Slot : clients[i].addr \in Client \ {c}
  BY <1>1, SlotPresent, Zenon DEF InTable
<1>3. PICK f \in [Slot -> Client \ {c}] : \A i \in Slot : f[i] = clients[i].addr
  <2> DEFINE g == [i \in Slot |-> clients[i].addr]
  <2>1. g \in [Slot -> Client \ {c}] /\ \A i \in Slot : g[i] = clients[i].addr
    BY Zenon, <1>2
  <2> HIDE DEF g
  <2> QED BY Zenon, <2>1
<1>4. IsFiniteSet(Client \ {c})
  BY Zenon, ClientAssumption, FS_RemoveElement
<1>5. IsFiniteSet(Slot)
  BY Zenon, Constants
<1>6. Cardinality(Client \ {c}) < Cardinality(Slot)
  <2>1. Cardinality(Client \ {c}) = Cardinality(Client) - 1
    BY Zenon, ClientAssumption, FS_RemoveElement
  <2> QED BY <2>1, Constants, TableAssumption
<1>7. \E x, y \in Slot : x # y /\ f[x] = f[y]
  BY ONLY <1>4, <1>5, <1>6, f \in [Slot -> Client \ {c}], FS_PigeonHole, Zenon
<1> QED BY <1>1, <1>3, <1>7 DEF Kept, OneSlot

(* A step that leaves the table alone and brings no new client to where it *)
(* must be in the table.                                                   *)
LEMMA EnteredFrame ==
    ASSUME Entered, UNCHANGED clients, BeforeUnlock' => BeforeUnlock,
           \A c \in Client : thread'[c] \in Listed \/ main' = <<"create", c>> =>
                                thread[c] \in Listed \/ main = <<"create", c>>
    PROVE  Entered'
<1>1. Used' = Used
  BY Zenon DEF Used
<1> QED BY <1>1, Zenon DEF Entered, InTable

(* add_client finds a slot, and disturbs nobody else's.                    *)
LEMMA EnteredAdd ==
    ASSUME TypeOK, Good, Entered, AddClient
    PROVE  Entered'
<1>0. BeforeUnlock' = BeforeUnlock
  BY Zenon DEF AddClient, BeforeUnlock, cleanupVars
<1> SUFFICES ASSUME Cardinality(Client) <= MAX_CLIENTS, BeforeUnlock, Kept,
                    NEW d \in Client, thread'[d] \in Listed \/ main' = <<"create", d>>
             PROVE  InTable(d)'
  BY <1>0, Zenon DEF Entered, Good
<1> DEFINE c == main[2]
           i == Min(Holding(0))
<1>1. /\ main[1] = "add" /\ main' = <<"create", c>> /\ add_client(new_socket, c)
      /\ UNCHANGED thread
  BY Zenon DEF AddClient, threadVars
<1>2. /\ c \in Client /\ thread[c] = "off" /\ new_socket \in Fd /\ new_socket # 0
  BY <1>1, Constants, Zenon DEF Good, Sound, MainFd
<1>3. ~InTable(c)
  BY <1>1, <1>2, Zenon DEF InTable, Kept, SlotOK, Used, Listed
<1>4. Holding(0) # {}
  BY Zenon, <1>2, <1>3, SlotFree
<1>5. i \in Slot /\ clients[i].sockfd = 0
  BY <1>4, LookupType, Zenon DEF Holding
<1>6. clients' = [clients EXCEPT ![i] = [sockfd |-> new_socket, addr |-> c]]
  BY <1>1, <1>4, Zenon DEF add_client
<1> HIDE DEF i
<1>7. /\ clients'[i].sockfd = new_socket /\ clients'[i].addr = c
      /\ \A j \in Slot \ {i} : clients'[j] = clients[j]
  BY <1>5, <1>6, Zenon DEF TypeOK
<1>8. CASE d = c
  BY <1>2, <1>5, <1>7, <1>8, Zenon DEF InTable, Used
<1>9. CASE d # c
  <2>1. thread[d] \in Listed
    BY Zenon, <1>1, <1>9
  <2>2. PICK j \in Used : clients[j].addr = d
    BY <2>1, Zenon DEF Entered, InTable
  <2>3. j \in Slot /\ j # i /\ clients[j].sockfd # 0
    BY <1>5, <2>2, Zenon DEF Used
  <2> QED BY <1>7, <2>2, <2>3, Zenon DEF InTable, Used
<1> QED BY Zenon, <1>8, <1>9

(* remove_client clears nobody else's slot.                                *)
LEMMA EnteredRemove ==
    ASSUME TypeOK, Good, Entered, NEW c \in Client, Present(c), sockfd[c] \in Fd,
           remove_client(sockfd[c]), clients_mutex = Nobody, UNCHANGED handler,
           \A d \in Client : thread'[d] \in Listed \/ main' = <<"create", d>> =>
                                d # c /\ (thread[d] \in Listed \/ main = <<"create", d>>)
    PROVE  Entered'
<1> SUFFICES ASSUME Cardinality(Client) <= MAX_CLIENTS, BeforeUnlock, handler = "idle",
                    NEW d \in Client, thread'[d] \in Listed \/ main' = <<"create", d>>
             PROVE  InTable(d)'
  BY NotBegun, Zenon DEF Entered, BeforeUnlock
<1> DEFINE f == sockfd[c]
           i == Min(Holding(f))
<1>1. f # 0 /\ d # c
  BY Zenon, Constants
<1>2. PICK j \in Used : clients[j].addr = d
  BY Zenon DEF Entered, InTable
<1>3. clients'[j] = clients[j]
  <2>1. CASE Holding(f) = {}
    BY <2>1, Zenon DEF remove_client, tableVars
  <2>2. CASE Holding(f) # {}
    <3>1. i \in Slot /\ clients[i].sockfd = f
      BY <2>2, LookupType, Zenon DEF Holding
    <3>2. clients[i].addr = c
      BY Zenon, <1>1, <3>1, SlotOfSocket
    <3>3. clients' = [clients EXCEPT ![i] = Free]
      BY <2>2, Zenon DEF remove_client
    <3> QED BY <1>1, <1>2, <3>1, <3>2, <3>3, Zenon DEF Used, TypeOK
  <2> QED BY Zenon, <2>1, <2>2
<1> QED BY <1>2, <1>3, Zenon DEF InTable, Used

(* Every step of the program keeps the clients in the table.               *)
LEMMA EnteredStep ==
    ASSUME Inv, Entered, [Next]_vars
    PROVE  Entered'
<1>0. TypeOK /\ (server = "up" => Good)
  BY Zenon DEF Inv
<1>1. ASSUME UNCHANGED <<clients, thread, main, handler>>
      PROVE  Entered'
  BY <1>1, EnteredFrame, Zenon DEF BeforeUnlock
<1>2. ASSUME NEW c \in Client, connect(c) \/ say(c) \/ receive_messages(c) \/ quit(c)
      PROVE  Entered'
  BY <1>0, <1>1, <1>2, ClientTypes, Zenon DEF goodVars, tableVars, mainVars, cleanupVars
<1>3. ASSUME NEW c \in Client, Welcome(c) \/ ComposeJoin(c) \/ Read(c)
      PROVE  Entered'
  <2>1. /\ UNCHANGED <<clients, main, handler>> /\ thread[c] \in Listed
        /\ \E l \in Listed : thread' = [thread EXCEPT ![c] = l]
    BY <1>0, <1>3, TalkTypes, Zenon DEF tableVars, mainVars, cleanupVars
  <2> QED BY <1>0, <2>1, EnteredFrame, Zenon DEF TypeOK, BeforeUnlock
<1>4. ASSUME NEW c \in Client, broadcast_message(c) \/ BroadcastSend(c) \/ BroadcastEnd(c)
      PROVE  Entered'
  <2>1. UNCHANGED <<clients, main, handler>> /\ server = "up"
    BY <1>4, Zenon DEF broadcast_message, BroadcastSend, BroadcastEnd, Running, tableVars,
                       mainVars, cleanupVars
  <2>2. /\ thread[c] \in {"join", "message", "leave"}
        /\ \E l \in Listed : thread' = [thread EXCEPT ![c] = l]
    BY Zenon, <1>0, <1>4, <2>1, BroadcastStep
  <2>3. thread[c] \in Listed
    BY <2>2, Zenon DEF Listed
  <2> QED BY <1>0, <2>1, <2>2, <2>3, EnteredFrame, Zenon DEF TypeOK, BeforeUnlock
<1>5. ASSUME NEW c \in Client, RemoveSelf(c)
      PROVE  Entered'
  <2>1. /\ server = "up" /\ thread[c] = "remove" /\ thread' = [thread EXCEPT ![c] = "close"]
        /\ remove_client(sockfd[c]) /\ clients_mutex = Nobody /\ UNCHANGED <<main, handler>>
    BY <1>5, Zenon DEF RemoveSelf, Running, Goto, mainVars, cleanupVars
  <2>2. Present(c) /\ sockfd[c] \in Fd
    BY <1>0, <2>1, Zenon DEF Present, Good, Sound, FdOK, Serving, Listed
  <2>3. ASSUME NEW d \in Client, thread'[d] \in Listed \/ main' = <<"create", d>>
        PROVE  d # c /\ (thread[d] \in Listed \/ main = <<"create", d>>)
    <3>1. main = <<"create", d>> => thread[d] = "off"
      BY <1>0, <2>1, SMTT(30) DEF Good, Sound, MainFd
    <3> QED BY <1>0, <2>1, <2>3, <3>1, ZenonT(30) DEF TypeOK, Listed
  <2> QED BY Zenon, <1>0, <2>1, <2>2, <2>3, EnteredRemove
<1>6. ASSUME NEW c \in Client, CloseSelf(c)
      PROVE  Entered'
  <2>1. /\ UNCHANGED <<clients, main, handler>>
        /\ thread' = [thread EXCEPT ![c] = "gone"]
    BY <1>6, Zenon DEF CloseSelf, Goto, tableVars, mainVars, cleanupVars
  <2> QED BY <1>0, <2>1, EnteredFrame, Zenon DEF TypeOK, Listed, BeforeUnlock
<1>7. CASE BuildFdSet \/ Reselect \/ \E c \in Client : accept(c)
  <2>1. /\ UNCHANGED <<clients, thread, handler>>
        /\ \E l \in {"build", "select", "add"} : \E c : main' = <<l, c>>
    BY <1>7, Zenon DEF BuildFdSet, Reselect, accept, tableVars, threadVars, cleanupVars
  <2>2. \A c : main' # <<"create", c>>
    BY <2>1
  <2> QED BY <2>1, <2>2, EnteredFrame, Zenon DEF BeforeUnlock
<1>8. CASE AddClient
  BY <1>0, <1>8, EnteredAdd, Zenon DEF AddClient, Running
<1>9. CASE pthread_create
  <2>1. /\ UNCHANGED clients /\ main'[1] # "create" /\ server = "up" /\ main[1] = "create"
        /\ UNCHANGED thread \/ thread' = [thread EXCEPT ![main[2]] = "welcome"]
        /\ UNCHANGED handler
    BY <1>9, SMTT(30) DEF pthread_create, Goto, Running, tableVars, cleanupVars
  <2>2. main = <<"create", main[2]>> /\ main[2] \in Client
    BY <1>0, <2>1 DEF TypeOK, Good, Sound, MainFd
  <2>3. \A c \in Client : thread'[c] \in Listed \/ main' = <<"create", c>> =>
                             thread[c] \in Listed \/ main = <<"create", c>>
    BY <1>0, <2>1, <2>2, SMTT(30) DEF TypeOK
  <2> QED BY <2>1, <2>3, EnteredFrame, Zenon DEF BeforeUnlock
<1>10. CASE UndoAccept
  <2>1. /\ server = "up" /\ main[1] = "undo" /\ main'[1] # "create" /\ clients_mutex = Nobody
        /\ thread' = [thread EXCEPT ![main[2]] = "gone"] /\ remove_client(new_socket)
        /\ UNCHANGED handler
    BY <1>10, Zenon DEF UndoAccept, Running, Goto, cleanupVars
  <2>2. main[2] \in Client /\ new_socket = sockfd[main[2]] /\ new_socket \in Fd
    BY <1>0, <2>1, Zenon DEF Good, Sound, MainFd
  <2>3. Present(main[2])
    BY <2>1, Zenon DEF Present
  <2>4. \A d \in Client : thread'[d] \in Listed \/ main' = <<"create", d>> =>
                             d # main[2] /\ (thread[d] \in Listed \/ main = <<"create", d>>)
    BY <1>0, <2>1 DEF TypeOK, Listed
  <2> QED BY Zenon, <1>0, <2>1, <2>2, <2>3, <2>4, EnteredRemove
<1>11. CASE (\E t \in Alive : SIGINT(t)) \/ Rest \/ UNCHANGED vars
  BY <1>1, <1>11, Zenon
     DEF SIGINT, Rest, vars, tableVars, mainVars, threadVars, cleanupVars
<1>12. CASE sigint_handler
  <2>1. /\ UNCHANGED <<clients, main>> /\ (BeforeUnlock' => BeforeUnlock)
        /\ UNCHANGED thread \/ thread' = [c \in Client |-> "gone"]
    BY <1>12, Zenon DEF sigint_handler, CleanupLock, CleanupClose, CleanupUnlock, Exit,
                        BeforeUnlock, tableVars, mainVars, threadVars
  <2> QED BY <2>1, EnteredFrame, Zenon DEF Listed
<1>13. ASSUME NEW c \in Client, ThreadStep(c)
       PROVE  Entered'
  BY <1>3, <1>4, <1>5, <1>6, <1>13, Zenon DEF ThreadStep
<1>14. CASE MainStep
  BY <1>7, <1>8, <1>9, <1>10, <1>14, Zenon DEF MainStep
<1> QED BY <1>2, <1>11, <1>12, <1>13, <1>14, Zenon DEF Next

(* add_client and remove_client: when the table has as many slots as there *)
(* are clients, each client is in it from its welcome until it leaves,     *)
(* whatever is accepted, undone and removed around it, until cleanup has   *)
(* closed the sockets.                                                     *)
THEOREM Listing == Spec => []WelcomedAreListed
<1>1. Init => Entered
  BY DEF Init, Entered, Listed
<1>2. Entered => WelcomedAreListed
  BY Zenon DEF Entered, WelcomedAreListed, InTable, Used, Listed
<1> QED BY <1>1, <1>2, EnteredStep, Invariance, PTL DEF Spec
=============================================================================
