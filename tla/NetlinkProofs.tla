---------------------------- MODULE NetlinkProofs ----------------------------
(***************************************************************************)
(* Proofs about the four netlink programs: the netlink demo, for any number*)
(* of netlinkUser processes; link_monitor, for every width of its counters *)
(* and every limit of its descriptors; route_monitor, for every set of     *)
(* routes; and route_show, for every number of links, routes and changes.  *)
(* The socket buffers have any size.                                       *)
(***************************************************************************)
EXTENDS MCNetlink, Integers, Sequences, TLAPS

-----------------------------------------------------------------------------
(* The netlink demo                                                        *)

(* Without the module there is no open socket, and none either while it    *)
(* loads unless somebody was early; so nl_sk is set for everybody else.    *)
Sockets ==
    /\ module = "in" => nl_sk
    /\ module = "out" \/ (module = "init" /\ ~early) => \A u \in User : ~Open(u)
    /\ module = "oops" => early

(* A callback's pid is its sender's, and a sender that has not got as far  *)
(* as recvmsg has been neither answered nor given up.                      *)
Own(u) ==
    /\ upc[u] \in {"nlmsg_new", "unicast"} => pid[u] = u
    /\ upc[u] \in {"start", "bind", "sendmsg", "callback", "nlmsg_new", "unicast"} =>
          inbox[u] = 0 /\ u \notin unanswered
    /\ inbox[u] > 0 => inbox[u] = 1 /\ upc[u] = "recvmsg" /\ u \notin unanswered

Inv == TypeOK /\ Sockets /\ \A u \in User : Own(u)

-----------------------------------------------------------------------------
(* No process has started and the module is not loaded.                    *)
LEMMA InitInv == Init => Inv
<1> SUFFICES ASSUME Init
             PROVE  Inv
  BY Zenon
<1>1. TypeOK
  BY Zenon DEF Init, TypeOK
<1>2. Sockets
  BY Zenon DEF Init, Sockets, Open
<1>3. ASSUME NEW u \in User
      PROVE  Own(u)
  BY DEF Init, Own
<1> QED BY <1>1, <1>2, <1>3, Zenon DEF Inv

(* Loading and unloading the module keeps the invariant: hello_exit runs   *)
(* only when no socket is open.                                            *)
LEMMA ModuleSteps ==
    ASSUME Inv, hello_init \/ hello_exit
    PROVE  Inv'
<1>1. TypeOK'
  BY Zenon DEF Inv, TypeOK, hello_init, hello_exit
<1>2. Sockets'
  BY Zenon DEF Inv, TypeOK, Sockets, Open, InUse, hello_init, hello_exit
<1>3. \A u \in User : Own(u)'
  BY Zenon DEF Inv, Own, hello_init, hello_exit
<1> QED BY <1>1, <1>2, <1>3, Zenon DEF Inv

(* So do the calls of a process.                                           *)
LEMMA UserSteps ==
    ASSUME Inv, NEW u \in User, Socket(u) \/ Send(u) \/ Recv(u)
    PROVE  Inv'
<1> USE DEF Inv, TypeOK, Goto
<1>1. CASE Socket(u)
  <2>1. TypeOK'
    BY <1>1, Zenon DEF Socket
  <2>2. Sockets'
    BY <1>1, Zenon DEF Socket, Sockets, Open
  <2>3. \A v \in User : Own(v)'
    BY <1>1, Zenon DEF Socket, Own
  <2> QED BY Zenon, <2>1, <2>2, <2>3
<1>2. CASE Send(u)
  <2>1. TypeOK'
    BY <1>2, Zenon DEF Send
  <2>2. Sockets'
    BY <1>2, Zenon DEF Send, Sockets, Open
  <2>3. \A v \in User : Own(v)'
    BY <1>2, ZenonT(30) DEF Send, Own
  <2> QED BY <2>1, <2>2, <2>3
<1>3. CASE Recv(u)
  <2>1. TypeOK'
    BY <1>3 DEF Recv
  <2>2. Sockets'
    BY <1>3, Zenon DEF Recv, Sockets, Open
  <2>3. \A v \in User : Own(v)'
    BY <1>3 DEF Recv, Own
  <2> QED BY <2>1, <2>2, <2>3
<1> QED BY Zenon, <1>1, <1>2, <1>3

(* And the callback: it answers the process it runs for, through nl_sk.    *)
LEMMA CallbackSteps ==
    ASSUME Inv, NEW u \in User, hello_nl_recv_msg(u)
    PROVE  Inv'
<1> USE DEF Inv, TypeOK, Goto
<1>1. TypeOK'
  BY DEF hello_nl_recv_msg, SetPid, nlmsg_unicast
<1>2. Sockets'
  BY Zenon DEF hello_nl_recv_msg, Sockets, Open
<1>3. ASSUME NEW v \in User
      PROVE  Own(v)'
  <2>1. CASE upc[u] = "callback"
    BY <2>1 DEF hello_nl_recv_msg, SetPid, Own
  <2>2. CASE upc[u] = "nlmsg_new"
    BY <2>2, Zenon DEF hello_nl_recv_msg, Own
  <2>3. CASE upc[u] = "unicast"
    BY <2>3 DEF hello_nl_recv_msg, nlmsg_unicast, Own
  <2> QED BY <2>1, <2>2, <2>3, Zenon DEF hello_nl_recv_msg
<1> QED BY Zenon, <1>1, <1>2, <1>3

(* Every state of every execution satisfies the invariant.                 *)
LEMMA AlwaysInv == Spec => []Inv
<1>1. Inv /\ [Next]_vars => Inv'
  <2> SUFFICES ASSUME Inv, [Next]_vars
               PROVE  Inv'
    BY Zenon
  <2>1. CASE UNCHANGED vars
    BY <2>1, Zenon DEF vars, Inv, TypeOK, Sockets, Open, Own
  <2> QED BY <2>1, ModuleSteps, UserSteps, CallbackSteps, Zenon DEF Next, UserStep
<1> QED BY <1>1, InitInv, PTL DEF Spec

(* However many processes send while the module is loaded and unloaded, no *)
(* callback finds nl_sk cleared, unless a socket was opened before         *)
(* hello_init had stored it.                                               *)
THEOREM SocketStays == Spec => []SocketOutlivesSenders
<1>1. Inv => SocketOutlivesSenders
  BY Zenon DEF Inv, TypeOK, Sockets, Open, SocketOutlivesSenders
<1> QED BY <1>1, AlwaysInv, PTL

(* However many callbacks run at once, each replies to the process it runs *)
(* for, once.                                                              *)
THEOREM OwnReplies == Spec => []RepliesReachSenders
<1>1. Inv => RepliesReachSenders
  BY Zenon DEF Inv, Own, RepliesReachSenders
<1> QED BY <1>1, AlwaysInv, PTL

-----------------------------------------------------------------------------
(* link_monitor.c                                                          *)

(* The lowest of some descriptors is one of them.                          *)
LEMMA Lowest ==
  ASSUME NEW S \in SUBSET Link!Fd, S # {}
  PROVE  Link!Min(S) \in S
<1>1. \A f \in S : f \in {3, 4, 5, 6}
  BY DEF Link!Fd
<1>2. \E f \in S : \A g \in S : f <= g
  <2>1. CASE 3 \in S
    BY <1>1, <2>1
  <2>2. CASE 3 \notin S /\ 4 \in S
    BY <1>1, <2>2
  <2>3. CASE 3 \notin S /\ 4 \notin S /\ 5 \in S
    BY <1>1, <2>3
  <2>4. CASE 3 \notin S /\ 4 \notin S /\ 5 \notin S
    BY <1>1, <2>4
  <2> QED BY <2>1, <2>2, <2>3, <2>4, Zenon
<1> QED BY <1>2, Zenon DEF Link!Min

Files == {"netlink", "timer", "signal", "none"}
Rounds == {"loop", "netlink_event", "timer_event", "signal_event"}

LinkTypes ==
    /\ file \in [Link!Fd -> Files]
    /\ g_netlink_fd \in Link!Fd \cup {Link!NoFd}
    /\ g_timer_fd \in Link!Fd \cup {Link!NoFd}
    /\ g_signal_fd \in Link!Fd \cup {Link!NoFd}

(* A global names its own descriptor or a closed one, and every open       *)
(* descriptor is named by its global.                                      *)
Named(kind, fd) ==
    /\ fd \in Link!Fd => file[fd] \in {kind, "none"}
    /\ \A f \in Link!Fd : file[f] = kind => f = fd

(* How far main is.  Only a failed timerfd_settime leaves the number of a  *)
(* closed descriptor in a global, and then nothing is opened any more.     *)
Order ==
    /\ lmPc = "netlink" => g_netlink_fd = Link!NoFd /\ g_timer_fd = Link!NoFd
    /\ lmPc \in {"netlink", "timer"} => g_timer_fd = Link!NoFd
    /\ lmPc \in {"netlink", "timer", "signal"} => g_signal_fd = Link!NoFd
    /\ lmPc \in {"timer", "signal"} =>
          g_netlink_fd \in Link!Fd /\ file[g_netlink_fd] = "netlink"
    /\ lmPc = "signal" => g_timer_fd \in Link!Fd /\ file[g_timer_fd] = "timer"
    /\ lmPc = "exited" => \A f \in Link!Fd : file[f] = "none"

FilesInv ==
    /\ LinkTypes /\ Order
    /\ Named("netlink", g_netlink_fd) /\ Named("timer", g_timer_fd)
    /\ Named("signal", g_signal_fd)

(* No descriptor is open.                                                  *)
LEMMA FilesInit == Link!Init => FilesInv
<1> SUFFICES ASSUME Link!Init PROVE FilesInv
  BY Zenon
<1>1. /\ lmPc = "netlink" /\ file = [f \in Link!Fd |-> "none"]
      /\ g_netlink_fd = Link!NoFd /\ g_timer_fd = Link!NoFd /\ g_signal_fd = Link!NoFd
  BY Zenon DEF Link!Init
<1>2. Link!NoFd \notin Link!Fd
  BY DEF Link!NoFd, Link!Fd
<1>3. LinkTypes
  BY <1>1, Zenon DEF LinkTypes, Files
<1>4. \A f \in Link!Fd : file[f] = "none"
  BY <1>1, Zenon
<1> QED BY <1>1, <1>2, <1>3, <1>4, Zenon DEF FilesInv, Order, Named

(* Steps that open and close nothing.                                      *)
LEMMA FilesSame ==
  ASSUME FilesInv, UNCHANGED <<file, g_netlink_fd, g_timer_fd, g_signal_fd>>,
         \/ lmPc' = lmPc
         \/ lmPc' \in {"cleanup"} \cup Rounds
  PROVE  FilesInv'
<1>1. LinkTypes' /\ Named("netlink", g_netlink_fd)' /\ Named("timer", g_timer_fd)'
      /\ Named("signal", g_signal_fd)'
  BY Zenon DEF FilesInv, LinkTypes, Named
<1>2. Order'
  BY Zenon DEF FilesInv, Order, Rounds
<1> QED BY <1>1, <1>2, Zenon DEF FilesInv

(* A descriptor that is opened was free, and the others stay.              *)
LEMMA Opened ==
  ASSUME LinkTypes, NEW kind \in Files, NEW fd \in Link!Fd, Link!Opens(kind, fd)
  PROVE  /\ file[fd] = "none" /\ file' \in [Link!Fd -> Files] /\ file'[fd] = kind
         /\ \A f \in Link!Fd : f # fd => file'[f] = file[f]
<1>1. /\ Link!Free(file) # {} /\ fd = Link!Min(Link!Free(file))
      /\ file' = [file EXCEPT ![fd] = kind] /\ file \in [Link!Fd -> Files]
  BY Zenon DEF Link!Opens, LinkTypes
<1>2. Link!Free(file) \in SUBSET Link!Fd
  BY Zenon DEF Link!Free
<1>3. fd \in Link!Free(file)
  BY <1>1, <1>2, Lowest, Zenon
<1> QED BY <1>1, <1>3, Zenon DEF Link!Free

(* init_netlink_socket.                                                    *)
LEMMA FilesNetlink ==
  ASSUME FilesInv, Link!init_netlink_socket
  PROVE  FilesInv'
<1>1. lmPc = "netlink" /\ UNCHANGED <<g_timer_fd, g_signal_fd>>
  BY Zenon DEF Link!init_netlink_socket
<1>2. CASE UNCHANGED <<file, g_netlink_fd>> /\ lmPc' = "cleanup"
  BY <1>1, <1>2, FilesSame, Zenon
<1>3. ASSUME NEW fd \in Link!Fd, Link!Opens("netlink", fd), g_netlink_fd' = fd, lmPc' = "timer"
      PROVE  FilesInv'
  <2>1. /\ file[fd] = "none" /\ file' \in [Link!Fd -> Files] /\ file'[fd] = "netlink"
        /\ \A f \in Link!Fd : f # fd => file'[f] = file[f]
    BY <1>3, Opened, Zenon DEF FilesInv, Files
  <2>2. g_netlink_fd = Link!NoFd /\ g_timer_fd = Link!NoFd /\ g_signal_fd = Link!NoFd
        /\ Link!NoFd \notin Link!Fd
    BY <1>1 DEF FilesInv, Order, Link!NoFd, Link!Fd
  <2>3. LinkTypes'
    BY <1>1, <1>3, <2>1, Zenon DEF LinkTypes, FilesInv
  <2>4. \A f \in Link!Fd : file[f] = "none"
    BY <2>2, Zenon DEF FilesInv, Named, LinkTypes, Files
  <2>5. Named("netlink", g_netlink_fd)' /\ Named("timer", g_timer_fd)'
        /\ Named("signal", g_signal_fd)'
    BY <1>1, <1>3, <2>1, <2>2, <2>4, Zenon DEF Named
  <2>6. Order'
    BY <1>1, <1>3, <2>1, <2>2, Zenon DEF Order
  <2> QED BY <2>3, <2>5, <2>6, Zenon DEF FilesInv
<1> QED BY <1>2, <1>3, Zenon DEF Link!init_netlink_socket

(* init_timerfd: g_timer_fd may be left with the number of a closed        *)
(* descriptor.                                                             *)
LEMMA FilesTimer ==
  ASSUME FilesInv, Link!init_timerfd
  PROVE  FilesInv'
<1>1. lmPc = "timer" /\ UNCHANGED <<g_netlink_fd, g_signal_fd>>
  BY Zenon DEF Link!init_timerfd
<1>2. CASE UNCHANGED <<file, g_timer_fd>> /\ lmPc' = Link!TimerFailed
  BY <1>1, <1>2, FilesSame, Zenon DEF Link!TimerFailed
<1>3. ASSUME NEW fd \in Link!Fd, Link!Opens("timer", fd), g_timer_fd' = fd, lmPc' = "signal"
      PROVE  FilesInv'
  <2>1. /\ file[fd] = "none" /\ file' \in [Link!Fd -> Files] /\ file'[fd] = "timer"
        /\ \A f \in Link!Fd : f # fd => file'[f] = file[f]
    BY <1>3, Opened, Zenon DEF FilesInv, Files
  <2>2. /\ g_netlink_fd \in Link!Fd /\ file[g_netlink_fd] = "netlink"
        /\ g_timer_fd = Link!NoFd /\ g_signal_fd = Link!NoFd /\ Link!NoFd \notin Link!Fd
    BY <1>1 DEF FilesInv, Order, Link!NoFd, Link!Fd
  <2>3. LinkTypes'
    BY <1>1, <1>3, <2>1, Zenon DEF LinkTypes, FilesInv
  <2>4. g_netlink_fd # fd /\ file'[g_netlink_fd] = "netlink"
    BY Zenon, <2>1, <2>2
  <2>5. Named("netlink", g_netlink_fd)'
    BY <1>1, <2>1, <2>2, <2>4, Zenon DEF Named, FilesInv
  <2>6. Named("timer", g_timer_fd)'
    BY <1>3, <2>1, <2>2, Zenon DEF Named, FilesInv
  <2>7. Named("signal", g_signal_fd)'
    BY <1>1, <2>1, <2>2, Zenon DEF Named, FilesInv
  <2>8. Order'
    BY <1>1, <1>3, <2>1, <2>2, <2>4, Zenon DEF Order
  <2> QED BY <2>3, <2>5, <2>6, <2>7, <2>8, Zenon DEF FilesInv
<1>4. CASE file' = file /\ g_timer_fd' = Link!Min(Link!Free(file)) /\ lmPc' = Link!TimerFailed
  <2>1. PICK f \in Link!Fd : f # g_netlink_fd
    BY DEF Link!Fd
  <2>2. g_timer_fd = Link!NoFd /\ g_signal_fd = Link!NoFd /\ Link!NoFd \notin Link!Fd
    BY <1>1 DEF FilesInv, Order, Link!NoFd, Link!Fd
  <2>3. file[f] = "none"
    BY <2>1, <2>2, Zenon DEF FilesInv, Named, LinkTypes, Files
  <2>4. g_timer_fd' \in Link!Free(file)
    BY <1>4, <2>3, Lowest, Zenon DEF Link!Free
  <2>5. g_timer_fd' \in Link!Fd /\ file[g_timer_fd'] = "none"
    BY <2>4, Zenon DEF Link!Free
  <2>6. \A g \in Link!Fd : file[g] # "timer"
    BY <2>2, Zenon DEF FilesInv, Named
  <2>7. LinkTypes' /\ Named("timer", g_timer_fd)'
    BY <1>1, <1>4, <2>5, <2>6, Zenon DEF LinkTypes, Named, FilesInv
  <2>8. Named("netlink", g_netlink_fd)' /\ Named("signal", g_signal_fd)'
    BY <1>1, <1>4, Zenon DEF Named, FilesInv
  <2>9. Order'
    BY <1>4, Zenon DEF Order, Link!TimerFailed
  <2> QED BY <2>7, <2>8, <2>9, Zenon DEF FilesInv
<1> QED BY <1>2, <1>3, <1>4, Zenon DEF Link!init_timerfd

(* init_signalfd.                                                          *)
LEMMA FilesSignal ==
  ASSUME FilesInv, Link!init_signalfd
  PROVE  FilesInv'
<1>1. lmPc = "signal" /\ UNCHANGED <<g_netlink_fd, g_timer_fd>>
  BY Zenon DEF Link!init_signalfd
<1>2. CASE UNCHANGED <<file, g_signal_fd>> /\ lmPc' = "cleanup"
  BY <1>1, <1>2, FilesSame, Zenon
<1>3. ASSUME NEW fd \in Link!Fd, Link!Opens("signal", fd), g_signal_fd' = fd, lmPc' = "loop"
      PROVE  FilesInv'
  <2>1. /\ file[fd] = "none" /\ file' \in [Link!Fd -> Files] /\ file'[fd] = "signal"
        /\ \A f \in Link!Fd : f # fd => file'[f] = file[f]
    BY <1>3, Opened, Zenon DEF FilesInv, Files
  <2>2. /\ g_netlink_fd \in Link!Fd /\ file[g_netlink_fd] = "netlink"
        /\ g_timer_fd \in Link!Fd /\ file[g_timer_fd] = "timer"
        /\ g_signal_fd = Link!NoFd /\ Link!NoFd \notin Link!Fd
    BY <1>1 DEF FilesInv, Order, Link!NoFd, Link!Fd
  <2>3. LinkTypes'
    BY <1>1, <1>3, <2>1, Zenon DEF LinkTypes, FilesInv
  <2>4. /\ file'[g_netlink_fd] = "netlink" /\ file'[g_timer_fd] = "timer"
    BY Zenon, <2>1, <2>2
  <2>5. Named("netlink", g_netlink_fd)'
    BY <1>1, <2>1, <2>2, <2>4, Zenon DEF Named, FilesInv
  <2>6. Named("timer", g_timer_fd)'
    BY <1>1, <2>1, <2>2, <2>4, Zenon DEF Named, FilesInv
  <2>7. Named("signal", g_signal_fd)'
    BY <1>3, <2>1, <2>2, Zenon DEF Named, FilesInv
  <2>8. Order'
    BY <1>3, Zenon DEF Order
  <2> QED BY <2>3, <2>5, <2>6, <2>7, <2>8, Zenon DEF FilesInv
<1> QED BY <1>2, <1>3, Zenon DEF Link!init_signalfd

(* cleanup_resources closes what the globals name; that is everything.     *)
LEMMA FilesCleanup ==
  ASSUME FilesInv, Link!cleanup_resources
  PROVE  FilesInv'
<1>1. /\ g_netlink_fd' = Link!NoFd /\ g_timer_fd' = Link!NoFd /\ g_signal_fd' = Link!NoFd
      /\ lmPc' = "exited"
      /\ file' = Link!Close(Link!Close(Link!Close(file, g_netlink_fd), g_timer_fd), g_signal_fd)
  BY Zenon DEF Link!cleanup_resources
<1>2. ASSUME NEW t \in [Link!Fd -> Files], NEW f
      PROVE  /\ Link!Close(t, f) \in [Link!Fd -> Files]
             /\ \A g \in Link!Fd : Link!Close(t, f)[g] = IF g = f THEN "none" ELSE t[g]
  BY Zenon DEF Link!Close, Files
<1> DEFINE t1 == Link!Close(file, g_netlink_fd)
           t2 == Link!Close(t1, g_timer_fd)
           t3 == Link!Close(t2, g_signal_fd)
<1>3. file \in [Link!Fd -> Files]
  BY Zenon DEF FilesInv, LinkTypes
<1>4. /\ t1 \in [Link!Fd -> Files]
      /\ \A g \in Link!Fd : t1[g] = IF g = g_netlink_fd THEN "none" ELSE file[g]
  BY <1>2, <1>3, Zenon
<1> HIDE DEF t1
<1>5. /\ t2 \in [Link!Fd -> Files]
      /\ \A g \in Link!Fd : t2[g] = IF g = g_timer_fd THEN "none" ELSE t1[g]
  BY <1>2, <1>4, ZenonT(30)
<1> HIDE DEF t2
<1>6. /\ t3 \in [Link!Fd -> Files]
      /\ \A g \in Link!Fd : t3[g] = IF g = g_signal_fd THEN "none" ELSE t2[g]
  BY <1>2, <1>5, ZenonT(30)
<1> HIDE DEF t3
<1>7. file' = t3
  BY <1>1, Zenon DEF t1, t2, t3
<1>8. ASSUME NEW g \in Link!Fd PROVE file'[g] = "none"
  <2>1. file[g] \in Files
    BY <1>3, Zenon
  <2>2. /\ file[g] = "netlink" => g = g_netlink_fd
        /\ file[g] = "timer" => g = g_timer_fd
        /\ file[g] = "signal" => g = g_signal_fd
    BY Zenon DEF FilesInv, Named
  <2> QED BY <1>4, <1>5, <1>6, <1>7, <2>1, <2>2, Zenon DEF Files
<1>9. Link!NoFd \notin Link!Fd
  BY DEF Link!NoFd, Link!Fd
<1>10. LinkTypes'
  BY <1>1, <1>6, <1>7, Zenon DEF LinkTypes
<1> QED BY <1>1, <1>8, <1>9, <1>10, Zenon DEF FilesInv, Order, Named

(* A signal that is not blocked ends the program, which closes everything. *)
LEMMA FilesKill ==
  ASSUME FilesInv, NEW signo, Link!Kill(signo)
  PROVE  FilesInv'
<1>1. UNCHANGED <<g_netlink_fd, g_timer_fd, g_signal_fd>>
  BY Zenon DEF Link!Kill, Link!fdVars
<1>2. CASE UNCHANGED <<lmPc, file>>
  BY <1>1, <1>2, FilesSame, Zenon
<1>3. CASE lmPc' = "killed" /\ file' = [f \in Link!Fd |-> "none"]
  <2>1. LinkTypes'
    BY <1>1, <1>3, Zenon DEF LinkTypes, FilesInv, Files
  <2>2. \A f \in Link!Fd : file'[f] = "none"
    BY <1>3, Zenon
  <2>3. Order'
    BY <1>3, Zenon DEF Order
  <2>4. Named("netlink", g_netlink_fd)' /\ Named("timer", g_timer_fd)'
        /\ Named("signal", g_signal_fd)'
    BY <2>2, Zenon DEF Named
  <2> QED BY <2>1, <2>3, <2>4, Zenon DEF FilesInv
<1> QED BY <1>2, <1>3, Zenon DEF Link!Kill

(* The loop, its handlers and the kernel.                                  *)
LEMMA FilesLoop ==
  ASSUME FilesInv,
         \/ Link!select \/ Link!LoopEnds \/ Link!SelectFails
         \/ Link!handle_netlink_link_message \/ Link!handle_timer_event
         \/ Link!handle_signal_event \/ Link!LinkChanges \/ Link!TimerExpires
  PROVE  FilesInv'
<1>0. \A ready : Link!Handlers(ready) \in Rounds
  BY Zenon DEF Link!Handlers, Rounds
<1>1. CASE Link!select
  BY <1>0, <1>1, FilesSame, Zenon DEF Link!select, Link!fdVars
<1>2. CASE Link!LoopEnds \/ Link!SelectFails
  BY <1>2, FilesSame, Zenon DEF Link!LoopEnds, Link!SelectFails, Link!fdVars
<1>3. CASE Link!handle_netlink_link_message
  BY <1>0, <1>3, FilesSame, Zenon
     DEF Link!handle_netlink_link_message, Link!HandledOne, Link!fdVars
<1>4. CASE Link!handle_timer_event
  BY <1>0, <1>4, FilesSame, Zenon DEF Link!handle_timer_event, Link!HandledOne, Link!fdVars
<1>5. CASE Link!handle_signal_event
  BY <1>0, <1>5, FilesSame, Zenon DEF Link!handle_signal_event, Link!HandledOne, Link!fdVars
<1>6. CASE Link!LinkChanges \/ Link!TimerExpires
  BY <1>6, FilesSame, Zenon DEF Link!LinkChanges, Link!TimerExpires, Link!fdVars
<1> QED BY <1>1, <1>2, <1>3, <1>4, <1>5, <1>6, Zenon

(* Whatever initialisation fails and whenever a signal ends the program, a *)
(* global of link_monitor that names an open descriptor names its own, and *)
(* main leaves none open.                                                  *)
THEOREM Descriptors == Link!Spec => []DescriptorsOwn
<1>1. FilesInv /\ [Link!Next]_Link!vars => FilesInv'
  <2> SUFFICES ASSUME FilesInv, [Link!Next]_Link!vars PROVE FilesInv'
    BY Zenon
  <2>1. CASE UNCHANGED Link!vars
    BY <2>1, FilesSame, Zenon DEF Link!vars, Link!fdVars
  <2>2. CASE Link!Next
    BY <2>2, FilesNetlink, FilesTimer, FilesSignal, FilesCleanup, FilesKill, FilesLoop, Zenon
       DEF Link!Next, Link!Step
  <2> QED BY <2>1, <2>2, Zenon
<1>2. FilesInv => DescriptorsOwn
  <2> SUFFICES ASSUME FilesInv PROVE Link!DescriptorsOwn
    BY Zenon DEF DescriptorsOwn
  <2>1. /\ g_netlink_fd # Link!NoFd => file[g_netlink_fd] \in {"netlink", "none"}
        /\ g_timer_fd # Link!NoFd => file[g_timer_fd] \in {"timer", "none"}
        /\ g_signal_fd # Link!NoFd => file[g_signal_fd] \in {"signal", "none"}
    BY Zenon DEF FilesInv, LinkTypes, Named
  <2>2. lmPc = "exited" => Link!Free(file) = Link!Fd
    BY Zenon DEF FilesInv, Order, Link!Free
  <2> QED BY <2>1, <2>2, Zenon DEF Link!DescriptorsOwn
<1> QED BY FilesInit, <1>1, <1>2, PTL DEF Link!Spec

(* Reducing a counter before or after an addition is the same.             *)
LEMMA ModAdd ==
  ASSUME NEW m \in Nat \ {0}, NEW a \in Int, NEW b \in Int
  PROVE  ((a % m) + b) % m = (a + b) % m /\ a % m \in Nat
<1> DEFINE r == a % m
           s == (r + b) % m
           t == (a + b) % m
<1>1. PICK q \in Int : a = m * q + r /\ r \in 0 .. m - 1
  <2>1. a = m * (a \div m) + (a % m) /\ a % m \in 0 .. m - 1 /\ a \div m \in Int
    OBVIOUS
  <2> QED BY <2>1, Zenon
<1> HIDE DEF r
<1>2. PICK u \in Int : r + b = m * u + s /\ s \in 0 .. m - 1
  <2>0. r + b \in Int
    BY <1>1
  <2>1. r + b = m * ((r + b) \div m) + ((r + b) % m) /\ (r + b) % m \in 0 .. m - 1
        /\ (r + b) \div m \in Int
    BY <2>0
  <2> QED BY <2>1, Zenon
<1>3. PICK v \in Int : a + b = m * v + t /\ t \in 0 .. m - 1
  <2>1. a + b = m * ((a + b) \div m) + ((a + b) % m) /\ (a + b) % m \in 0 .. m - 1
        /\ (a + b) \div m \in Int
    OBVIOUS
  <2> QED BY <2>1, Zenon
<1> HIDE DEF s, t
<1>4. m * ((q + u) - v) = t - s
  <2>1. m * q \in Int /\ m * u \in Int /\ m * v \in Int
    OBVIOUS
  <2>2. m * ((q + u) - v) = m * q + m * u - m * v
    OBVIOUS
  <2> QED BY <1>1, <1>2, <1>3, <2>1, <2>2
<1>5. ASSUME NEW w \in Int, NEW d \in Int, m * w = d, -m < d, d < m PROVE d = 0
  <2>1. CASE w >= 1
    <3>1. m * w >= m
      BY <2>1
    <3> QED BY <1>5, <3>1
  <2>2. CASE w <= -1
    <3>1. m * w <= -m
      BY <2>2
    <3> QED BY <1>5, <3>1
  <2>3. CASE w = 0
    BY <1>5, <2>3
  <2> QED BY <2>1, <2>2, <2>3
<1>6. t - s = 0
  <2>1. (q + u) - v \in Int /\ t - s \in Int /\ -m < t - s /\ t - s < m
    BY <1>2, <1>3
  <2> QED BY <1>4, <1>5, <2>1, Zenon
<1>7. s = t /\ r \in Nat
  BY <1>1, <1>2, <1>3, <1>6
<1> QED BY <1>7, Zenon DEF r, s, t

(* Multiples of the modulus do not count.                                  *)
LEMMA ModMultiple ==
  ASSUME NEW m \in Nat \ {0}, NEW a \in Int, NEW k \in Int
  PROVE  (a + m * k) % m = a % m
<1>1. m * k \in Int /\ (m * k) % m = 0 /\ m * k + a = a + m * k
  OBVIOUS
<1>2. (((m * k) % m) + a) % m = (m * k + a) % m
  BY <1>1, ModAdd, Zenon
<1>3. 0 + a = a
  OBVIOUS
<1> QED BY <1>1, <1>2, <1>3, Zenon

CountInv ==
    /\ g_stats \in [{"link_events", "timer_ticks", "signal_count"} -> Nat]
    /\ events \in [{"link", "timer"} -> Nat]
    /\ backlog \in Int /\ expired \in Nat /\ lost \in Nat
    /\ events["link"] = (g_stats["link_events"] + (backlog + lost)) % Link!M
    /\ events["timer"] = (g_stats["timer_ticks"] + expired) % Link!M

(* The counters wrap at a positive modulus.                                *)
LEMMA Modulus == Link!M \in Nat \ {0}
BY WordAssumption, Zenon DEF Link!M

(* Nothing is counted and nothing waits.                                   *)
LEMMA CountInit == Link!Init => CountInv
<1> SUFFICES ASSUME Link!Init PROVE CountInv
  BY Zenon
<1>1. /\ g_stats = [link_events |-> 0, timer_ticks |-> 0, signal_count |-> 0]
      /\ events = [link |-> 0, timer |-> 0] /\ backlog = 0 /\ expired = 0 /\ lost = 0
  BY Zenon DEF Link!Init
<1>2. \A m \in Nat \ {0} : (0 + 0) % m = 0
  OBVIOUS
<1>3. /\ g_stats \in [{"link_events", "timer_ticks", "signal_count"} -> Nat]
      /\ events \in [{"link", "timer"} -> Nat]
      /\ g_stats["link_events"] = 0 /\ g_stats["timer_ticks"] = 0
      /\ events["link"] = 0 /\ events["timer"] = 0
  BY <1>1
<1>4. (0 + 0) % Link!M = 0
  BY <1>2, Modulus, Zenon
<1>5. backlog \in Int /\ expired \in Nat /\ lost \in Nat /\ backlog + lost = 0
  BY <1>1
<1> QED BY <1>1, <1>3, <1>4, <1>5, Zenon DEF CountInv

(* A notification that is read moves from the socket to the counter.       *)
LEMMA CountNetlink ==
  ASSUME CountInv, Link!handle_netlink_link_message
  PROVE  CountInv'
<1>1. CASE UNCHANGED <<backlog, g_stats, expired, events, lost>>
  BY <1>1, Zenon DEF CountInv
<1>2. CASE /\ backlog' = backlog - 1 /\ Link!Add("link_events", 1)
           /\ UNCHANGED <<expired, events, lost>>
  <2> DEFINE m == Link!M
             n == g_stats["link_events"]
             b == backlog + lost
  <2>0. m \in Nat \ {0}
    BY Modulus, Zenon
  <2>1. g_stats' = [g_stats EXCEPT !["link_events"] = (@ + 1) % m]
    BY <1>2, Zenon DEF Link!Add
  <2> HIDE DEF m
  <2>2. /\ n \in Nat /\ n + 1 \in Int /\ b \in Int /\ b - 1 \in Int
        /\ backlog - 1 \in Int /\ (backlog - 1) + lost = b - 1
    BY DEF CountInv
  <2> HIDE DEF b
  <2>3. /\ (((n + 1) % m) + (b - 1)) % m = ((n + 1) + (b - 1)) % m
        /\ (n + 1) % m \in Nat
    BY <2>0, <2>2, ModAdd, Zenon
  <2>4. (n + 1) + (b - 1) = n + b
    BY <2>2
  <2>5. /\ g_stats' \in [{"link_events", "timer_ticks", "signal_count"} -> Nat]
        /\ g_stats'["link_events"] = (n + 1) % m
        /\ g_stats'["timer_ticks"] = g_stats["timer_ticks"]
    BY <2>1, <2>3, Zenon DEF CountInv
  <2> HIDE DEF n
  <2>6. events["link"] = (n + b) % m
    BY Zenon DEF CountInv, m, n, b
  <2>7. events'["link"] = (g_stats'["link_events"] + (backlog' + lost')) % m
    BY <1>2, <2>2, <2>3, <2>4, <2>5, <2>6, Zenon
  <2> QED BY <1>2, <2>2, <2>5, <2>7, Zenon DEF CountInv, m
<1> QED BY <1>1, <1>2, Zenon DEF Link!handle_netlink_link_message, Link!historyVars

(* All the expirations that wait are counted by one read.                  *)
LEMMA CountTimer ==
  ASSUME CountInv, Link!handle_timer_event
  PROVE  CountInv'
<1> DEFINE m == Link!M
           n == g_stats["timer_ticks"]
<1>0. m \in Nat \ {0}
  BY Modulus, Zenon
<1>1. /\ g_stats' = [g_stats EXCEPT !["timer_ticks"] = (@ + expired) % m]
      /\ expired' = 0 /\ UNCHANGED <<backlog, events, lost>>
  BY Zenon DEF Link!handle_timer_event, Link!Add, Link!TimerTicks, Link!historyVars
<1> HIDE DEF m
<1>2. n \in Nat /\ expired \in Nat /\ n + expired \in Int /\ 0 \in Int
  BY DEF CountInv
<1>3. /\ (((n + expired) % m) + 0) % m = ((n + expired) + 0) % m
      /\ (n + expired) % m \in Nat
  BY <1>0, <1>2, ModAdd, Zenon
<1>4. (n + expired) + 0 = n + expired
  BY <1>2
<1>5. /\ g_stats' \in [{"link_events", "timer_ticks", "signal_count"} -> Nat]
      /\ g_stats'["timer_ticks"] = (n + expired) % m
      /\ g_stats'["link_events"] = g_stats["link_events"]
  BY <1>1, <1>3, Zenon DEF CountInv
<1>6. expired' \in Nat
  BY Zenon, <1>1
<1> HIDE DEF n
<1>7. events["timer"] = (n + expired) % m
  BY Zenon DEF CountInv, m, n
<1> QED BY <1>1, <1>3, <1>4, <1>5, <1>6, <1>7, Zenon DEF CountInv, m

(* SIGUSR2 resets the counters but not what waits.                         *)
LEMMA CountSignal ==
  ASSUME CountInv, Link!handle_signal_event
  PROVE  CountInv'
<1> DEFINE m == Link!M
<1>0. m \in Nat \ {0}
  BY Modulus, Zenon
<1>1. UNCHANGED <<backlog, expired>>
  BY Zenon DEF Link!handle_signal_event
<1> HIDE DEF m
<1>2. CASE g_stats' = [x \in DOMAIN g_stats |-> 0]
           /\ events' = [link |-> backlog % m, timer |-> expired % m] /\ lost' = 0
  <2>1. /\ g_stats' \in [{"link_events", "timer_ticks", "signal_count"} -> Nat]
        /\ g_stats'["link_events"] = 0 /\ g_stats'["timer_ticks"] = 0
    BY <1>2, Zenon DEF CountInv
  <2>2. /\ 0 + (backlog + 0) = backlog /\ 0 + expired = expired /\ backlog \in Int
        /\ expired \in Int /\ 0 \in Nat
    BY DEF CountInv
  <2>3. backlog % m \in Nat /\ expired % m \in Nat
    BY <1>0, <2>2, ModAdd, Zenon
  <2>4. /\ events' \in [{"link", "timer"} -> Nat]
        /\ events'["link"] = backlog % m /\ events'["timer"] = expired % m
    BY <1>2, <2>3
  <2> QED BY <1>1, <1>2, <2>1, <2>2, <2>4, Zenon DEF CountInv, m
<1>3. CASE Link!Add("signal_count", 1) /\ UNCHANGED <<events, lost>>
  <2>1. g_stats' = [g_stats EXCEPT !["signal_count"] = (@ + 1) % m]
    BY <1>3, Zenon DEF Link!Add, m
  <2>2. g_stats["signal_count"] + 1 \in Int
    BY DEF CountInv
  <2>3. (g_stats["signal_count"] + 1) % m \in Nat
    BY <1>0, <2>2
  <2>4. /\ g_stats' \in [{"link_events", "timer_ticks", "signal_count"} -> Nat]
        /\ g_stats'["link_events"] = g_stats["link_events"]
        /\ g_stats'["timer_ticks"] = g_stats["timer_ticks"]
    BY <2>1, <2>3, Zenon DEF CountInv
  <2> QED BY <1>1, <1>3, <2>4, Zenon DEF CountInv
<1> QED BY <1>2, <1>3, Zenon DEF Link!handle_signal_event, Link!historyVars, m

(* What happens waits in its descriptor, or was lost.                      *)
LEMMA CountKernel ==
  ASSUME CountInv, Link!LinkChanges \/ Link!TimerExpires
  PROVE  CountInv'
<1> DEFINE m == Link!M
<1>0. m \in Nat \ {0}
  BY Modulus, Zenon
<1> HIDE DEF m
<1>2. ASSUME NEW what \in {"link", "timer"}, NEW n \in Nat, NEW b \in Int,
             events[what] = (n + b) % m, events' = [events EXCEPT ![what] = (@ + 1) % m]
      PROVE  /\ events' \in [{"link", "timer"} -> Nat]
             /\ events'[what] = (n + (b + 1)) % m
             /\ \A o \in {"link", "timer"} : o # what => events'[o] = events[o]
  <2>1. n + b \in Int /\ 1 \in Int /\ (n + b) + 1 = n + (b + 1) /\ n + (b + 1) \in Int
    OBVIOUS
  <2>2. (((n + b) % m) + 1) % m = ((n + b) + 1) % m
    BY <1>0, <2>1, ModAdd, Zenon
  <2>3. (n + (b + 1)) % m \in Nat
    BY <1>0, <2>1, ModAdd, Zenon
  <2>4. events' = [events EXCEPT ![what] = (n + (b + 1)) % m]
    BY <1>2, <2>1, <2>2, Zenon
  <2> QED BY <2>3, <2>4, Zenon DEF CountInv
<1>3. ASSUME Link!Happened("link"), backlog' \in Int, lost' \in Nat, NEW k \in Int,
             ((backlog' + lost') - (backlog + lost)) - 1 = m * k,
             UNCHANGED <<g_stats, expired>>
      PROVE  CountInv'
  <2> DEFINE n == g_stats["link_events"]
             b == backlog + lost
             c == backlog' + lost'
  <2>1. n \in Nat /\ b \in Int /\ c \in Int /\ n + (b + 1) \in Int /\ "timer" # "link"
    BY <1>3 DEF CountInv
  <2>2. /\ events["link"] = (n + b) % m
        /\ events' = [events EXCEPT !["link"] = (@ + 1) % m]
    BY <1>3, Zenon DEF CountInv, m, Link!Happened
  <2> HIDE DEF n, b, c
  <2>3. /\ events' \in [{"link", "timer"} -> Nat]
        /\ events'["link"] = (n + (b + 1)) % m
        /\ events'["timer"] = events["timer"]
    BY <1>2, <2>1, <2>2, Zenon
  <2>4. n + c = (n + (b + 1)) + m * k
    BY <1>0, <1>3, <2>1 DEF b, c
  <2>5. (n + c) % m = (n + (b + 1)) % m
    BY <1>0, <2>1, <2>4, ModMultiple, Zenon
  <2> QED BY <1>3, <2>3, <2>5, Zenon DEF CountInv, m, n, b, c
<1>5. CASE backlog' = backlog + 1 /\ UNCHANGED <<lost, g_stats, expired>> /\ Link!Happened("link")
  <2>1. /\ backlog' \in Int /\ lost' \in Nat /\ 0 \in Int
        /\ ((backlog' + lost') - (backlog + lost)) - 1 = m * 0
    BY <1>0, <1>5 DEF CountInv
  <2> QED BY Zenon, <1>3, <1>5, <2>1
<1>6. CASE lost' = (lost + 1) % m /\ UNCHANGED <<backlog, g_stats, expired>> /\ Link!Happened("link")
  <2>1. lost + 1 \in Int /\ lost \in Nat /\ backlog \in Int
    BY DEF CountInv
  <2>2. PICK q \in Int : lost + 1 = m * q + lost' /\ lost' \in Nat
    <3>1. /\ lost + 1 = m * ((lost + 1) \div m) + ((lost + 1) % m) /\ (lost + 1) % m \in Nat
          /\ (lost + 1) \div m \in Int
      BY <1>0, <2>1
    <3> QED BY <1>6, <3>1, Zenon
  <2>3. -q \in Int /\ ((backlog' + lost') - (backlog + lost)) - 1 = m * (-q)
    BY <1>0, <1>6, <2>1, <2>2
  <2>4. backlog' \in Int
    BY Zenon, <1>6, <2>1
  <2> QED BY Zenon, <1>3, <1>6, <2>2, <2>3, <2>4
<1>4. CASE /\ expired' = expired + 1 /\ Link!Happened("timer")
           /\ UNCHANGED <<g_stats, backlog, lost>>
  <2>1. /\ g_stats["timer_ticks"] \in Nat /\ expired \in Int /\ expired + 1 \in Nat
        /\ "timer" # "link"
    BY DEF CountInv
  <2>2. /\ events["timer"] = (g_stats["timer_ticks"] + expired) % m
        /\ events' = [events EXCEPT !["timer"] = (@ + 1) % m]
    BY <1>4, Zenon DEF CountInv, m, Link!Happened
  <2>3. /\ events' \in [{"link", "timer"} -> Nat]
        /\ events'["timer"] = (g_stats["timer_ticks"] + (expired + 1)) % m
        /\ events'["link"] = events["link"]
    BY <1>2, <2>1, <2>2, Zenon
  <2> QED BY <1>4, <2>1, <2>3, Zenon DEF CountInv, m
<1> QED BY <1>4, <1>5, <1>6, Zenon DEF Link!LinkChanges, Link!TimerExpires, m

(* For every width of the counters and every limit of the socket buffer    *)
(* and the timer, what link_monitor has counted since the last reset, what *)
(* still waits and what the kernel dropped of the notifications is what    *)
(* happened, modulo that width.                                            *)
THEOREM Counts == Link!Spec => []CountsExact
<1>1. CountInv /\ [Link!Next]_Link!vars => CountInv'
  <2> SUFFICES ASSUME CountInv, [Link!Next]_Link!vars PROVE CountInv'
    BY Zenon
  <2>1. CASE UNCHANGED <<g_stats, events, backlog, expired, lost>>
    BY <2>1, Zenon DEF CountInv
  <2>2. CASE \/ Link!init_netlink_socket \/ Link!init_timerfd \/ Link!init_signalfd
             \/ Link!select \/ Link!LoopEnds \/ Link!cleanup_resources \/ Link!SelectFails
             \/ \E signo \in Link!mask : Link!Kill(signo)
             \/ UNCHANGED Link!vars
    BY <2>1, <2>2, Zenon
       DEF Link!init_netlink_socket, Link!init_timerfd, Link!init_signalfd, Link!select,
           Link!LoopEnds, Link!cleanup_resources, Link!SelectFails, Link!Kill, Link!kernelVars,
           Link!historyVars, Link!vars
  <2> QED BY <2>2, CountNetlink, CountTimer, CountSignal, CountKernel, Zenon
          DEF Link!Next, Link!Step
<1>2. ASSUME CountInv PROVE CountsExact
  <2>1. g_stats["link_events"] + (backlog + lost) = (g_stats["link_events"] + backlog) + lost
    BY <1>2 DEF CountInv
  <2> QED BY <1>2, <2>1, Zenon DEF CountInv, CountsExact, Link!CountsExact
<1> QED BY CountInit, <1>1, <1>2, PTL DEF Link!Spec

-----------------------------------------------------------------------------
(* route_monitor.c                                                         *)

Notification == [type : {"RTM_NEWROUTE", "RTM_DELROUTE"}, route : Route]

(* Whether somebody who holds routes holds r after reading q, in which the *)
(* last message about r decides.                                           *)
Leads(q, routes, r) ==
    \/ r \in routes /\ \A j \in 1 .. Len(q) : q[j].route # r
    \/ \E j \in 1 .. Len(q) : /\ q[j].route = r /\ q[j].type = "RTM_NEWROUTE"
                              /\ \A n \in 1 .. Len(q) : q[n].route = r => n <= j

(* A notification at the end of the queue decides about its route alone.   *)
LEMMA LeadsAppend ==
  ASSUME NEW q \in Seq(Notification), NEW m \in Notification, NEW routes, NEW r
  PROVE  Leads(Append(q, m), routes, r) <=>
            IF m.route = r THEN m.type = "RTM_NEWROUTE" ELSE Leads(q, routes, r)
<1> DEFINE p == Append(q, m)
<1>1. /\ Len(q) \in Nat /\ Len(p) = Len(q) + 1 /\ p[Len(q) + 1] = m
      /\ \A j \in 1 .. Len(q) : p[j] = q[j]
  OBVIOUS
<1> HIDE DEF p
<1>2. CASE m.route = r
  <2>1. \A n \in 1 .. Len(p) : n <= Len(q) + 1
    BY <1>1
  <2>2. Len(q) + 1 \in 1 .. Len(p)
    BY <1>1
  <2>3. \A j \in 1 .. Len(p) : Len(q) + 1 <= j => j = Len(q) + 1
    BY <1>1
  <2>4. Leads(p, routes, r) <=> m.type = "RTM_NEWROUTE"
    BY <1>1, <1>2, <2>1, <2>2, <2>3, Zenon DEF Leads
  <2> QED BY <2>4, <1>2, Zenon DEF p
<1>3. CASE m.route # r
  <2>1. \A j \in 1 .. Len(p) : p[j].route = r => j \in 1 .. Len(q)
    BY <1>1, <1>3
  <2>2. \A j \in 1 .. Len(q) : j \in 1 .. Len(p)
    BY <1>1
  <2>3. Leads(p, routes, r) <=> Leads(q, routes, r)
    BY <1>1, <2>1, <2>2, Zenon DEF Leads
  <2> QED BY <2>3, <1>3, Zenon DEF p
<1> QED BY <1>2, <1>3, Zenon

(* Reading the first notification leaves what the queue leads to.          *)
LEMMA LeadsTail ==
  ASSUME NEW q \in Seq(Notification), q # <<>>, NEW routes, NEW r
  PROVE  Leads(q, routes, r) <=>
            Leads(Tail(q), Monitor!print_route_info(routes, Head(q)), r)
<1> DEFINE t == Tail(q)  m == Head(q)  after == Monitor!print_route_info(routes, Head(q))
<1>1. /\ Len(q) \in Nat \ {0} /\ Len(t) = Len(q) - 1 /\ m = q[1] /\ m \in Notification
      /\ \A j \in 1 .. Len(t) : t[j] = q[j + 1]
  OBVIOUS
<1>2. r \in after <=> IF m.route = r THEN m.type = "RTM_NEWROUTE" ELSE r \in routes
  BY <1>1, Zenon DEF Monitor!print_route_info, Notification
<1> HIDE DEF t, m, after
<1>3. ASSUME \A j \in 1 .. Len(t) : t[j].route # r
      PROVE  Leads(q, routes, r) <=> Leads(t, after, r)
  <2>1. \A j \in 2 .. Len(q) : q[j].route # r
    <3> SUFFICES ASSUME NEW j \in 2 .. Len(q) PROVE q[j].route # r
      BY Zenon
    <3>1. j - 1 \in 1 .. Len(t) /\ (j - 1) + 1 = j
      BY <1>1
    <3> QED BY <3>1, <1>1, <1>3, Zenon
  <2>2. \A j \in 1 .. Len(q) : j = 1 \/ j \in 2 .. Len(q)
    BY <1>1
  <2>3. 1 \in 1 .. Len(q) /\ 1 <= 1
    BY <1>1
  <2> QED BY <1>1, <1>2, <1>3, <2>1, <2>2, <2>3, Zenon DEF Leads
<1>4. ASSUME NEW i \in 1 .. Len(t), t[i].route = r
      PROVE  Leads(q, routes, r) <=> Leads(t, after, r)
  <2>1. \A j \in 1 .. Len(t) : j + 1 \in 1 .. Len(q) /\ ~(j + 1 <= 1)
    BY <1>1
  <2>2. ASSUME NEW j \in 1 .. Len(q), \A n \in 1 .. Len(q) : q[n].route = r => n <= j,
               q[j].route = r, q[j].type = "RTM_NEWROUTE"
        PROVE  Leads(t, after, r)
    <3>1. i + 1 <= j
      BY <1>1, <1>4, <2>1, <2>2, Zenon
    <3>2. j - 1 \in 1 .. Len(t) /\ (j - 1) + 1 = j
      BY <1>1, <3>1
    <3>3. ASSUME NEW n \in 1 .. Len(t), t[n].route = r PROVE n <= j - 1
      <4>1. n + 1 <= j
        BY <1>1, <3>3, <2>1, <2>2, Zenon
      <4> QED BY <4>1, <1>1
    <3> QED BY <1>1, <3>2, <3>3, <2>2, Zenon DEF Leads
  <2>3. ASSUME NEW j \in 1 .. Len(t), \A n \in 1 .. Len(t) : t[n].route = r => n <= j,
               t[j].route = r, t[j].type = "RTM_NEWROUTE"
        PROVE  Leads(q, routes, r)
    <3>1. ASSUME NEW n \in 1 .. Len(q), q[n].route = r PROVE n <= j + 1
      <4>1. CASE n = 1
        BY <4>1, <1>1
      <4>2. CASE n # 1
        <5>1. n - 1 \in 1 .. Len(t) /\ (n - 1) + 1 = n
          BY <4>2, <1>1
        <5>2. t[n - 1].route = r
          BY <5>1, <1>1, <3>1, Zenon
        <5>3. n - 1 <= j
          BY <5>1, <5>2, <2>3, Zenon
        <5> QED BY <5>3, <1>1
      <4> QED BY <4>1, <4>2, Zenon
    <3> QED BY <1>1, <2>1, <2>3, <3>1, Zenon DEF Leads
  <2>4. i + 1 \in 1 .. Len(q) /\ q[i + 1].route = r
    BY <1>1, <1>4, <2>1, Zenon
  <2> QED BY <1>4, <2>2, <2>3, <2>4, Zenon DEF Leads
<1> QED BY <1>3, <1>4, Zenon DEF t, m, after

MonitorTypes ==
    /\ rmQueue \in Seq(Notification) /\ rmOverrun \in BOOLEAN /\ running \in BOOLEAN
    /\ table \in SUBSET Route /\ known \in SUBSET Route
    /\ rmPc \in {"socket", "while", "enter", "select", "recv", "close", "stopped"}

(* Before the socket is bound nothing is queued, and recv is only reached  *)
(* when there is something to report.                                      *)
MonitorInv ==
    /\ MonitorTypes
    /\ rmPc = "socket" => rmQueue = <<>> /\ ~rmOverrun
    /\ rmPc = "recv" => rmQueue # <<>> \/ rmOverrun
    /\ rmPc \in {"while", "enter", "select", "recv"} /\ ~rmOverrun =>
          \A r \in Route : r \in table <=> Leads(rmQueue, known, r)

(* The queue is empty and the copy is the table.                           *)
LEMMA MonitorInit == Monitor!Init => MonitorInv
<1> SUFFICES ASSUME Monitor!Init PROVE MonitorInv
  BY Zenon
<1>1. rmPc = "socket" /\ rmQueue = <<>> /\ rmOverrun = FALSE
  BY Zenon DEF Monitor!Init
<1>2. <<>> \in Seq(Notification)
  OBVIOUS
<1>3. MonitorTypes
  BY <1>1, <1>2, Zenon DEF Monitor!Init, MonitorTypes
<1> QED BY <1>1, <1>3, Zenon DEF MonitorInv

(* The steps of main but for recv.                                         *)
LEMMA MonitorMain ==
  ASSUME MonitorInv, Monitor!Start \/ Monitor!While \/ Monitor!SelectReady
                     \/ Monitor!SelectTimeout \/ Monitor!SelectFails \/ Monitor!Cleanup
                     \/ Monitor!signal_handler
  PROVE  MonitorInv'
<1>1. CASE Monitor!Start
  <2>1. rmPc = "socket" /\ rmQueue = <<>> /\ rmOverrun = FALSE
    BY <1>1, Zenon DEF Monitor!Start, Monitor!Goto, MonitorInv, MonitorTypes
  <2>2. /\ rmPc' \in {"while", "stopped"} /\ known' = table
        /\ UNCHANGED <<running, table, rmQueue, rmOverrun>>
    BY <1>1, Zenon DEF Monitor!Start, Monitor!Goto
  <2>3. MonitorTypes'
    BY <2>2, Zenon DEF MonitorTypes, MonitorInv
  <2>4. \A r \in Route : r \in table <=> Leads(<<>>, table, r)
    BY DEF Leads
  <2> QED BY <2>1, <2>2, <2>3, <2>4, Zenon DEF MonitorInv
<1>2. CASE \/ Monitor!While \/ Monitor!SelectReady \/ Monitor!SelectTimeout
           \/ Monitor!SelectFails \/ Monitor!Cleanup \/ Monitor!signal_handler
  <2>1. /\ UNCHANGED <<table, rmQueue, rmOverrun, known>>
        /\ running' \in BOOLEAN
    BY <1>2, Zenon DEF Monitor!While, Monitor!SelectReady, Monitor!SelectTimeout,
                Monitor!SelectFails, Monitor!Cleanup, Monitor!signal_handler,
                MonitorInv, MonitorTypes
  <2>2. /\ rmPc' \in {"while", "enter", "select", "recv", "close", "stopped"} \/ rmPc' = rmPc
        /\ rmPc' \in {"while", "enter", "select", "recv"} =>
              rmPc \in {"while", "enter", "select", "recv"}
        /\ rmPc' = "recv" => rmPc = "recv" \/ rmQueue # <<>> \/ rmOverrun
    BY <1>2, Zenon DEF Monitor!While, Monitor!SelectReady, Monitor!SelectTimeout, Monitor!Goto,
                Monitor!SelectFails, Monitor!Cleanup, Monitor!signal_handler
  <2>3. MonitorTypes'
    BY <2>1, <2>2, Zenon DEF MonitorTypes, MonitorInv
  <2>4. rmPc' = "socket" => rmPc = "socket"
    BY Zenon, <2>2
  <2> QED BY <2>1, <2>2, <2>3, <2>4, Zenon DEF MonitorInv
<1> QED BY <1>1, <1>2, Zenon

(* recv reports an overrun, which ends the loop, or hands out the first    *)
(* notification.                                                           *)
LEMMA MonitorLoop ==
  ASSUME MonitorInv, Monitor!loop
  PROVE  MonitorInv'
<1>1. rmPc = "recv" /\ UNCHANGED <<running, table>>
  BY Zenon DEF Monitor!loop, Monitor!Goto
<1>2. CASE rmOverrun
  <2>1. rmPc' = "close" /\ rmOverrun' = FALSE /\ UNCHANGED <<rmQueue, known>>
    BY <1>2, Zenon DEF Monitor!loop, Monitor!Goto, Monitor!RecvFails
  <2>2. MonitorTypes'
    BY <1>1, <2>1, Zenon DEF MonitorTypes, MonitorInv
  <2> QED BY <2>1, <2>2, Zenon DEF MonitorInv
<1>3. CASE ~rmOverrun
  <2>1. /\ rmPc' = "while" /\ rmQueue' = Tail(rmQueue) /\ rmOverrun' = rmOverrun
        /\ known' = Monitor!print_route_info(known, Head(rmQueue))
    BY <1>3, Zenon DEF Monitor!loop, Monitor!Goto
  <2>2. rmQueue # <<>> /\ rmQueue \in Seq(Notification)
    BY <1>1, <1>3, Zenon DEF MonitorInv, MonitorTypes
  <2>3. Head(rmQueue) \in Notification /\ Tail(rmQueue) \in Seq(Notification)
    BY <2>2
  <2>4. known' \in SUBSET Route
    BY <2>1, <2>3, Zenon DEF Monitor!print_route_info, Notification, MonitorInv, MonitorTypes
  <2>5. MonitorTypes'
    BY <1>1, <2>1, <2>3, <2>4, Zenon DEF MonitorTypes, MonitorInv
  <2>6. \A r \in Route : r \in table <=> Leads(rmQueue, known, r)
    BY <1>1, <1>3, Zenon DEF MonitorInv
  <2>7. \A r \in Route : r \in table' <=> Leads(rmQueue', known', r)
    BY <1>1, <2>1, <2>2, <2>6, LeadsTail, Zenon
  <2> QED BY <2>1, <2>5, <2>7, Zenon DEF MonitorInv
<1> QED BY <1>2, <1>3, Zenon

(* A change of a route is queued behind the others, or overruns the buffer.*)
LEMMA MonitorRoute ==
  ASSUME MonitorInv, NEW r \in Route, Monitor!RouteChanges(r)
  PROVE  MonitorInv'
<1> DEFINE type == IF r \in table THEN "RTM_DELROUTE" ELSE "RTM_NEWROUTE"
           m == [type |-> type, route |-> r]
<1>1. /\ table' = IF r \in table THEN table \ {r} ELSE table \cup {r}
      /\ UNCHANGED <<rmPc, running, known>>
  BY Zenon DEF Monitor!RouteChanges
<1>2. table' \in SUBSET Route
  BY <1>1, Zenon DEF MonitorInv, MonitorTypes
<1>3. CASE UNCHANGED <<rmQueue, rmOverrun>> /\ rmPc \in {"socket", "stopped"}
  <2>1. MonitorTypes'
    BY <1>1, <1>2, <1>3, Zenon DEF MonitorTypes, MonitorInv
  <2> QED BY <1>1, <1>3, <2>1, Zenon DEF MonitorInv
<1>4. CASE rmQueue' = Append(rmQueue, m) /\ rmOverrun' = rmOverrun
           /\ rmPc \notin {"socket", "stopped"}
  <2>1. m \in Notification /\ rmQueue \in Seq(Notification)
    BY Zenon DEF Notification, MonitorInv, MonitorTypes
  <2>2. rmQueue' \in Seq(Notification) /\ rmQueue' # <<>>
    BY <1>4, <2>1
  <2>3. MonitorTypes'
    BY <1>1, <1>2, <1>4, <2>2, Zenon DEF MonitorTypes, MonitorInv
  <2>4. ASSUME NEW s \in Route, s \in table <=> Leads(rmQueue, known, s)
        PROVE  s \in table' <=> Leads(rmQueue', known', s)
    <3>1. m.route = r /\ m.type = type
      BY Zenon
    <3>2. Leads(rmQueue', known', s) <=>
             IF r = s THEN type = "RTM_NEWROUTE" ELSE Leads(rmQueue, known, s)
      BY <1>1, <1>4, <2>1, <3>1, LeadsAppend, Zenon
    <3> QED BY Zenon, <1>1, <2>4, <3>2
  <2> HIDE DEF m, type
  <2> QED BY <1>1, <1>4, <2>2, <2>3, <2>4, Zenon DEF MonitorInv
<1>5. CASE rmOverrun' = TRUE /\ rmQueue' = rmQueue /\ rmPc \notin {"socket", "stopped"}
  <2>1. MonitorTypes'
    BY <1>1, <1>2, <1>5, Zenon DEF MonitorTypes, MonitorInv
  <2> QED BY <1>1, <1>5, <2>1, Zenon DEF MonitorInv
<1> QED BY <1>3, <1>4, <1>5, Zenon DEF Monitor!RouteChanges

(* For every set of routes and every size of the socket buffer, the lines  *)
(* route_monitor has printed and the notifications that wait in its socket *)
(* lead to the kernel's table for as long as it goes on.                   *)
THEOREM NoGap == Monitor!Spec => []OutputHasNoGap
<1>1. MonitorInv /\ [Monitor!Next]_Monitor!vars => MonitorInv'
  <2> SUFFICES ASSUME MonitorInv, [Monitor!Next]_Monitor!vars PROVE MonitorInv'
    BY Zenon
  <2>1. CASE UNCHANGED Monitor!vars
    BY <2>1, Zenon DEF Monitor!vars, MonitorInv, MonitorTypes
  <2>2. CASE Monitor!Next
    BY <2>2, MonitorMain, MonitorLoop, MonitorRoute, Zenon DEF Monitor!Next, Monitor!Step
  <2> QED BY <2>1, <2>2, Zenon
<1>2. MonitorInv => OutputHasNoGap
  <2> SUFFICES ASSUME MonitorInv, NEW r \in Route
               PROVE  Leads(rmQueue, known, r) <=>
                        \/ Monitor!About(r) = {} /\ r \in known
                        \/ \E j \in Monitor!About(r) :
                              /\ rmQueue[j].type = "RTM_NEWROUTE"
                              /\ \A n \in Monitor!About(r) : n <= j
    BY Zenon DEF MonitorInv, OutputHasNoGap, Monitor!OutputHasNoGap
  <2>1. DOMAIN rmQueue = 1 .. Len(rmQueue)
    BY DEF MonitorInv, MonitorTypes
  <2>2. \A j : j \in Monitor!About(r) <=> j \in 1 .. Len(rmQueue) /\ rmQueue[j].route = r
    BY <2>1, Zenon DEF Monitor!About
  <2>3. Monitor!About(r) = {} <=> \A j \in 1 .. Len(rmQueue) : rmQueue[j].route # r
    BY <2>2, Zenon
  <2> QED BY <2>2, <2>3, Zenon DEF Leads
<1> QED BY MonitorInit, <1>1, <1>2, PTL DEF Monitor!Spec

-----------------------------------------------------------------------------
(* route_show.c                                                            *)

Kinds == {"link", "route"}
Message == [type : Kinds \cup {"RTM_DELLINK", "NLMSG_DONE", "NLMSG_ERROR"}, id : Nat]
Dumps == [kind : Kinds, last : Nat]

(* What the section that runs must print.                                  *)
Want == {o \in steady : Show!Kind = "route" => o \in Main}

(* An object is printed, or is in one of the first n datagrams.            *)
Covered(k, q, p, n, o) == o \in p \/ \E j \in 1 .. n : Show!Msg(k, o) \in q[j]

NoEnd(q) == \A j \in 1 .. Len(q) : Show!DONE \notin q[j]
NoError(q) == \A j \in 1 .. Len(q) : Show!ERROR \notin q[j]

(* The answer to a request of kind k is under way: the dump still has to   *)
(* reach what is neither printed nor queued, or it has ended and the       *)
(* NLMSG_DONE is queued behind everything else, but for notifications.     *)
Running(k, want, q, p, d) ==
    /\ d \in Dumps /\ d.kind = k /\ NoEnd(q)
    /\ \A o \in want : Covered(k, q, p, Len(q), o) \/ o > d.last

Ended(k, want, q, p, d, e) ==
    /\ d = Show!NoDump /\ e \in 1 .. Len(q) /\ Show!DONE \in q[e]
    /\ \A j \in 1 .. Len(q) : Show!DONE \in q[j] => j = e
    /\ \A o \in want : Covered(k, q, p, e, o)

Answer(k, want, q, p, d) ==
    Running(k, want, q, p, d) \/ \E e \in Nat : Ended(k, want, q, p, d, e)

(* The special messages are not about an object.                           *)
LEMMA Special ==
  /\ Show!DONE # Show!ERROR /\ Show!DONE \in Message /\ Show!ERROR \in Message
  /\ \A t \in Kinds \cup {"RTM_DELLINK"} : \A o \in Nat :
        /\ Show!Msg(t, o) # Show!DONE /\ Show!Msg(t, o) # Show!ERROR
        /\ Show!Msg(t, o) \in Message
BY Zenon DEF Show!DONE, Show!ERROR, Show!Msg, Message, Kinds

(* The end of a dump is not a dump.                                        *)
LEMMA Over == Show!NoDump \notin Dumps
<1> SUFFICES ASSUME Show!NoDump \in Dumps PROVE FALSE
  BY Zenon
<1>1. Show!NoDump.kind = "none"
  BY Zenon DEF Show!NoDump
<1>2. Show!NoDump.kind \in Kinds
  BY Zenon DEF Dumps
<1> QED BY <1>1, <1>2, Zenon DEF Kinds

(* What a datagram at the end of the queue changes.                        *)
LEMMA AtEnd ==
  ASSUME NEW q \in Seq(SUBSET Message), NEW x \in SUBSET Message
  PROVE  /\ Append(q, x) \in Seq(SUBSET Message)
         /\ Len(Append(q, x)) = Len(q) + 1 /\ Append(q, x)[Len(q) + 1] = x
         /\ Len(q) \in Nat /\ 1 .. Len(Append(q, x)) = 1 .. Len(q) \cup {Len(q) + 1}
         /\ \A j \in 1 .. Len(q) : Append(q, x)[j] = q[j] /\ j # Len(q) + 1
         /\ Show!ERROR \notin x /\ NoError(q) => NoError(Append(q, x))
         /\ Show!DONE \notin x /\ NoEnd(q) => NoEnd(Append(q, x))
<1> DEFINE p == Append(q, x)
<1>1. /\ p \in Seq(SUBSET Message) /\ Len(p) = Len(q) + 1 /\ p[Len(q) + 1] = x
      /\ Len(q) \in Nat
      /\ \A j \in 1 .. Len(q) : p[j] = q[j] /\ j # Len(q) + 1
  OBVIOUS
<1> HIDE DEF p
<1>2. 1 .. Len(p) = 1 .. Len(q) \cup {Len(q) + 1}
  BY <1>1
<1>3. /\ Show!ERROR \notin x /\ NoError(q) => NoError(p)
      /\ Show!DONE \notin x /\ NoEnd(q) => NoEnd(p)
  BY <1>1, <1>2, Zenon DEF NoError, NoEnd
<1> QED BY <1>1, <1>2, <1>3, Zenon DEF p

(* The datagrams before it stay where they are.                            *)
LEMMA AppendSame ==
  ASSUME NEW S, NEW q \in Seq(S), NEW x \in S
  PROVE  \A j \in 1 .. Len(q) : Append(q, x)[j] = q[j]
OBVIOUS

(* A covered object stays covered when a datagram is queued.               *)
LEMMA CoveredAppend ==
  ASSUME NEW q \in Seq(SUBSET Message), NEW x \in SUBSET Message, NEW k, NEW p, NEW o,
         NEW n \in Nat, n <= Len(q), Covered(k, q, p, n, o)
  PROVE  /\ Covered(k, Append(q, x), p, n, o)
         /\ Covered(k, Append(q, x), p, Len(Append(q, x)), o)
<1>1. \A j \in 1 .. n : j \in 1 .. Len(q) /\ j \in 1 .. Len(Append(q, x))
  BY AtEnd
<1>2. \A j \in 1 .. Len(q) : Append(q, x)[j] = q[j]
  BY AppendSame, Zenon
<1> QED BY <1>1, <1>2, Zenon DEF Covered

(* The kernel queues a part of the dump: the answer stays under way.       *)
LEMMA PartAnswer ==
  ASSUME NEW k \in Kinds, NEW q \in Seq(SUBSET Message), NEW p, NEW want, NEW d,
         Running(k, want, q, p, d), NoError(q), Show!Part(d, q),
         want \subseteq exists[k], exists[k] \subseteq Nat
  PROVE  /\ rsQueue' \in Seq(SUBSET Message) /\ NoError(rsQueue')
         /\ dump' \in Dumps \cup {Show!NoDump}
         /\ Answer(k, want, rsQueue', p, dump')
<1> DEFINE left == {o \in exists[k] : o > d.last}
           Msgs(ids) == {Show!Msg(k, o) : o \in ids}
<1>0. d \in Dumps /\ d.kind = k /\ NoEnd(q) /\ d.last \in Nat
  BY Zenon DEF Running, Dumps
<1>1. \A ids \in SUBSET left : /\ Msgs(ids) \in SUBSET Message
                               /\ Show!DONE \notin Msgs(ids) /\ Show!ERROR \notin Msgs(ids)
  <2> SUFFICES ASSUME NEW ids \in SUBSET left, NEW o \in ids
               PROVE  /\ Show!Msg(k, o) \in Message
                      /\ Show!Msg(k, o) # Show!DONE /\ Show!Msg(k, o) # Show!ERROR
    BY Zenon
  <2>1. o \in Nat /\ k \in Kinds \cup {"RTM_DELLINK"}
    BY Zenon
  <2> QED BY <2>1, Special, Zenon
<1>2. ASSUME NEW last \in left, rsQueue' = Append(q, Msgs({o \in left : o <= last})),
             dump' = [d EXCEPT !.last = last]
      PROVE  /\ rsQueue' \in Seq(SUBSET Message) /\ NoError(rsQueue')
             /\ dump' \in Dumps \cup {Show!NoDump}
             /\ Answer(k, want, rsQueue', p, dump')
  <2> DEFINE x == Msgs({o \in left : o <= last})
  <2>1. x \in SUBSET Message /\ Show!DONE \notin x /\ Show!ERROR \notin x
    BY <1>1, Zenon
  <2>2. \A o \in left : o <= last => Show!Msg(k, o) \in x
    BY Zenon
  <2>3. last \in Nat
    BY Zenon
  <2>4. dump' \in Dumps /\ dump'.kind = k /\ dump'.last = last
    BY <1>0, <1>2, <2>3, Zenon DEF Dumps
  <2> HIDE DEF x, Msgs
  <2>5. rsQueue' = Append(q, x)
    BY <1>2, Zenon DEF x
  <2>6. rsQueue' \in Seq(SUBSET Message) /\ NoError(rsQueue') /\ NoEnd(rsQueue')
    BY <1>0, <2>1, <2>5, AtEnd, Zenon
  <2>7. ASSUME NEW o \in want
        PROVE  Covered(k, rsQueue', p, Len(rsQueue'), o) \/ o > dump'.last
    <3>1. CASE Covered(k, q, p, Len(q), o)
      <4>1. Len(q) \in Nat /\ Len(q) <= Len(q)
        OBVIOUS
      <4> QED BY <3>1, <4>1, <2>1, <2>5, CoveredAppend, Zenon
    <3>2. CASE o > d.last
      <4>1. o \in left
        BY <3>2, Zenon
      <4>2. CASE o <= last
        <5>1. Show!Msg(k, o) \in rsQueue'[Len(q) + 1] /\ Len(q) + 1 \in 1 .. Len(rsQueue')
          BY <4>1, <4>2, <2>1, <2>2, <2>5, AtEnd, ZenonT(30)
        <5> QED BY <5>1, Zenon DEF Covered
      <4>3. CASE ~(o <= last)
        <5>1. o \in Nat
          BY <4>1, Zenon
        <5> QED BY <5>1, <4>3, <2>3, <2>4
      <4> QED BY <4>2, <4>3, Zenon
    <3> QED BY <3>1, <3>2, Zenon DEF Running
  <2> QED BY <2>4, <2>6, <2>7, Zenon DEF Answer, Running
<1>3. ASSUME rsQueue' = Append(q, Msgs(left) \cup {Show!DONE}), dump' = Show!NoDump
      PROVE  /\ rsQueue' \in Seq(SUBSET Message) /\ NoError(rsQueue')
             /\ dump' \in Dumps \cup {Show!NoDump}
             /\ Answer(k, want, rsQueue', p, dump')
  <2> DEFINE x == Msgs(left) \cup {Show!DONE}
  <2>1. x \in SUBSET Message /\ Show!DONE \in x /\ Show!ERROR \notin x
    BY <1>1, Special, Zenon
  <2>2. \A o \in left : Show!Msg(k, o) \in x
    BY Zenon
  <2> HIDE DEF x, Msgs
  <2>3. rsQueue' = Append(q, x)
    BY <1>3, Zenon DEF x
  <2>4. rsQueue' \in Seq(SUBSET Message) /\ NoError(rsQueue')
    BY <2>1, <2>3, AtEnd, Zenon
  <2>5. /\ Len(q) + 1 \in Nat /\ Len(q) + 1 \in 1 .. Len(rsQueue')
        /\ rsQueue'[Len(q) + 1] = x /\ Len(rsQueue') = Len(q) + 1
    BY <2>1, <2>3, AtEnd
  <2>6. \A j \in 1 .. Len(rsQueue') : Show!DONE \in rsQueue'[j] => j = Len(q) + 1
    <3>1. /\ 1 .. Len(rsQueue') = 1 .. Len(q) \cup {Len(q) + 1}
          /\ \A j \in 1 .. Len(q) : rsQueue'[j] = q[j]
      BY <2>3
    <3> QED BY <1>0, <3>1, Zenon DEF NoEnd
  <2>7. ASSUME NEW o \in want
        PROVE  Covered(k, rsQueue', p, Len(q) + 1, o)
    <3>1. CASE Covered(k, q, p, Len(q), o)
      <4>1. Len(q) \in Nat /\ Len(q) <= Len(q)
        OBVIOUS
      <4> QED BY <3>1, <4>1, <2>1, <2>3, <2>5, CoveredAppend, Zenon
    <3>2. CASE o > d.last
      <4>1. o \in left
        BY <3>2, Zenon
      <4>2. Show!Msg(k, o) \in rsQueue'[Len(q) + 1] /\ Len(q) + 1 \in 1 .. Len(q) + 1
        BY <4>1, <2>2, <2>5, Zenon
      <4> QED BY <4>2, Zenon DEF Covered
    <3> QED BY <3>1, <3>2, Zenon DEF Running
  <2>8. Ended(k, want, rsQueue', p, dump', Len(q) + 1)
    BY <1>3, <2>1, <2>5, <2>6, <2>7, Zenon DEF Ended
  <2> QED BY <1>3, <2>4, <2>5, <2>8, Zenon DEF Answer
<1> QED BY <1>0, <1>2, <1>3, ZenonT(30) DEF Show!Part

(* A part of any dump is a datagram, whatever else is queued.              *)
LEMMA PartTypes ==
  ASSUME NEW q \in Seq(SUBSET Message), NEW d \in Dumps, Show!Part(d, q),
         exists[d.kind] \subseteq Nat
  PROVE  rsQueue' \in Seq(SUBSET Message) /\ dump' \in Dumps \cup {Show!NoDump}
<1> DEFINE left == {o \in exists[d.kind] : o > d.last}
           Msgs(ids) == {Show!Msg(d.kind, o) : o \in ids}
<1>1. \A ids \in SUBSET left : Msgs(ids) \in SUBSET Message
  <2> SUFFICES ASSUME NEW ids \in SUBSET left, NEW o \in ids
               PROVE  Show!Msg(d.kind, o) \in Message
    BY Zenon
  <2>1. d.kind \in Kinds
    BY Zenon DEF Dumps
  <2>2. o \in Nat /\ d.kind \in Kinds \cup {"RTM_DELLINK"}
    BY <2>1, Zenon
  <2> QED BY <2>2, Special, Zenon
<1>2. ASSUME NEW last \in left, rsQueue' = Append(q, Msgs({o \in left : o <= last})),
             dump' = [d EXCEPT !.last = last]
      PROVE  rsQueue' \in Seq(SUBSET Message) /\ dump' \in Dumps
  <2>1. last \in Nat /\ Msgs({o \in left : o <= last}) \in SUBSET Message
    BY <1>1, Zenon
  <2> HIDE DEF Msgs, left
  <2> QED BY <1>2, <2>1 DEF Dumps
<1>3. ASSUME rsQueue' = Append(q, Msgs(left) \cup {Show!DONE})
      PROVE  rsQueue' \in Seq(SUBSET Message)
  <2>1. Msgs(left) \cup {Show!DONE} \in SUBSET Message
    BY <1>1, Special, Zenon
  <2> HIDE DEF Msgs, left
  <2> QED BY <1>3, <2>1
<1> QED BY <1>2, <1>3, Zenon DEF Show!Part

(* What reading the first datagram leaves.                                 *)
LEMMA AtHead ==
  ASSUME NEW q \in Seq(SUBSET Message), q # <<>>
  PROVE  /\ Head(q) \in SUBSET Message /\ Head(q) = q[1] /\ 1 \in 1 .. Len(q)
         /\ Tail(q) \in Seq(SUBSET Message) /\ Len(q) \in Nat /\ Len(Tail(q)) = Len(q) - 1
         /\ \A j \in 1 .. Len(Tail(q)) : j + 1 \in 1 .. Len(q) /\ Tail(q)[j] = q[j + 1]
         /\ \A j \in 1 .. Len(q) :
               j = 1 \/ (j - 1 \in 1 .. Len(Tail(q)) /\ Tail(q)[j - 1] = q[j])
OBVIOUS

(* A covered object stays covered when the first datagram is read and its  *)
(* objects are printed.                                                    *)
LEMMA CoveredTail ==
  ASSUME NEW q \in Seq(SUBSET Message), q # <<>>, NEW k, NEW p, NEW p2, NEW o,
         NEW n \in Nat, n <= Len(q), Covered(k, q, p, n, o),
         p \subseteq p2, Show!Msg(k, o) \in Head(q) => o \in p2
  PROVE  Covered(k, Tail(q), p2, n - 1, o)
<1>1. CASE o \in p
  BY <1>1, Zenon DEF Covered
<1>2. ASSUME NEW j \in 1 .. n, Show!Msg(k, o) \in q[j]
      PROVE  Covered(k, Tail(q), p2, n - 1, o)
  <2>1. CASE j = 1
    BY <1>2, <2>1, AtHead, Zenon DEF Covered
  <2>2. CASE j # 1
    <3>1. j - 1 \in 1 .. n - 1 /\ j \in 1 .. Len(q)
      BY <2>2
    <3>2. Tail(q)[j - 1] = q[j]
      BY <2>2, <3>1, AtHead, Zenon
    <3> QED BY <1>2, <3>1, <3>2, Zenon DEF Covered
  <2> QED BY <2>1, <2>2, Zenon
<1> QED BY <1>1, <1>2, Zenon DEF Covered

(* Reading a datagram: it was the end and everything wanted is printed, or *)
(* the answer is still under way.                                          *)
LEMMA Received ==
  ASSUME NEW k \in Kinds, NEW want, NEW q \in Seq(SUBSET Message), q # <<>>,
         NEW p, NEW p2, NEW d, Answer(k, want, q, p, d), NoError(q), p \subseteq p2,
         \A o \in want : Show!Msg(k, o) \in Head(q) => o \in p2
  PROVE  /\ NoError(Tail(q)) /\ Show!ERROR \notin Head(q)
         /\ IF Show!DONE \in Head(q)
            THEN d = Show!NoDump /\ NoEnd(Tail(q)) /\ want \subseteq p2
            ELSE /\ Answer(k, want, Tail(q), p2, d)
                 /\ d # Show!NoDump => Running(k, want, Tail(q), p2, d)
<1>1. NoError(Tail(q)) /\ Show!ERROR \notin Head(q)
  BY AtHead, Zenon DEF NoError
<1>2. CASE Running(k, want, q, p, d)
  <2>1. Show!DONE \notin Head(q) /\ NoEnd(Tail(q))
    BY <1>2, AtHead, ZenonT(30) DEF NoEnd, Running
  <2>2. Len(q) \in Nat /\ Len(q) <= Len(q) /\ Len(Tail(q)) = Len(q) - 1
    BY AtHead
  <2>3. \A o \in want : Covered(k, Tail(q), p2, Len(Tail(q)), o) \/ o > d.last
    BY <1>2, <2>2, CoveredTail, Zenon DEF Running
  <2> QED BY <1>1, <1>2, <2>1, <2>3, Zenon DEF Running, Answer
<1>3. ASSUME NEW e \in Nat, Ended(k, want, q, p, d, e)
      PROVE  IF Show!DONE \in Head(q)
             THEN d = Show!NoDump /\ NoEnd(Tail(q)) /\ want \subseteq p2
             ELSE Ended(k, want, Tail(q), p2, d, e - 1) /\ e - 1 \in Nat
  <2>1. /\ e \in 1 .. Len(q) /\ e <= Len(q) /\ d = Show!NoDump
        /\ \A o \in want : Covered(k, Tail(q), p2, e - 1, o)
    <3>1. e \in 1 .. Len(q) /\ d = Show!NoDump
      BY <1>3, Zenon DEF Ended
    <3>2. e <= Len(q)
      BY <3>1
    <3> QED BY <1>3, <3>1, <3>2, CoveredTail, Zenon DEF Ended
  <2>2. CASE Show!DONE \in Head(q)
    <3>1. e = 1
      BY <1>3, <2>2, AtHead, Zenon DEF Ended
    <3>2. NoEnd(Tail(q))
      <4> SUFFICES ASSUME NEW j \in 1 .. Len(Tail(q)), Show!DONE \in Tail(q)[j] PROVE FALSE
        BY Zenon DEF NoEnd
      <4>1. j + 1 = e
        BY <1>3, AtHead, ZenonT(30) DEF Ended
      <4> QED BY <3>1, <4>1
    <3>3. \A j : j \notin 1 .. e - 1
      BY <3>1
    <3>4. want \subseteq p2
      BY <2>1, <3>3, Zenon DEF Covered
    <3> QED BY <2>1, <2>2, <3>2, <3>4, Zenon
  <2>3. CASE Show!DONE \notin Head(q)
    <3>1. e # 1
      BY <1>3, <2>3, AtHead, ZenonT(30) DEF Ended
    <3>2. /\ e - 1 \in Nat /\ e - 1 \in 1 .. Len(Tail(q))
          /\ Tail(q)[e - 1] = q[e]
      BY <2>1, <3>1, AtHead
    <3>3. ASSUME NEW j \in 1 .. Len(Tail(q)), Show!DONE \in Tail(q)[j]
          PROVE  j = e - 1
      <4>1. j + 1 = e
        BY <1>3, <3>3, AtHead, ZenonT(30) DEF Ended
      <4> QED BY <4>1
    <3> QED BY <1>3, <2>1, <2>3, <3>2, <3>3, Zenon DEF Ended
  <2> QED BY <2>2, <2>3, Zenon
<1>4. ASSUME NEW e \in Nat, Ended(k, want, q, p, d, e)
      PROVE  IF Show!DONE \in Head(q)
             THEN d = Show!NoDump /\ NoEnd(Tail(q)) /\ want \subseteq p2
             ELSE /\ Answer(k, want, Tail(q), p2, d)
                  /\ d # Show!NoDump => Running(k, want, Tail(q), p2, d)
  BY <1>3, <1>4, Zenon DEF Answer, Ended
<1> QED BY <1>1, <1>2, <1>4, Zenon DEF Answer

ShowTypes ==
    /\ rsQueue \in Seq(SUBSET Message) /\ rsOverrun \in BOOLEAN /\ failed \in BOOLEAN
    /\ section \in {1, 2} /\ dump \in Dumps \cup {Show!NoDump}
    /\ exists \in [Kinds -> SUBSET (Nat \ {0})]

(* While nothing has failed, no error is queued; outside a section's       *)
(* responses no dump runs and no end is queued, so an end that is read is  *)
(* this section's; within them the answer is under way, unless an overrun  *)
(* is about to be reported; and at the end of the section everything       *)
(* wanted is printed.                                                      *)
Orderly ==
    /\ NoError(rsQueue)
    /\ rsPc # "responses" => dump = Show!NoDump /\ NoEnd(rsQueue)
    /\ rsPc = "responses" /\ ~rsOverrun =>
          Answer(Show!Kind, Want, rsQueue, printed, dump)
    /\ rsPc = "sectionEnd" => Want \subseteq printed

ShowInv ==
    /\ ShowTypes
    /\ rsPc = "responses" => steady \subseteq exists[Show!Kind]
    /\ ~failed => Orderly

(* The section that runs has one of the two kinds.                         *)
LEMMA KindOf == ASSUME ShowTypes PROVE Show!Kind \in Kinds
BY DEF ShowTypes, Show!Kind, Show!Sections, Kinds

(* Nothing is queued and no dump runs.                                     *)
LEMMA ShowInit == Show!Init => ShowInv
<1> SUFFICES ASSUME Show!Init PROVE ShowInv
  BY Zenon
<1>1. /\ rsPc = "section" /\ rsQueue = <<>> /\ dump = Show!NoDump /\ section = 1
      /\ rsOverrun = FALSE /\ failed = FALSE
  BY Zenon DEF Show!Init
<1>2. exists \in [Kinds -> SUBSET (Nat \ {0})]
  <2>1. exists \in [Kinds -> SUBSET (Show!Universe("link") \cup Show!Universe("route"))]
    BY Zenon DEF Show!Init, Kinds
  <2>2. Show!Universe("link") \cup Show!Universe("route") \subseteq Nat \ {0}
    BY ShowAssumption DEF Show!Universe
  <2> QED BY <2>1, <2>2, Zenon
<1>3. <<>> \in Seq(SUBSET Message) /\ NoError(<<>>) /\ NoEnd(<<>>) /\ 1 \in {1, 2}
  BY DEF NoError, NoEnd
<1>4. ShowTypes
  BY <1>1, <1>2, <1>3, Zenon DEF ShowTypes
<1> QED BY <1>1, <1>3, <1>4, Zenon DEF ShowInv, Orderly

(* A section that is not wanted, or that has come to its end.              *)
LEMMA ShowSection ==
  ASSUME ShowInv, Show!Skip \/ Show!SectionEnd
  PROVE  ShowInv'
<1>1. /\ rsPc \in {"section", "sectionEnd"} /\ Show!NextSection
      /\ UNCHANGED <<rsQueue, rsOverrun, dump, exists, printed, steady, failed>>
  BY Zenon DEF Show!Skip, Show!SectionEnd, Show!kernelVars
<1>2. rsPc' \in {"closed", "section"} /\ section' \in {1, 2}
  BY <1>1 DEF Show!NextSection, Show!Sections, ShowInv, ShowTypes
<1>3. ShowTypes'
  BY <1>1, <1>2, Zenon DEF ShowTypes, ShowInv
<1>4. rsPc # "responses" /\ rsPc' # "responses" /\ rsPc' # "sectionEnd"
  BY Zenon, <1>1, <1>2
<1> QED BY <1>1, <1>3, <1>4, Zenon DEF ShowInv, Orderly

(* A call that fails.                                                      *)
LEMMA ShowFails ==
  ASSUME ShowInv, Show!SendFails \/ Show!RecvFails
  PROVE  ShowInv'
<1>1. /\ failed' = TRUE /\ rsPc' = "sectionEnd" /\ rsOverrun' \in BOOLEAN
      /\ UNCHANGED <<section, rsQueue, dump, exists>>
  BY Zenon DEF Show!SendFails, Show!RecvFails, Show!kernelVars, ShowInv, ShowTypes
<1>2. ShowTypes'
  BY <1>1, Zenon DEF ShowTypes, ShowInv
<1>3. rsPc' # "responses"
  BY Zenon, <1>1
<1> QED BY <1>1, <1>2, <1>3, Zenon DEF ShowInv

(* The request: the kernel queues the first part of the dump, or finds no  *)
(* room; after a failure an earlier dump may still run, and it refuses.    *)
LEMMA ShowRequest ==
  ASSUME ShowInv, Show!send_netlink_request
  PROVE  ShowInv'
<1> DEFINE k == Show!Kind
           d == [kind |-> k, last |-> 0]
<1>1. /\ rsPc = "section" /\ rsPc' = "responses" /\ printed' = {} /\ steady' = exists[k]
      /\ UNCHANGED <<section, exists, failed>> /\ Show!Request
  BY Zenon DEF Show!send_netlink_request
<1>2. k \in Kinds /\ Show!Kind' = k
  BY <1>1, KindOf, Zenon DEF ShowInv, Show!Kind
<1>3. exists[k] \in SUBSET (Nat \ {0}) /\ exists[k] \subseteq Nat
  BY <1>2, Zenon DEF ShowInv, ShowTypes
<1>4. d \in Dumps /\ d.kind = k /\ d.last = 0
  BY <1>2, Zenon DEF Dumps
<1>5. rsQueue \in Seq(SUBSET Message) /\ rsOverrun \in BOOLEAN
      /\ dump \in Dumps \cup {Show!NoDump}
  BY Zenon DEF ShowInv, ShowTypes
<1> HIDE DEF k, d
<1>6. CASE dump = Show!NoDump /\ Show!Room(rsQueue)
  <2>1. Show!Part(d, rsQueue) /\ rsOverrun' = rsOverrun
    BY <1>1, <1>6, Zenon DEF Show!Request, d, k
  <2>2. rsQueue' \in Seq(SUBSET Message) /\ dump' \in Dumps \cup {Show!NoDump}
    BY <1>3, <1>4, <1>5, <2>1, PartTypes, Zenon
  <2>3. ASSUME ~failed'
        PROVE  NoError(rsQueue') /\ Answer(k, Want', rsQueue', {}, dump')
    <3>1. NoError(rsQueue) /\ NoEnd(rsQueue)
      <4>1. rsPc # "responses"
        BY Zenon, <1>1
      <4> QED BY <1>1, <4>1, <2>3, Zenon DEF ShowInv, Orderly
    <3>2. Want' \subseteq exists[k]
      BY <1>1, Zenon DEF Want
    <3>3. \A o \in Want' : o > d.last
      BY <1>3, <1>4, <3>2
    <3>4. Running(k, Want', rsQueue, {}, d)
      BY <1>4, <3>1, <3>3, Zenon DEF Running
    <3> QED BY <1>2, <1>3, <1>5, <2>1, <3>1, <3>2, <3>4, PartAnswer, Zenon
  <2>4. ShowTypes'
    BY <1>1, <1>5, <2>1, <2>2, Zenon DEF ShowTypes, ShowInv
  <2>5. rsPc' # "sectionEnd" /\ steady' \subseteq exists[k]
    BY Zenon, <1>1
  <2> QED BY <1>1, <1>2, <2>3, <2>4, <2>5, Zenon DEF ShowInv, Orderly
<1>7. CASE dump = Show!NoDump /\ ~Show!Room(rsQueue)
  <2>1. dump' = d /\ rsOverrun' = TRUE /\ rsQueue' = rsQueue
    BY <1>1, <1>7, Zenon DEF Show!Request, d, k
  <2>2. ShowTypes'
    BY <1>1, <1>4, <1>5, <2>1, Zenon DEF ShowTypes, ShowInv
  <2>3. rsPc' # "sectionEnd" /\ steady' \subseteq exists[k]
    BY <1>1
  <2> QED BY <1>1, <1>2, <2>1, <2>2, <2>3, Zenon DEF ShowInv, Orderly
<1>8. CASE dump # Show!NoDump
  <2>1. failed
    <3>1. rsPc # "responses"
      BY <1>1
    <3> QED BY <1>8, <3>1, Zenon DEF ShowInv, Orderly
  <2>2. /\ dump' = dump
        /\ \/ rsQueue' = Append(rsQueue, {Show!ERROR}) /\ rsOverrun' = rsOverrun
           \/ rsQueue' = rsQueue /\ rsOverrun' = TRUE
    BY <1>1, <1>8, Zenon DEF Show!Request
  <2>3. {Show!ERROR} \in SUBSET Message
    BY Special, Zenon
  <2>4. rsQueue' \in Seq(SUBSET Message) /\ rsOverrun' \in BOOLEAN
    <3>1. Append(rsQueue, {Show!ERROR}) \in Seq(SUBSET Message)
      BY <1>5, <2>3, AtEnd, Zenon
    <3> QED BY <1>5, <2>2, <3>1, Zenon
  <2>5. ShowTypes'
    BY <1>1, <1>5, <2>2, <2>4, Zenon DEF ShowTypes, ShowInv
  <2>6. steady' \subseteq exists[k]
    BY Zenon, <1>1
  <2> QED BY <1>1, <1>2, <2>1, <2>5, <2>6, Zenon DEF ShowInv
<1> QED BY <1>6, <1>7, <1>8, Zenon

(* The next datagram: what it holds for this section is printed, and the   *)
(* kernel may queue another part.                                          *)
LEMMA ShowReceive ==
  ASSUME ShowInv, Show!process_netlink_responses
  PROVE  ShowInv'
<1> DEFINE k == Show!Kind
           datagram == Head(rsQueue)
           rest == Tail(rsQueue)
           more == {m.id : m \in {x \in datagram : Show!Shown(x)}}
<1>1. /\ rsPc = "responses" /\ ~rsOverrun /\ rsQueue # <<>>
      /\ printed' = printed \cup more
      /\ rsPc' = IF Show!EndSeen(datagram) THEN "sectionEnd" ELSE "responses"
      /\ failed' = (failed \/ Show!ERROR \in datagram)
      /\ \/ dump # Show!NoDump /\ Show!Part(dump, rest)
         \/ rsQueue' = rest /\ dump' = dump
      /\ UNCHANGED <<section, rsOverrun, exists, steady>>
  BY Zenon DEF Show!process_netlink_responses
<1>2. k \in Kinds /\ Show!Kind' = k
  BY <1>1, KindOf, Zenon DEF ShowInv, Show!Kind
<1>3. /\ rsQueue \in Seq(SUBSET Message) /\ dump \in Dumps \cup {Show!NoDump}
      /\ exists \in [Kinds -> SUBSET (Nat \ {0})]
  BY Zenon DEF ShowInv, ShowTypes
<1>4. datagram \in SUBSET Message /\ rest \in Seq(SUBSET Message)
  BY <1>1, <1>3, AtHead, Zenon
<1>5. \A t \in Kinds : exists[t] \subseteq Nat
  BY Zenon, <1>3
<1> HIDE DEF k, rest
<1>6. rsQueue' \in Seq(SUBSET Message) /\ dump' \in Dumps \cup {Show!NoDump}
  <2>1. CASE dump # Show!NoDump /\ Show!Part(dump, rest)
    <3>1. dump \in Dumps
      BY <1>3, <2>1, Zenon
    <3>2. dump.kind \in Kinds
      BY <3>1, Zenon DEF Dumps
    <3> QED BY <1>4, <1>5, <2>1, <3>1, <3>2, PartTypes, Zenon
  <2> QED BY <1>1, <1>3, <1>4, <2>1, Zenon
<1>7. failed' \in BOOLEAN
  BY <1>1, Zenon DEF ShowInv, ShowTypes
<1>8. ShowTypes'
  BY <1>1, <1>6, <1>7, Zenon DEF ShowTypes, ShowInv
<1>9. steady' \subseteq exists'[Show!Kind']
  BY <1>1, <1>2, Zenon DEF ShowInv, k
<1>10. ASSUME ~failed' PROVE Orderly'
  <2>1. ~failed /\ NoError(rsQueue) /\ Answer(k, Want, rsQueue, printed, dump)
    BY <1>1, <1>10, Zenon DEF ShowInv, Orderly, k
  <2>2. \A o \in Want : Show!Msg(k, o) \in datagram => o \in printed'
    <3> SUFFICES ASSUME NEW o \in Want, Show!Msg(k, o) \in datagram PROVE o \in more
      BY <1>1, Zenon
    <3>1. Show!Msg(k, o).type = k /\ Show!Msg(k, o).id = o
      BY Zenon DEF Show!Msg
    <3>2. Show!Shown(Show!Msg(k, o))
      BY <3>1, Zenon DEF Show!Shown, Want, k
    <3> QED BY <3>1, <3>2, Zenon
  <2>3. Want' = Want /\ printed \subseteq printed'
    BY <1>1, <1>2, Zenon DEF Want, k
  <2>4. /\ NoError(rest) /\ Show!ERROR \notin datagram
        /\ IF Show!DONE \in datagram
           THEN dump = Show!NoDump /\ NoEnd(rest) /\ Want \subseteq printed'
           ELSE /\ Answer(k, Want, rest, printed', dump)
                /\ dump # Show!NoDump => Running(k, Want, rest, printed', dump)
    <3>1. rsQueue # <<>> /\ rsQueue \in Seq(SUBSET Message) /\ k \in Kinds
      BY <1>1, <1>2, <1>3, Zenon
    <3>2. printed \subseteq printed'
      BY <2>3, Zenon
    <3> QED BY <3>1, <3>2, <2>1, <2>2, Received, Zenon DEF rest
  <2> HIDE DEF datagram
  <2>5. Show!EndSeen(datagram) <=> Show!DONE \in datagram
    BY <2>4, Zenon DEF Show!EndSeen
  <2>6. CASE Show!DONE \in datagram
    <3>1. rsPc' = "sectionEnd" /\ rsQueue' = rest /\ dump' = Show!NoDump
      BY <1>1, <2>4, <2>5, <2>6, Zenon
    <3>2. rsPc' # "responses"
      BY Zenon, <3>1
    <3> QED BY <2>3, <2>4, <2>6, <3>1, <3>2, Zenon DEF Orderly
  <2>7. CASE Show!DONE \notin datagram
    <3>1. rsPc' = "responses"
      BY <1>1, <2>5, <2>7, Zenon
    <3>2. rsPc' # "sectionEnd"
      BY Zenon, <3>1
    <3>3. NoError(rsQueue') /\ Answer(k, Want, rsQueue', printed', dump')
      <4>1. CASE dump # Show!NoDump /\ Show!Part(dump, rest)
        <5>1. Running(k, Want, rest, printed', dump)
          BY <2>4, <2>7, <4>1, Zenon
        <5>2. Want \subseteq exists[k]
          BY <1>1, Zenon DEF Want, ShowInv, k
        <5> QED BY <1>2, <1>4, <1>5, <2>4, <4>1, <5>1, <5>2, PartAnswer, Zenon
      <4>2. CASE rsQueue' = rest /\ dump' = dump
        BY <2>4, <2>7, <4>2, Zenon
      <4> QED BY <1>1, <4>1, <4>2, Zenon
    <3> QED BY <1>2, <2>3, <3>1, <3>2, <3>3, Zenon DEF Orderly
  <2> QED BY <2>6, <2>7, Zenon
<1> QED BY <1>8, <1>9, <1>10, Zenon DEF ShowInv

(* A notification behind an answer under way leaves it so.                 *)
LEMMA NotifiedAnswer ==
  ASSUME NEW k, NEW want, NEW less \in SUBSET want, NEW q \in Seq(SUBSET Message), NEW p,
         NEW d, NEW x \in SUBSET Message, Show!DONE \notin x, Answer(k, want, q, p, d)
  PROVE  Answer(k, less, Append(q, x), p, d)
<1>1. CASE Running(k, want, q, p, d)
  <2>1. NoEnd(Append(q, x))
    BY <1>1, AtEnd, Zenon DEF Running
  <2>2. Len(q) \in Nat /\ Len(q) <= Len(q)
    OBVIOUS
  <2>3. \A o \in less : Covered(k, Append(q, x), p, Len(Append(q, x)), o) \/ o > d.last
    BY <1>1, <2>2, CoveredAppend, Zenon DEF Running
  <2> QED BY <1>1, <2>1, <2>3, Zenon DEF Running, Answer
<1>2. ASSUME NEW e \in Nat, Ended(k, want, q, p, d, e)
      PROVE  Ended(k, less, Append(q, x), p, d, e)
  <2>1. e \in 1 .. Len(q)
    BY <1>2, Zenon DEF Ended
  <2>2. e <= Len(q) /\ e \in 1 .. Len(Append(q, x))
    BY <2>1, AtEnd
  <2>3. \A o \in less : Covered(k, Append(q, x), p, e, o)
    BY <1>2, <2>2, CoveredAppend, Zenon DEF Ended
  <2>4. Show!DONE \in Append(q, x)[e]
    BY <1>2, <2>1, AppendSame, ZenonT(30) DEF Ended
  <2>5. ASSUME NEW j \in 1 .. Len(Append(q, x)), Show!DONE \in Append(q, x)[j]
        PROVE  j = e
    <3>1. j \in 1 .. Len(q)
      BY <2>5, AtEnd
    <3> QED BY <1>2, <2>5, <3>1, AppendSame, ZenonT(30) DEF Ended
  <2> QED BY <1>2, <2>2, <2>3, <2>4, <2>5, Zenon DEF Ended
<1> QED BY <1>1, <1>2, Zenon DEF Answer

(* A smaller wish is answered by the same messages.                        *)
LEMMA LessAnswer ==
  ASSUME NEW k, NEW want, NEW less \in SUBSET want, NEW q, NEW p, NEW d,
         Answer(k, want, q, p, d)
  PROVE  Answer(k, less, q, p, d)
BY Zenon DEF Answer, Running, Ended

(* A link or a route comes or goes; of a link a notification is queued, or *)
(* the buffer overruns.                                                    *)
LEMMA ShowChange ==
  ASSUME ShowInv, NEW kind \in Kinds, NEW o \in Nat \ {0}, Show!Change(kind, o)
  PROVE  ShowInv'
<1> DEFINE k == Show!Kind
           type == IF o \in exists[kind] THEN "RTM_DELLINK" ELSE "link"
           x == {Show!Msg(type, o)}
<1>1. /\ exists' = [exists EXCEPT ![kind] = IF o \in exists[kind] THEN @ \ {o} ELSE @ \cup {o}]
      /\ steady' = IF kind = k THEN steady \ {o} ELSE steady
      /\ \/ UNCHANGED <<rsQueue, rsOverrun>>
         \/ rsQueue' = Append(rsQueue, x) /\ rsOverrun' = rsOverrun
         \/ rsQueue' = rsQueue /\ rsOverrun' = TRUE
      /\ UNCHANGED <<section, rsPc, dump, printed, failed>>
  BY Zenon DEF Show!Change
<1>2. k \in Kinds /\ Show!Kind' = k
  BY <1>1, KindOf, Zenon DEF ShowInv, Show!Kind
<1>3. /\ rsQueue \in Seq(SUBSET Message) /\ rsOverrun \in BOOLEAN
      /\ exists \in [Kinds -> SUBSET (Nat \ {0})]
  BY Zenon DEF ShowInv, ShowTypes
<1>4. exists' \in [Kinds -> SUBSET (Nat \ {0})]
  BY <1>1, <1>3, Zenon
<1>5. x \in SUBSET Message /\ Show!DONE \notin x /\ Show!ERROR \notin x
  <2>1. o \in Nat /\ type \in Kinds \cup {"RTM_DELLINK"}
    BY Zenon DEF Kinds
  <2> HIDE DEF type
  <2> QED BY <2>1, Special, Zenon
<1> HIDE DEF x, k
<1>6. rsQueue' \in Seq(SUBSET Message) /\ rsOverrun' \in BOOLEAN
  <2>1. Append(rsQueue, x) \in Seq(SUBSET Message)
    BY <1>3, <1>5, AtEnd, Zenon
  <2> QED BY <1>1, <1>3, <2>1, Zenon
<1>7. ShowTypes'
  BY <1>1, <1>4, <1>6, Zenon DEF ShowTypes, ShowInv
<1>8. ASSUME rsPc' = "responses" PROVE steady' \subseteq exists'[Show!Kind']
  <2>1. steady \subseteq exists[k]
    BY <1>1, <1>8, Zenon DEF ShowInv, k
  <2>2. CASE kind = k
    <3>1. exists'[k] = IF o \in exists[kind] THEN exists[k] \ {o} ELSE exists[k] \cup {o}
      BY <1>1, <1>2, <1>3, <2>2, Zenon
    <3>2. steady' = steady \ {o}
      BY <1>1, <2>2, Zenon
    <3>3. steady' \subseteq exists'[k]
      BY Zenon, <2>1, <3>1, <3>2
    <3> QED BY <1>2, <3>3, Zenon
  <2>3. CASE kind # k
    <3>1. exists'[k] = exists[k]
      BY <1>1, <1>2, <1>3, <2>3, Zenon
    <3> QED BY <1>1, <1>2, <2>1, <2>3, <3>1, Zenon
  <2> QED BY <2>2, <2>3, Zenon
<1>9. Want' \in SUBSET Want
  BY <1>1, <1>2, Zenon DEF Want, k
<1>10. ASSUME ~failed' PROVE Orderly'
  <2>1. Orderly
    BY <1>1, <1>10, Zenon DEF ShowInv
  <2>2. NoError(rsQueue') /\ (NoEnd(rsQueue) => NoEnd(rsQueue'))
    <3>1. NoError(rsQueue)
      BY <2>1, Zenon DEF Orderly
    <3>2. /\ NoError(Append(rsQueue, x))
          /\ NoEnd(rsQueue) => NoEnd(Append(rsQueue, x))
      BY <1>3, <1>5, <3>1, AtEnd, Zenon
    <3>3. rsQueue' = rsQueue \/ rsQueue' = Append(rsQueue, x)
      BY <1>1, Zenon
    <3> QED BY <3>1, <3>2, <3>3, Zenon
  <2>3. ASSUME rsPc' = "responses", ~rsOverrun'
        PROVE  Answer(k, Want', rsQueue', printed', dump')
    <3>1. ~rsOverrun /\ Answer(k, Want, rsQueue, printed, dump)
      <4>0. rsPc' = rsPc /\ (rsOverrun' = rsOverrun \/ rsOverrun' = TRUE)
        BY <1>1, Zenon
      <4>1. rsPc = "responses"
        BY <2>3, <4>0, Zenon
      <4>2. ~rsOverrun
        BY Zenon, <2>3, <4>0
      <4> QED BY <2>1, <4>1, <4>2, Zenon DEF Orderly, k
    <3>2. CASE rsQueue' = rsQueue
      BY <1>1, <1>9, <3>1, <3>2, LessAnswer, Zenon
    <3>3. CASE rsQueue' = Append(rsQueue, x)
      <4>1. Answer(k, Want', Append(rsQueue, x), printed, dump)
        BY <1>3, <1>5, <1>9, <3>1, NotifiedAnswer, Zenon
      <4> QED BY <1>1, <3>3, <4>1, Zenon
    <3> QED BY <1>1, <3>2, <3>3, Zenon
  <2>4. rsPc' = "sectionEnd" => Want' \subseteq printed'
    BY <1>1, <1>9, <2>1, Zenon DEF Orderly
  <2> QED BY <1>1, <1>2, <2>1, <2>2, <2>3, <2>4, Zenon DEF Orderly
<1> QED BY <1>7, <1>8, <1>10, Zenon DEF ShowInv

(* For every number of links and routes, every main table, every size of   *)
(* the socket buffer and any number of changes, a section of route_show in *)
(* which nothing failed has printed every link, or route of the main table,*)
(* that existed from its request on.                                       *)
THEOREM Complete == Show!Spec => []SectionComplete
<1>1. ShowInv /\ [Show!Next]_Show!vars => ShowInv'
  <2> SUFFICES ASSUME ShowInv, [Show!Next]_Show!vars PROVE ShowInv'
    BY Zenon
  <2>1. CASE UNCHANGED Show!vars
    <3>1. UNCHANGED <<section, rsPc, rsQueue, rsOverrun, dump, exists, printed, steady, failed>>
      BY <2>1, Zenon DEF Show!vars, Show!kernelVars
    <3>2. Show!Kind' = Show!Kind
      BY <3>1, Zenon DEF Show!Kind
    <3>3. Want' = Want
      BY <3>1, <3>2, Zenon DEF Want
    <3> QED BY <3>1, <3>2, <3>3, Zenon DEF ShowInv, ShowTypes, Orderly
  <2>2. CASE Show!Step \/ Show!SendFails
    BY <2>2, ShowSection, ShowFails, ShowRequest, ShowReceive, Zenon DEF Show!Step
  <2>3. ASSUME NEW o \in 1 .. Links, Show!Change("link", o) PROVE ShowInv'
    <3>1. o \in Nat \ {0} /\ "link" \in Kinds
      BY ShowAssumption DEF Kinds
    <3> QED BY <2>3, <3>1, ShowChange, Zenon
  <2>4. ASSUME NEW o \in 1 .. Routes, Show!Change("route", o) PROVE ShowInv'
    <3>1. o \in Nat \ {0} /\ "route" \in Kinds
      BY ShowAssumption DEF Kinds
    <3> QED BY <2>4, <3>1, ShowChange, Zenon
  <2> QED BY <2>1, <2>2, <2>3, <2>4, Zenon DEF Show!Next
<1>2. ShowInv => SectionComplete
  BY Zenon DEF ShowInv, Orderly, Want, SectionComplete, Show!SectionComplete
<1> QED BY ShowInit, <1>1, <1>2, PTL DEF Show!Spec
=============================================================================
