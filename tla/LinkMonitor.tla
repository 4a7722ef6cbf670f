---------------------------- MODULE LinkMonitor -----------------------------
(***************************************************************************)
(* link_monitor.c: a select loop over a netlink socket, a timerfd and a    *)
(* signalfd, with its descriptors, its counters and its signals.  The      *)
(* kernel's side of the three descriptors is modelled from their use.      *)
(***************************************************************************)
EXTENDS Integers, FiniteSets, FiniteSetsExt

CONSTANTS W,            \* bits in an unsigned long
          Backlog,      \* bound: datagrams the socket buffer holds
          MaxExpired    \* bound: expirations waiting in the timerfd

SIGINT == 2
SIGUSR1 == 10
SIGUSR2 == 12
SIGTERM == 15
mask == {SIGINT, SIGTERM, SIGUSR1, SIGUSR2}

Fd == 3 .. 6            \* bound: descriptors a process may have beside stdio
NoFd == -1
M == 2 ^ W

VARIABLES pc,           \* how far main has come
          file,         \* what each descriptor refers to, "none" if closed
          g_netlink_fd, g_timer_fd, g_signal_fd,
          g_running,
          g_stats,      \* link_events, timer_ticks and signal_count
          readfds,      \* what the last select found ready
          blocked,      \* whether sigprocmask has blocked the four signals
          pending,      \* the blocked signals that have been sent
          backlog,      \* datagrams in the socket buffer
          overrun,      \* "no", "waiting" (ENOBUFS has still to be reported) or
                        \* "reported": nothing is queued until the buffer is empty
          expired,      \* expirations waiting in the timerfd
          events,       \* history: link changes and expirations since the
                        \* statistics were reset
          lost          \* history: the link changes among them whose notification
                        \* the kernel dropped

fdVars == <<g_netlink_fd, g_timer_fd, g_signal_fd>>
kernelVars == <<pending, backlog, overrun, expired>>
historyVars == <<events, lost>>
vars == <<pc, file, fdVars, g_running, g_stats, readfds, blocked, kernelVars, historyVars>>

Init ==
    /\ pc = "netlink" /\ file = [f \in Fd |-> "none"]
    /\ g_netlink_fd = NoFd /\ g_timer_fd = NoFd /\ g_signal_fd = NoFd
    /\ g_running = TRUE
    /\ g_stats = [link_events |-> 0, timer_ticks |-> 0, signal_count |-> 0]
    /\ readfds = {} /\ blocked = FALSE /\ pending = {}
    /\ backlog = 0 /\ overrun = "no" /\ expired = 0
    /\ events = [link |-> 0, timer |-> 0] /\ lost = 0

Free(files) == {f \in Fd : files[f] = "none"}
Close(files, f) == IF f \in Fd THEN [files EXCEPT ![f] = "none"] ELSE files

(* A system call that returns a descriptor: the lowest free one.           *)
Opens(kind, fd) ==
    /\ Free(file) # {}
    /\ fd = Min(Free(file))
    /\ file' = [file EXCEPT ![fd] = kind]

-----------------------------------------------------------------------------
(* main, up to the loop: every initialisation may fail                     *)

init_netlink_socket ==
    /\ pc = "netlink"
    /\ \/ \E fd \in Fd : Opens("netlink", fd) /\ g_netlink_fd' = fd /\ pc' = "timer"
       \/ UNCHANGED <<file, g_netlink_fd>> /\ pc' = "cleanup"
    /\ UNCHANGED <<g_timer_fd, g_signal_fd, g_running, g_stats, readfds, blocked,
                   kernelVars, historyVars>>

(* Fault: main goes on without the timer.                                  *)
TimerFailed_GoOn == "signal"

TimerFailed == "cleanup"

(* When timerfd_settime fails the descriptor is closed but g_timer_fd keeps*)
(* its number.                                                             *)
init_timerfd ==
    /\ pc = "timer"
    /\ \/ \E fd \in Fd : Opens("timer", fd) /\ g_timer_fd' = fd /\ pc' = "signal"
       \/ UNCHANGED <<file, g_timer_fd>> /\ pc' = TimerFailed
       \/ UNCHANGED file /\ g_timer_fd' = Min(Free(file)) /\ pc' = TimerFailed
    /\ UNCHANGED <<g_netlink_fd, g_signal_fd, g_running, g_stats, readfds, blocked,
                   kernelVars, historyVars>>

init_signalfd ==
    /\ pc = "signal"
    /\ \/ UNCHANGED <<file, g_signal_fd, blocked>> /\ pc' = "cleanup"
       \/ /\ blocked' = TRUE
          /\ \/ \E fd \in Fd : Opens("signal", fd) /\ g_signal_fd' = fd /\ pc' = "loop"
             \/ UNCHANGED <<file, g_signal_fd>> /\ pc' = "cleanup"
    /\ UNCHANGED <<g_netlink_fd, g_timer_fd, g_running, g_stats, readfds, kernelVars,
                   historyVars>>

-----------------------------------------------------------------------------
(* run_main_loop                                                           *)

IsReady(fd) ==
    \/ file[fd] = "netlink" /\ (backlog > 0 \/ overrun = "waiting")
    \/ file[fd] = "timer" /\ expired > 0
    \/ file[fd] = "signal" /\ pending # {}

Watched == {fd \in {g_netlink_fd, g_timer_fd, g_signal_fd} : fd # NoFd}

(* Where the tests of FD_ISSET, netlink first, lead.                       *)
Handlers(ready) ==
    IF g_netlink_fd \in ready THEN "netlink_event"
    ELSE IF g_timer_fd \in ready THEN "timer_event"
    ELSE IF g_signal_fd \in ready THEN "signal_event" ELSE "loop"

(* A call that EINTR ended is made again.                                  *)
select ==
    /\ pc = "loop" /\ g_running
    /\ readfds' = {fd \in Watched : IsReady(fd)}
    /\ readfds' # {}
    /\ pc' = Handlers(readfds')
    /\ UNCHANGED <<file, fdVars, g_running, g_stats, blocked, kernelVars, historyVars>>

LoopEnds ==
    /\ pc = "loop" /\ ~g_running
    /\ pc' = "cleanup"
    /\ UNCHANGED <<file, fdVars, g_running, g_stats, readfds, blocked, kernelVars, historyVars>>

(* select fails other than with EINTR.                                     *)
SelectFails ==
    /\ pc = "loop" /\ g_running
    /\ pc' = "cleanup"
    /\ UNCHANGED <<file, fdVars, g_running, g_stats, readfds, blocked, kernelVars, historyVars>>

(* Fault: a round ends with its first handler.                             *)
HandledOne_Only(fd) == readfds' = {} /\ pc' = "loop"

HandledOne(fd) == readfds' = readfds \ {fd} /\ pc' = Handlers(readfds')

Add(field, n) == g_stats' = [g_stats EXCEPT ![field] = (@ + n) % M]

(* recvfrom reports an overrun, and the handler returns; else a datagram   *)
(* is read.  (get_interface_name opens a socket and closes it again.)      *)
handle_netlink_link_message ==
    /\ pc = "netlink_event"
    /\ HandledOne(g_netlink_fd)
    /\ \/ /\ overrun = "waiting"
          /\ overrun' = "reported"
          /\ UNCHANGED <<backlog, g_stats>>
       \/ /\ overrun # "waiting"
          /\ backlog' = backlog - 1
          /\ Add("link_events", 1)
          /\ overrun' = IF backlog' = 0 THEN "no" ELSE overrun
    /\ UNCHANGED <<file, fdVars, g_running, blocked, pending, expired, historyVars>>

(* Fault: a late read counts as one tick.                                  *)
TimerTicks_One == 1

TimerTicks == expired

handle_timer_event ==
    /\ pc = "timer_event"
    /\ HandledOne(g_timer_fd)
    /\ Add("timer_ticks", TimerTicks)
    /\ expired' = 0
    /\ UNCHANGED <<file, fdVars, g_running, blocked, pending, backlog, overrun,
                   historyVars>>

(* read takes the pending signal with the lowest number.                   *)
handle_signal_event ==
    /\ pc = "signal_event"
    /\ HandledOne(g_signal_fd)
    /\ LET signo == Min(pending)
       IN  /\ pending' = pending \ {signo}
           /\ g_running' = (signo \notin {SIGINT, SIGTERM})
           /\ IF signo = SIGUSR2
              THEN /\ g_stats' = [x \in DOMAIN g_stats |-> 0]
                   /\ events' = [link |-> backlog % M, timer |-> expired % M]
                   /\ lost' = 0
              ELSE Add("signal_count", 1) /\ UNCHANGED historyVars
    /\ UNCHANGED <<file, fdVars, blocked, backlog, overrun, expired>>

cleanup_resources ==
    /\ pc = "cleanup"
    /\ file' = Close(Close(Close(file, g_netlink_fd), g_timer_fd), g_signal_fd)
    /\ g_netlink_fd' = NoFd /\ g_timer_fd' = NoFd /\ g_signal_fd' = NoFd
    /\ pc' = "exited"
    /\ UNCHANGED <<g_running, g_stats, readfds, blocked, kernelVars, historyVars>>
-----------------------------------------------------------------------------
(* The kernel and the user                                                 *)

Alive == pc \notin {"exited", "killed"}
Happened(what) == events' = [events EXCEPT ![what] = (@ + 1) % M]

(* A link changes: the notification is queued, or dropped for want of room.*)
LinkChanges ==
    /\ Alive /\ "netlink" \in {file[f] : f \in Fd}
    /\ Happened("link")
    /\ \/ /\ backlog < Backlog /\ overrun = "no"
          /\ backlog' = backlog + 1
          /\ UNCHANGED <<overrun, lost>>
       \/ /\ backlog = Backlog \/ overrun # "no"
          /\ overrun' = IF overrun = "no" THEN "waiting" ELSE overrun
          /\ lost' = (lost + 1) % M
          /\ UNCHANGED backlog
    /\ UNCHANGED <<pc, file, fdVars, g_running, g_stats, readfds, blocked, pending, expired>>

TimerExpires ==
    /\ Alive /\ "timer" \in {file[f] : f \in Fd} /\ expired < MaxExpired
    /\ expired' = expired + 1 /\ Happened("timer")
    /\ UNCHANGED <<pc, file, fdVars, g_running, g_stats, readfds, blocked, pending, backlog,
                   overrun, lost>>

(* A signal that is not yet blocked ends the program.                      *)
Kill(signo) ==
    /\ Alive
    /\ IF blocked THEN pending' = pending \cup {signo} /\ UNCHANGED <<pc, file>>
       ELSE pc' = "killed" /\ file' = [f \in Fd |-> "none"] /\ UNCHANGED pending
    /\ UNCHANGED <<fdVars, g_running, g_stats, readfds, blocked, backlog, overrun, expired,
                   historyVars>>

Step ==
    \/ init_netlink_socket \/ init_timerfd \/ init_signalfd
    \/ select \/ LoopEnds \/ cleanup_resources
    \/ handle_netlink_link_message \/ handle_timer_event \/ handle_signal_event

Next == Step \/ SelectFails \/ LinkChanges \/ TimerExpires \/ \E signo \in mask : Kill(signo)

(* The process is scheduled; nothing is assumed of links or users.         *)
Spec == Init /\ [][Next]_vars /\ WF_vars(Step)

-----------------------------------------------------------------------------
(* Descriptor numbers are reused, yet a global that still names an open    *)
(* descriptor names its own: no failed initialisation leaves a number that *)
(* cleanup_resources, or a handler, would use on somebody else's file.  And*)
(* however far main got, it leaves no descriptor open.                     *)
DescriptorsOwn ==
    /\ g_netlink_fd # NoFd => file[g_netlink_fd] \in {"netlink", "none"}
    /\ g_timer_fd # NoFd => file[g_timer_fd] \in {"timer", "none"}
    /\ g_signal_fd # NoFd => file[g_signal_fd] \in {"signal", "none"}
    /\ pc = "exited" => Free(file) = Fd

(* Modulo the width of the counters and since the last SIGUSR2: every tick *)
(* is counted or still waits in the timerfd, late reads included; and the  *)
(* count of link events falls short of the link changes by those that wait *)
(* in the socket and by those the kernel dropped when the buffer was full, *)
(* and by no other - a report of ENOBUFS is not counted as an event.       *)
CountsExact ==
    /\ events.link = (g_stats.link_events + backlog + lost) % M
    /\ events.timer = (g_stats.timer_ticks + expired) % M

(* Ctrl+C ends the program however many other events keep coming; so does  *)
(* SIGTERM once SIGUSR1 and SIGUSR2, which read hands out first, stop.     *)
QuitSignalsEnd ==
    /\ SIGINT \in pending ~> ~Alive
    /\ <>[](pending \cap {SIGUSR1, SIGUSR2} = {}) => (SIGTERM \in pending ~> ~Alive)
=============================================================================
