---------------------------- MODULE RouteMonitor ----------------------------
(***************************************************************************)
(* route_monitor.c: prints every change of the IPv4 routes until a signal  *)
(* stops it.  Someone who knows the routes at the start and applies the    *)
(* printed lines holds a copy of the table; known is that copy.  Routes    *)
(* are told apart by what print_route_info prints of them.                 *)
(***************************************************************************)
EXTENDS Naturals, Sequences

CONSTANTS Route,
          RcvBuf        \* bound: datagrams the socket buffer holds

VARIABLES pc,           \* how far main has come
          running,
          table,        \* the kernel's routes
          queue,        \* notifications in the socket buffer, one in a datagram
          overrun,      \* ENOBUFS waits to be reported
          known

vars == <<pc, running, table, queue, overrun, known>>

Init ==
    /\ pc = "socket" /\ running = TRUE
    /\ table \in SUBSET Route /\ known = table
    /\ queue = <<>> /\ overrun = FALSE

Goto(from, to) == pc = from /\ pc' = to

(* The copy after the line print_route_info prints for a message.          *)
print_route_info(routes, msg) ==
    CASE msg.type = "RTM_NEWROUTE" -> routes \cup {msg.route}
      [] msg.type = "RTM_DELROUTE" -> routes \ {msg.route}
      [] OTHER -> routes

-----------------------------------------------------------------------------
(* socket and bind, with the table as it is when notifications begin.      *)
Start ==
    /\ Goto("socket", "while") \/ Goto("socket", "stopped")
    /\ known' = table
    /\ UNCHANGED <<running, table, queue, overrun>>

While ==
    /\ \/ running /\ Goto("while", "enter")
       \/ ~running /\ Goto("while", "close")
       \/ Goto("enter", "select")
    /\ UNCHANGED <<running, table, queue, overrun, known>>

SelectReady ==
    /\ Goto("select", "recv")
    /\ queue # <<>> \/ overrun
    /\ UNCHANGED <<running, table, queue, overrun, known>>

(* Fault: select waits without a timeout.                                  *)
SelectTimeout_None == FALSE

(* tv: select returns after a second.                                      *)
SelectTimeout == Goto("select", "while") /\ UNCHANGED <<running, table, queue, overrun, known>>

(* select fails other than with EINTR.                                     *)
SelectFails == Goto("select", "close") /\ UNCHANGED <<running, table, queue, overrun, known>>

(* Fault: an overrun is taken for an interrupted call.                     *)
RecvFails_Again == "while"

RecvFails == "close"

(* recv and the parsing of what it returns; the kernel sends this socket   *)
(* nothing but notifications.                                              *)
loop ==
    /\ \/ /\ overrun
          /\ Goto("recv", RecvFails)
          /\ overrun' = FALSE /\ UNCHANGED <<queue, known>>
       \/ /\ ~overrun
          /\ Goto("recv", "while")
          /\ known' = print_route_info(known, Head(queue))
          /\ queue' = Tail(queue) /\ UNCHANGED overrun
    /\ UNCHANGED <<running, table>>

Cleanup == Goto("close", "stopped") /\ UNCHANGED <<running, table, queue, overrun, known>>

(* SIGINT or SIGTERM: signal installs a handler that restarts recv but not *)
(* select.                                                                 *)
signal_handler ==
    /\ pc # "stopped" /\ running
    /\ running' = FALSE
    /\ pc' = IF pc = "select" THEN "while" ELSE pc
    /\ UNCHANGED <<table, queue, overrun, known>>

(* A route is added or deleted; the group's members are notified.          *)
RouteChanges(r) ==
    /\ table' = IF r \in table THEN table \ {r} ELSE table \cup {r}
    /\ LET type == IF r \in table THEN "RTM_DELROUTE" ELSE "RTM_NEWROUTE"
       IN  IF pc \in {"socket", "stopped"} THEN UNCHANGED <<queue, overrun>>
           ELSE IF Len(queue) < RcvBuf
           THEN queue' = Append(queue, [type |-> type, route |-> r]) /\ UNCHANGED overrun
           ELSE overrun' = TRUE /\ UNCHANGED queue
    /\ UNCHANGED <<pc, running, known>>

Step == Start \/ While \/ SelectReady \/ SelectTimeout \/ loop \/ Cleanup

Next == Step \/ SelectFails \/ signal_handler \/ \E r \in Route : RouteChanges(r)

(* The process is scheduled and its timeout expires; routes may change or  *)
(* not.                                                                    *)
Spec == Init /\ [][Next]_vars /\ WF_vars(Step)

-----------------------------------------------------------------------------
About(r) == {j \in DOMAIN queue : queue[j].route = r}

(* As long as the monitor goes on, its output has no gap: the printed lines*)
(* and the queued notifications, of which the last about a route decides,  *)
(* lead to the kernel's table.  A change that found the buffer full stops  *)
(* the monitor instead.                                                    *)
OutputHasNoGap ==
    pc \in {"while", "enter", "select", "recv"} /\ ~overrun =>
       \A r \in Route :
          r \in table <=>
             \/ About(r) = {} /\ r \in known
             \/ \E j \in About(r) : /\ queue[j].type = "RTM_NEWROUTE"
                                   /\ \A n \in About(r) : n <= j

(* "Press Ctrl+C to exit": a signal ends the monitor, even one that comes  *)
(* between the test of running and select, and however the routes change.  *)
SignalStops == ~running ~> pc = "stopped"
=============================================================================
