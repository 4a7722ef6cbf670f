----------------------------- MODULE MCNetlink ------------------------------
(***************************************************************************)
(* The four netlink programs for TLC, one of them at a time: program says  *)
(* which one runs, the variables of the others rest.  The netlink demo's   *)
(* module is extended, the others are instances.                           *)
(***************************************************************************)
EXTENDS NetlinkEcho

CONSTANTS W, Backlog, MaxExpired,                         \* LinkMonitor
          Route, MonitorBuf,                              \* RouteMonitor
          Links, Routes, Main, ShowBuf, MaxChanges        \* RouteShow

ASSUME WordAssumption == 2 ^ W \in Nat \ {0}
ASSUME ShowAssumption == Links \in Nat /\ Routes \in Nat

VARIABLES program,
          lmPc, file, g_netlink_fd, g_timer_fd, g_signal_fd, g_running, g_stats, readfds,
          blocked, pending, backlog, lmOverrun, expired, events, lost,
          rmPc, running, table, rmQueue, rmOverrun, known,
          show, section, rsPc, rsQueue, rsOverrun, dump, exists, changes, printed,
          steady, failed

Link == INSTANCE LinkMonitor WITH pc <- lmPc, overrun <- lmOverrun
Monitor == INSTANCE RouteMonitor
              WITH RcvBuf <- MonitorBuf, pc <- rmPc, queue <- rmQueue, overrun <- rmOverrun
Show == INSTANCE RouteShow
           WITH RcvBuf <- ShowBuf, pc <- rsPc, queue <- rsQueue, overrun <- rsOverrun

linkVars == <<lmPc, file, g_netlink_fd, g_timer_fd, g_signal_fd, g_running, g_stats,
              readfds, blocked, pending, backlog, lmOverrun, expired, events, lost>>
monitorVars == <<rmPc, running, table, rmQueue, rmOverrun, known>>
showVars == <<show, section, rsPc, rsQueue, rsOverrun, dump, exists, changes, printed,
              steady, failed>>
netlinkVars == <<program, linkVars, monitorVars, showVars, vars>>

NetlinkInit ==
    /\ program \in {"link_monitor", "route_monitor", "route_show", "netlinkUser"}
    /\ Link!Init /\ Init
    /\ IF program = "route_monitor" THEN Monitor!Init ELSE Monitor!Init /\ table = {}
    /\ IF program = "route_show" THEN Show!Init
       ELSE Show!Init /\ show = {"link"} /\ exists = [link |-> {}, route |-> {}]

(* A step of one program, the one that runs.                               *)
InLink(A) ==
    program = "link_monitor" /\ A /\ UNCHANGED <<program, monitorVars, showVars, vars>>
InMonitor(A) ==
    program = "route_monitor" /\ A /\ UNCHANGED <<program, linkVars, showVars, vars>>
InShow(A) ==
    program = "route_show" /\ A /\ UNCHANGED <<program, linkVars, monitorVars, vars>>
InEcho(A) ==
    program = "netlinkUser" /\ A /\ UNCHANGED <<program, linkVars, monitorVars, showVars>>

NetlinkNext ==
    InLink(Link!Next) \/ InMonitor(Monitor!Next) \/ InShow(Show!Next) \/ InEcho(Next)

(* The fairness of each program that has any, for the one that runs.       *)
NetlinkSpec ==
    /\ NetlinkInit /\ [][NetlinkNext]_netlinkVars
    /\ WF_netlinkVars(InLink(Link!Step))
    /\ WF_netlinkVars(InMonitor(Monitor!Step))
    /\ WF_netlinkVars(InShow(Show!Step))

-----------------------------------------------------------------------------
(* link_monitor.c: a global that names an open descriptor names its own,   *)
(* whatever initialisation failed, and main leaves none open.              *)
DescriptorsOwn == Link!DescriptorsOwn

(* link_monitor.c: ticks are counted exactly, link events but for those the*)
(* kernel dropped.                                                         *)
CountsExact == Link!CountsExact

(* link_monitor.c: Ctrl+C and SIGTERM end the program under any load.      *)
QuitSignalsEnd == Link!QuitSignalsEnd

(* route_monitor.c: the printed lines have no gap while it goes on.        *)
OutputHasNoGap == Monitor!OutputHasNoGap

(* route_monitor.c: a signal at any moment ends it.                        *)
SignalStops == Monitor!SignalStops

(* route_show.c: a section without failure misses nothing.                 *)
SectionComplete == Show!SectionComplete

(* route_show.c: the program ends.                                         *)
ShowEnds == program = "route_show" => Show!ShowEnds
=============================================================================
