----------------------------- MODULE RouteShow ------------------------------
(***************************************************************************)
(* route_show.c: asks the kernel for its links, then for its routes, on one*)
(* netlink socket that is also subscribed to link notifications.  A dump   *)
(* is pulled: the kernel queues its next part whenever the program has read*)
(* a datagram and there is room again (external, from the use made of it). *)
(***************************************************************************)
EXTENDS Integers, Sequences

CONSTANTS Links,        \* bound: link indexes, 1 .. Links
          Routes,       \* bound: routes, 1 .. Routes
          Main,         \* those that lie in RT_TABLE_MAIN when they exist
          RcvBuf,       \* bound: datagrams the socket buffer holds
          MaxChanges    \* bound: changes of links and routes

Sections == <<"link", "route">>
Universe(s) == IF s = "link" THEN 1 .. Links ELSE 1 .. Routes

VARIABLES show,         \* the sections asked for: -i, -r, -a or the default
          section,      \* index in Sections
          pc,           \* how far main has come in it
          queue,        \* datagrams in the socket buffer, each the set of its messages
          overrun,      \* ENOBUFS waits to be reported
          dump,         \* the dump that runs: its kind and the last index sent
          exists,       \* the kernel's links and routes
          changes,      \* how often they changed
          printed,      \* the objects printed in this section
          steady,       \* what existed from the request on
          failed        \* a call failed, or an error was received

kernelVars == <<queue, overrun, dump>>
vars == <<show, section, pc, kernelVars, exists, changes, printed, steady, failed>>

NoDump == [kind |-> "none"]
Msg(type, id) == [type |-> type, id |-> id]
DONE == Msg("NLMSG_DONE", 0)
ERROR == Msg("NLMSG_ERROR", 0)
Room(q) == Len(q) < RcvBuf
Kind == Sections[section]

Init ==
    /\ show \in SUBSET {"link", "route"} \ {{}}
    /\ section = 1 /\ pc = "section"
    /\ queue = <<>> /\ overrun = FALSE /\ dump = NoDump
    /\ exists \in [{"link", "route"} -> SUBSET (Universe("link") \cup Universe("route"))]
    /\ \A s \in {"link", "route"} : exists[s] \subseteq Universe(s)
    /\ changes = 0 /\ printed = {} /\ steady = {} /\ failed = FALSE

-----------------------------------------------------------------------------
(* The kernel: the next part of a dump, some objects in ascending order and*)
(* at the end NLMSG_DONE, in the last part or after it.                    *)

Part(d, q) ==
    LET left == {o \in exists[d.kind] : o > d.last}
        Msgs(ids) == {Msg(d.kind, o) : o \in ids}
    IN  \/ \E last \in left :
             /\ queue' = Append(q, Msgs({o \in left : o <= last}))
             /\ dump' = [d EXCEPT !.last = last]
        \/ /\ queue' = Append(q, Msgs(left) \cup {DONE})
           /\ dump' = NoDump

(* RTM_GETLINK or RTM_GETROUTE while no dump runs, and while one does.     *)
Request ==
    IF dump = NoDump
    THEN LET d == [kind |-> Kind, last |-> 0]
         IN  IF Room(queue) THEN Part(d, queue) /\ UNCHANGED overrun
             ELSE dump' = d /\ overrun' = TRUE /\ UNCHANGED queue
    ELSE /\ IF Room(queue) THEN queue' = Append(queue, {ERROR}) /\ UNCHANGED overrun
            ELSE overrun' = TRUE /\ UNCHANGED queue
         /\ UNCHANGED dump

(* A link or a route comes or goes; of links the socket is notified.       *)
Change(kind, o) ==
    /\ changes < MaxChanges /\ changes' = changes + 1
    /\ pc # "closed"
    /\ LET there == o \in exists[kind]
           type == IF there THEN "RTM_DELLINK" ELSE "link"
       IN  /\ exists' = [exists EXCEPT ![kind] = IF there THEN @ \ {o} ELSE @ \cup {o}]
           /\ steady' = IF kind = Kind THEN steady \ {o} ELSE steady
           /\ IF kind = "route" THEN UNCHANGED <<queue, overrun>>
              ELSE IF Room(queue)
              THEN queue' = Append(queue, {Msg(type, o)}) /\ UNCHANGED overrun
              ELSE overrun' = TRUE /\ UNCHANGED queue
    /\ UNCHANGED <<show, section, pc, dump, printed, failed>>

-----------------------------------------------------------------------------
(* The program                                                             *)

NextSection ==
    /\ pc' = IF section = Len(Sections) THEN "closed" ELSE "section"
    /\ section' = IF section = Len(Sections) THEN section ELSE section + 1

Skip ==
    /\ pc = "section" /\ Kind \notin show
    /\ NextSection
    /\ UNCHANGED <<show, kernelVars, exists, changes, printed, steady, failed>>

send_netlink_request ==
    /\ pc = "section" /\ Kind \in show
    /\ Request
    /\ pc' = "responses"
    /\ printed' = {} /\ steady' = exists[Kind]
    /\ UNCHANGED <<show, section, exists, changes, failed>>

(* sendmsg fails.                                                          *)
SendFails ==
    /\ pc = "section" /\ Kind \in show
    /\ failed' = TRUE /\ pc' = "sectionEnd" /\ printed' = {} /\ steady' = {}
    /\ UNCHANGED <<show, section, kernelVars, exists, changes>>

(* rtnl_print_link and rtnl_print_route: what a message of this section    *)
(* makes the program print.                                                *)
Shown(msg) == msg.type = Kind /\ (Kind = "route" => msg.id \in Main)

(* Fault: the first datagram is taken for the whole answer.                *)
EndSeen_First(datagram) == TRUE

(* Fault: the end is only seen in a datagram of its own.                   *)
EndSeen_Alone(datagram) == datagram \in {{DONE}, {ERROR}}

(* NLMSG_DONE or NLMSG_ERROR; the rest of the datagram is still parsed.    *)
EndSeen(datagram) == datagram \cap {DONE, ERROR} # {}

process_netlink_responses ==
    /\ pc = "responses" /\ ~overrun /\ queue # <<>>
    /\ LET datagram == Head(queue)
           rest == Tail(queue)
       IN  /\ printed' = printed \cup {m.id : m \in {x \in datagram : Shown(x)}}
           /\ pc' = IF EndSeen(datagram) THEN "sectionEnd" ELSE "responses"
           /\ failed' = (failed \/ ERROR \in datagram)
           /\ IF dump # NoDump /\ Len(rest) <= RcvBuf \div 2 THEN Part(dump, rest)
              ELSE queue' = rest /\ UNCHANGED dump
    /\ UNCHANGED <<show, section, overrun, exists, changes, steady>>

(* recvmsg fails: the section is given up, its dump goes on.               *)
RecvFails ==
    /\ pc = "responses" /\ overrun
    /\ overrun' = FALSE /\ failed' = TRUE /\ pc' = "sectionEnd"
    /\ UNCHANGED <<show, section, queue, dump, exists, changes, printed, steady>>

SectionEnd ==
    /\ pc = "sectionEnd"
    /\ NextSection
    /\ UNCHANGED <<show, kernelVars, exists, changes, printed, steady, failed>>

Step == Skip \/ send_netlink_request \/ process_netlink_responses \/ RecvFails \/ SectionEnd

Next ==
    \/ Step \/ SendFails
    \/ \E o \in 1 .. Links : Change("link", o)
    \/ \E o \in 1 .. Routes : Change("route", o)

(* The process is scheduled.                                               *)
Spec == Init /\ [][Next]_vars /\ WF_vars(Step)

-----------------------------------------------------------------------------
(* Unless a call failed or the kernel answered with an error, a section    *)
(* misses nothing: every link, or route of the main table, that existed    *)
(* from the request on is printed, whatever came, went and was announced   *)
(* on the same socket in the meantime.                                     *)
SectionComplete ==
    pc = "sectionEnd" /\ ~failed =>
       (IF Kind = "route" THEN steady \cap Main ELSE steady) \subseteq printed

(* The program comes to an end: neither a lost notification nor a dump it  *)
(* gave up leaves it waiting for an NLMSG_DONE that does not come.         *)
ShowEnds == <>(pc = "closed")
=============================================================================
