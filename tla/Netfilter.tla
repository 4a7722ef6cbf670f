------------------------------ MODULE Netfilter -----------------------------
(***************************************************************************)
(* The four netfilter modules (test1 to test4) on the path of IPv4 packets,*)
(* and nfqueue_userspace.c, which decides what test4 queues.  Slots hold   *)
(* the packets under way and are used again, so traffic never ends.  The   *)
(* kernel's hook lists and its queue are modelled from their use.          *)
(***************************************************************************)
EXTENDS Naturals, Sequences, Functions

CONSTANTS Slot,         \* a set of positive numbers
          SockBuf       \* bound: messages the listener's socket holds

QueueNum == {0, 1}      \* values of the parameter; the listener serves queue 0

(* What is told apart of a packet; a long one does not fit with its header *)
(* into the listener's buf[4096].                                          *)
Packet == {"tcp", "icmp", "long icmp"}
IPPROTO_ICMP == {"icmp", "long icmp"}
FitsBuf == {"tcp", "icmp"}

VARIABLES loaded,       \* the modules whose hook is registered
          queue_num,
          at,           \* where the packet in each slot is
          proto,        \* and what it is
          listener,     \* where nfqueue_userspace is; the queue exists from
                        \* "while" until it has been destroyed
          running,
          sock,         \* queued packets the listener has not read yet
          overrun,      \* ENOBUFS waits to be reported
          cur,          \* the packet it is handling
          more          \* packets handled since the signal (0, 1 or more)

pktVars == <<at, proto>>
userVars == <<listener, running, sock, overrun, cur, more>>
vars == <<loaded, queue_num, pktVars, userVars>>

Empty == "empty"
Decided == {"delivered", "sent", "dropped", "unheard"}
NoPkt == 0

Init ==
    /\ loaded = {} /\ queue_num = 0
    /\ at = [p \in Slot |-> Empty] /\ proto = [p \in Slot |-> "tcp"]
    /\ listener = "out" /\ running = TRUE /\ sock = <<>> /\ overrun = FALSE
    /\ cur = NoPkt /\ more = 0

HasQueue == listener \in {"while", "recv", "handle", "exit"}
Move(p, to) == at' = [at EXCEPT ![p] = to]

(* All queued packets are dropped; what the socket holds of them is stale. *)
Flushed == [p \in Slot |-> IF at[p] = "queued" THEN "dropped" ELSE at[p]]

-----------------------------------------------------------------------------
(* The modules                                                             *)

(* nf_register_net_hook; a load that fails leaves nothing behind.          *)
Load(m) ==
    /\ m \notin loaded /\ loaded' = loaded \cup {m}
    /\ UNCHANGED <<queue_num, pktVars, userVars>>

(* nf_unregister_net_hook drops everything that is queued, whichever hook  *)
(* goes.                                                                   *)
Unload(m) ==
    /\ m \in loaded /\ loaded' = loaded \ {m}
    /\ at' = Flushed
    /\ UNCHANGED <<queue_num, proto, userVars>>

nf_ipaddr_show_init == Load("netfilter_ipaddr")
nf_ipaddr_show_exit == Unload("netfilter_ipaddr")
nf_local_out_init == Load("netfilter_ipaddr2")
nf_local_out_exit == Unload("netfilter_ipaddr2")
nf_blockpkt_init == Load("nf_blockpkt")
nf_blockpkt_exit == Unload("nf_blockpkt")
my_nfqueue_init == Load("nf_queue_pkt")
my_nfqueue_exit == Unload("nf_queue_pkt")

(* The parameter can be written while the module is loaded.                *)
SetQueueNum(n) ==
    /\ "nf_queue_pkt" \in loaded /\ n # queue_num /\ queue_num' = n
    /\ UNCHANGED <<loaded, pktVars, userVars>>

nf_ipaddr_show(p) == "NF_ACCEPT"
nf_local_out_show(p) == "NF_ACCEPT"
nf_blockpkt_handler(p) == IF proto[p] \in IPPROTO_ICMP THEN "NF_DROP" ELSE "NF_ACCEPT"

nf_queue_pkt(p) == IF proto[p] \in IPPROTO_ICMP THEN "NF_QUEUE" ELSE "NF_ACCEPT"

(* What the hooks registered at a place make of a packet.                  *)
Verdict(p) ==
    LET at_place == CASE at[p] = "PRE_ROUTING" ->
                            {m \in loaded : m \in {"netfilter_ipaddr", "nf_blockpkt"}}
                      [] at[p] = "LOCAL_OUT" -> {m \in loaded : m = "netfilter_ipaddr2"}
                      [] at[p] = "LOCAL_IN" -> {m \in loaded : m = "nf_queue_pkt"}
        of(m) == CASE m = "netfilter_ipaddr" -> nf_ipaddr_show(p)
                   [] m = "netfilter_ipaddr2" -> nf_local_out_show(p)
                   [] m = "nf_blockpkt" -> nf_blockpkt_handler(p)
                   [] m = "nf_queue_pkt" -> nf_queue_pkt(p)
    IN  IF \A m \in at_place : of(m) = "NF_ACCEPT" THEN "NF_ACCEPT"
        ELSE of(CHOOSE m \in at_place : of(m) # "NF_ACCEPT")

-----------------------------------------------------------------------------
(* Packets                                                                 *)

(* One comes in, or is sent by a local process.                            *)
Arrive(p, pr) ==
    /\ at[p] = Empty
    /\ Move(p, "PRE_ROUTING") \/ Move(p, "LOCAL_OUT")
    /\ proto' = [proto EXCEPT ![p] = pr]
    /\ UNCHANGED <<loaded, queue_num, userVars>>

Accept(p) ==
    /\ at[p] \in {"PRE_ROUTING", "LOCAL_OUT", "LOCAL_IN"} /\ Verdict(p) = "NF_ACCEPT"
    /\ Move(p, CASE at[p] = "PRE_ROUTING" -> "LOCAL_IN"
                 [] at[p] = "LOCAL_OUT" -> "sent"
                 [] at[p] = "LOCAL_IN" -> "delivered")
    /\ UNCHANGED <<loaded, queue_num, proto, userVars>>

Drop(p) ==
    /\ at[p] = "PRE_ROUTING" /\ Verdict(p) = "NF_DROP"
    /\ Move(p, "dropped")
    /\ UNCHANGED <<loaded, queue_num, proto, userVars>>

(* NF_QUEUE_NR(queue_num): a packet for a queue nobody serves is dropped,  *)
(* for want of NF_VERDICT_FLAG_QUEUE_BYPASS, and so is one the listener's  *)
(* socket has no room for.                                                 *)
Queue(p) ==
    /\ at[p] = "LOCAL_IN" /\ Verdict(p) = "NF_QUEUE"
    /\ \/ /\ ~HasQueue \/ queue_num # 0
          /\ Move(p, "unheard") /\ UNCHANGED <<sock, overrun>>
       \/ /\ HasQueue /\ queue_num = 0
          /\ IF Len(sock) < SockBuf
             THEN Move(p, "queued") /\ sock' = Append(sock, p) /\ UNCHANGED overrun
             ELSE Move(p, "dropped") /\ overrun' = TRUE /\ UNCHANGED sock
    /\ UNCHANGED <<loaded, queue_num, proto, listener, running, cur, more>>

(* A packet is done with; its slot is used again once nothing refers to it.*)
Reuse(p) ==
    /\ at[p] \in Decided /\ p \notin Range(sock) /\ cur # p
    /\ Move(p, Empty) /\ proto' = [proto EXCEPT ![p] = "tcp"]
    /\ UNCHANGED <<loaded, queue_num, userVars>>

PacketStep(p) == Accept(p) \/ Drop(p) \/ Queue(p) \/ Reuse(p)

-----------------------------------------------------------------------------
(* nfqueue_userspace.c                                                     *)

Goto(from, to) == listener = from /\ listener' = to

(* nfq_open to nfq_set_mode, any of which may end the program.             *)
Setup ==
    /\ Goto("out", "while")
    /\ running' = TRUE /\ more' = 0
    /\ UNCHANGED <<loaded, queue_num, pktVars, sock, overrun, cur>>

(* Fault: the loop only looks at what recv returned.                       *)
LoopGoesOn_Always == TRUE

LoopGoesOn == running

While ==
    /\ \/ LoopGoesOn /\ Goto("while", "recv")
       \/ ~LoopGoesOn /\ Goto("while", "exit")
    /\ UNCHANGED <<loaded, queue_num, pktVars, running, sock, overrun, cur, more>>

(* recv blocks; an overrun makes it fail and ends the loop.                *)
Recv ==
    /\ \/ /\ overrun /\ Goto("recv", "exit")
          /\ overrun' = FALSE /\ UNCHANGED <<sock, cur, more>>
       \/ /\ ~overrun /\ sock # <<>> /\ Goto("recv", "handle")
          /\ cur' = Head(sock) /\ sock' = Tail(sock)
          /\ more' = IF running \/ more = 2 THEN more ELSE more + 1
          /\ UNCHANGED overrun
    /\ UNCHANGED <<loaded, queue_num, pktVars, running>>

(* Fault: the callback returns without a verdict.                          *)
packet_cb_Silent == UNCHANGED at

(* nfq_set_verdict(NF_ACCEPT); the kernel refuses one for a packet that is *)
(* no longer queued.                                                       *)
packet_cb == IF at[cur] = "queued" THEN Move(cur, "delivered") ELSE UNCHANGED at

(* A message recv has cut off is refused before the callback; the result   *)
(* is ignored, and the packet stays in the queue.                          *)
nfq_handle_packet ==
    /\ Goto("handle", "while")
    /\ IF proto[cur] \in FitsBuf THEN packet_cb ELSE UNCHANGED at
    /\ cur' = NoPkt
    /\ UNCHANGED <<loaded, queue_num, proto, running, sock, overrun, more>>

(* nfq_destroy_queue and nfq_close.                                        *)
Exit ==
    /\ Goto("exit", "out")
    /\ at' = Flushed /\ sock' = <<>> /\ overrun' = FALSE
    /\ UNCHANGED <<loaded, queue_num, proto, running, cur, more>>

(* signal installs a handler after which recv is restarted.                *)
signal_handler ==
    /\ listener # "out" /\ running
    /\ running' = FALSE
    /\ UNCHANGED <<loaded, queue_num, pktVars, listener, sock, overrun, cur, more>>

ListenerStep == While \/ Recv \/ nfq_handle_packet \/ Exit

Next ==
    \/ nf_ipaddr_show_init \/ nf_local_out_init \/ nf_blockpkt_init \/ my_nfqueue_init
    \/ nf_ipaddr_show_exit \/ nf_local_out_exit \/ nf_blockpkt_exit \/ my_nfqueue_exit
    \/ \E n \in QueueNum : SetQueueNum(n)
    \/ \E p \in Slot : PacketStep(p) \/ \E pr \in Packet : Arrive(p, pr)
    \/ Setup \/ ListenerStep \/ signal_handler

(* The kernel forwards packets, the listener is scheduled; nothing is      *)
(* assumed of arrivals, signals and module commands.                       *)
Spec ==
    /\ Init /\ [][Next]_vars
    /\ \A p \in Slot : WF_vars(PacketStep(p))
    /\ WF_vars(ListenerStep)

-----------------------------------------------------------------------------
(* No queued packet that fits the listener's buffer is forgotten: it is    *)
(* delivered or dropped, even if the listener exits, overruns or is        *)
(* signalled, or a hook goes, meanwhile.  A longer one gets no verdict; it *)
(* waits, but not longer than the listener: nothing stays in a queue that  *)
(* is given up.                                                            *)
QueuedDecided ==
    \A p \in Slot :
      (at[p] = "queued" /\ (proto[p] \in FitsBuf \/ listener = "exit")) ~> at[p] \in Decided

(* After a signal the listener handles at most one more packet.            *)
OneMorePacket == more <= 1

(* "NF_QUEUE with specific queue number and NF_VERDICT_FLAG_QUEUE_BYPASS": *)
(* a packet is not lost because no program serves its queue.               *)
BypassWithoutListener == \A p \in Slot : at[p] # "unheard"
=============================================================================
