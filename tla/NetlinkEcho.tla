---------------------------- MODULE NetlinkEcho -----------------------------
(***************************************************************************)
(* netlinkKernel.c, a module that answers every message on a netlink       *)
(* protocol of its own, and several runs of netlinkUser.c, which sends one *)
(* message and waits for the answer.  The module's callback runs inside the*)
(* sender's sendmsg, for several senders at once.                          *)
(***************************************************************************)
EXTENDS Naturals

CONSTANTS User          \* runs of netlinkUser, by the pid that is their port

VARIABLES module,       \* "out", "init", "in", or "oops"
          nl_sk,        \* FALSE: NULL
          upc,          \* where each run of netlinkUser is
          pid,          \* the callback's local variable, for each sender
          inbox,        \* replies queued for each port
          unanswered,   \* senders the callback had no memory to answer
          early         \* a socket was opened before hello_init returned

vars == <<module, nl_sk, upc, pid, inbox, unanswered, early>>

Init ==
    /\ module = "out" /\ nl_sk = FALSE
    /\ upc = [u \in User |-> "start"] /\ pid = [u \in User |-> u]
    /\ inbox = [u \in User |-> 0] /\ unanswered = {} /\ early = FALSE

Goto(u, from, to) == upc[u] = from /\ upc' = [upc EXCEPT ![u] = to]

Open(u) == upc[u] \notin {"start", "done", "failed"}

-----------------------------------------------------------------------------
(* netlinkKernel.c                                                         *)

(* netlink_kernel_create makes the protocol known, then returns the socket *)
(* that hello_init stores.                                                 *)
hello_init ==
    /\ \/ module = "out" /\ module' = "init" /\ UNCHANGED nl_sk
       \/ module = "init" /\ module' = "in" /\ nl_sk' = TRUE
    /\ UNCHANGED <<upc, pid, inbox, unanswered, early>>

(* Fault: the protocol is registered without its owner.                    *)
InUse_NoOwner == FALSE

(* Sockets of the protocol hold a reference to the module that owns it.    *)
InUse == \E u \in User : Open(u)

hello_exit ==
    /\ module = "in" /\ ~InUse
    /\ module' = "out" /\ nl_sk' = FALSE
    /\ UNCHANGED <<upc, pid, inbox, unanswered, early>>

(* Fault: the variable is shared by all calls.                             *)
SetPid_Static(u) == pid' = [v \in User |-> u]

SetPid(u) == pid' = [pid EXCEPT ![u] = u]

nlmsg_unicast(u) == inbox' = [inbox EXCEPT ![pid[u]] = @ + 1]

(* The allocation may sleep, or fail.                                      *)
hello_nl_recv_msg(u) ==
    /\ \/ /\ Goto(u, "callback", "nlmsg_new")
          /\ SetPid(u) /\ UNCHANGED <<module, inbox, unanswered>>
       \/ /\ Goto(u, "nlmsg_new", "recvmsg")
          /\ unanswered' = unanswered \cup {u} /\ UNCHANGED <<module, pid, inbox>>
       \/ /\ Goto(u, "nlmsg_new", "unicast")
          /\ UNCHANGED <<module, pid, inbox, unanswered>>
       \/ /\ Goto(u, "unicast", "recvmsg") /\ nl_sk
          /\ nlmsg_unicast(u) /\ UNCHANGED <<module, pid, unanswered>>
       \/ /\ Goto(u, "unicast", "killed") /\ ~nl_sk
          /\ module' = "oops" /\ UNCHANGED <<pid, inbox, unanswered>>
    /\ UNCHANGED <<nl_sk, early>>

-----------------------------------------------------------------------------
(* netlinkUser.c                                                           *)

(* socket fails when no such protocol is known.                            *)
Socket(u) ==
    /\ \/ module \in {"init", "in"} /\ Goto(u, "start", "bind")
       \/ module = "out" /\ Goto(u, "start", "failed")
    /\ early' = (early \/ module = "init")
    /\ UNCHANGED <<module, nl_sk, pid, inbox, unanswered>>

(* bind, malloc and sendmsg may fail: what was obtained is given back.     *)
Send(u) ==
    /\ Goto(u, "bind", "sendmsg") \/ Goto(u, "bind", "failed")
       \/ Goto(u, "sendmsg", "callback") \/ Goto(u, "sendmsg", "failed")
    /\ UNCHANGED <<module, nl_sk, pid, inbox, unanswered, early>>

Recv(u) ==
    /\ Goto(u, "recvmsg", "done") /\ inbox[u] > 0
    /\ inbox' = [inbox EXCEPT ![u] = @ - 1]
    /\ UNCHANGED <<module, nl_sk, pid, unanswered, early>>

UserStep(u) == Socket(u) \/ Send(u) \/ Recv(u) \/ hello_nl_recv_msg(u)

Next == hello_init \/ hello_exit \/ \E u \in User : UserStep(u)

Spec == Init /\ [][Next]_vars

-----------------------------------------------------------------------------
(* Every variable has its type.                                            *)
TypeOK ==
    /\ module \in {"out", "init", "in", "oops"}
    /\ nl_sk \in BOOLEAN /\ early \in BOOLEAN
    /\ upc \in [User -> {"start", "bind", "sendmsg", "callback", "nlmsg_new", "unicast",
                         "recvmsg", "done", "failed", "killed"}]
    /\ pid \in [User -> User] /\ inbox \in [User -> Nat] /\ unanswered \subseteq User

(* A callback never finds nl_sk cleared: the module cannot be unloaded     *)
(* under a sender.  Only a sender that got in before hello_init had stored *)
(* nl_sk can meet a null pointer.                                          *)
SocketOutlivesSenders ==
    ~early => /\ module # "oops"
              /\ \A u \in User : upc[u] = "unicast" => nl_sk

(* Concurrent callbacks do not mix up their senders: a reply is queued only*)
(* for a process that waits for its own, and once.                         *)
RepliesReachSenders ==
    \A u \in User :
       inbox[u] > 0 => inbox[u] = 1 /\ upc[u] = "recvmsg" /\ u \notin unanswered
=============================================================================
