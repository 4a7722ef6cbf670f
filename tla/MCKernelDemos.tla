---------------------------- MODULE MCKernelDemos ---------------------------
(***************************************************************************)
(* The smaller kernel modules for TLC, one of them at a time: program says *)
(* which one runs, the variables of the others rest.  proc_demo's module   *)
(* is extended, the others are instances.                                  *)
(***************************************************************************)
EXTENDS ProcDemo, MCStats

CONSTANTS Slot, SockBuf,                    \* Netfilter
          PoolSize                          \* SnullModule

VARIABLES program,
          nfLoaded, queue_num, at, proto, listener, running, sock, overrun, cur, more,
          smPc, i, ret, use_napi, snDev, smUp, ppool, flight, quiet, busy, touched

Filter == INSTANCE Netfilter WITH loaded <- nfLoaded
Module == INSTANCE SnullModule WITH pc <- smPc, dev <- snDev, up <- smUp

filterVars == <<nfLoaded, queue_num, at, proto, listener, running, sock, overrun, cur, more>>
moduleVars == <<smPc, i, ret, use_napi, snDev, smUp, ppool, flight, quiet, busy, touched>>
demoVars == <<program, vars, filterVars, moduleVars, statVars>>

DemoInit ==
    /\ program \in {"proc_demo", "netfilter", "snull", "dummy-eth"}
    /\ Init /\ Filter!Init /\ Stats!Init
    /\ Module!Init /\ (program # "snull" => ~use_napi)

(* A step of one program, the one that runs.                               *)
InProc(A) ==
    program = "proc_demo" /\ A /\ UNCHANGED <<program, filterVars, moduleVars, statVars>>
InFilter(A) ==
    program = "netfilter" /\ A /\ UNCHANGED <<program, vars, moduleVars, statVars>>
InModule(A) ==
    program = "snull" /\ A /\ UNCHANGED <<program, vars, filterVars, statVars>>
InStats(A) ==
    program = "dummy-eth" /\ A /\ UNCHANGED <<program, vars, filterVars, moduleVars>>

DemoNext ==
    InProc(Next) \/ InFilter(Filter!Next) \/ InModule(Module!Next) \/ InStats(Stats!Next)

(* Only netfilter's specification states fairness.                         *)
DemoSpec ==
    /\ DemoInit /\ [][DemoNext]_demoVars
    /\ \A p \in Slot : WF_demoVars(InFilter(Filter!PacketStep(p)))
    /\ WF_demoVars(InFilter(Filter!ListenerStep))

-----------------------------------------------------------------------------
(* nfqueue_userspace.c: at most one packet is handled after a signal.      *)
OneMorePacket == Filter!OneMorePacket

(* netfilter: a queued packet is delivered or dropped in the end.          *)
QueuedDecided == Filter!QueuedDecided

(* snull.c: failed loads and quiet unloads leave nothing behind.           *)
NothingLeftBehind == Module!NothingLeftBehind

(* snull.c: unloading uses no freed device while the second one is down.   *)
FreedOnlyIdle == Module!FreedOnlyIdle
=============================================================================
