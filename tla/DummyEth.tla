------------------------------ MODULE DummyEth ------------------------------
(***************************************************************************)
(* dummy-eth.c and dummy-hw.c: the deth devices, the simulated hardware's  *)
(* queue and kernel thread, and the loading and unloading of both modules. *)
(* Frames are numbered in the order in which dummy_xmit is called.  What   *)
(* dummy_eth_rx makes of a frame's bytes is module Reflector; here a frame *)
(* is answered or not.                                                     *)
(***************************************************************************)
EXTENDS Integers, Sequences, Functions

CONSTANTS Dev,          \* the devices that may ever be created
          MaxSkb        \* bound: frames transmitted

ASSUME SkbAssumption == MaxSkb \in Nat

Skb == 1..MaxSkb
NoSkb == 0

VARIABLES
    hw,             \* dummy-hw.ko: "out", "in", or "stopping" in its exit
    eth,            \* dummy-eth.ko: "out", "in", or how far its exit has come
    skb_tx_q,
    dummy_drv_rx,   \* TRUE: the callback is registered, FALSE: it is NULL
    thread,         \* where dummy_hw_thread is
    should_stop,
    cur,            \* the local skb of dummy_hw_send_irq
    dev,            \* "none", "down", "up" or, once freed, "gone"
    skb_dev,        \* skb->dev of each transmitted frame
    answer,         \* whether a frame is a request the reflector answers
    sent, freed, received,  \* frames transmitted, freed, handed to netif_rx
    late,           \* callbacks entered since dummy-eth's exit began
    hasty           \* a device or module was removed before its traffic had
                    \* drained, or a device used while its module was leaving

modVars == <<hw, eth, should_stop>>
hwVars == <<skb_tx_q, thread, cur>>
frameVars == <<skb_dev, answer, sent>>
fateVars == <<freed, received>>
vars == <<modVars, hwVars, dummy_drv_rx, dev, frameVars, fateVars, late, hasty>>

Init ==
    /\ hw = "out" /\ eth = "out" /\ should_stop = FALSE
    /\ skb_tx_q = <<>> /\ thread = "none" /\ cur = NoSkb
    /\ dummy_drv_rx = FALSE
    /\ dev = [d \in Dev |-> "none"]
    /\ skb_dev = <<>> /\ answer = <<>> /\ sent = 0
    /\ freed = [s \in Skb |-> 0] /\ received = <<>>
    /\ late = 0 /\ hasty = FALSE

FreeAll(skbs) == freed' = [s \in Skb |-> freed[s] + (IF s \in skbs THEN 1 ELSE 0)]

Quiet == skb_tx_q = <<>> /\ cur = NoSkb
Idle(d) == dev[d] # "up"
Hasten(early) == hasty' = (hasty \/ early)

-----------------------------------------------------------------------------
(* The two modules                                                         *)

dummy_hw_init ==
    /\ hw = "out"
    /\ hw' = "in" /\ skb_tx_q' = <<>> /\ dummy_drv_rx' = FALSE /\ thread' = "while"
    /\ UNCHANGED <<eth, should_stop, cur, dev, frameVars, fateVars, late, hasty>>

(* rmmod is refused while dummy-eth uses the exported symbols.             *)
dummy_hw_exit ==
    /\ hw = "in" /\ eth = "out"
    /\ hw' = "stopping" /\ should_stop' = TRUE
    /\ UNCHANGED <<eth, hwVars, dummy_drv_rx, dev, frameVars, fateVars, late, hasty>>

(* Fault: frames still queued when the thread has gone are forgotten.      *)
ExitPurge_None == UNCHANGED freed

ExitPurge == FreeAll(Range(skb_tx_q))

(* kthread_stop returns when the thread has ended.                         *)
HwExitDone ==
    /\ hw = "stopping" /\ thread = "none"
    /\ ExitPurge
    /\ hw' = "out" /\ should_stop' = FALSE /\ skb_tx_q' = <<>>
    /\ UNCHANGED <<eth, thread, cur, dummy_drv_rx, dev, frameVars, received, late, hasty>>

(* Fault: the test for an earlier registration is the wrong way round.     *)
RequestIrq_Reversed == UNCHANGED dummy_drv_rx

(* lt_request_irq(true, dummy_eth_rx)                                      *)
RequestIrq == dummy_drv_rx' = TRUE

(* The whole of dummy_init_module runs under the rtnl lock; a load that    *)
(* fails undoes what it did.                                               *)
dummy_init_module(d) ==
    /\ eth = "out" /\ hw = "in" /\ dev[d] = "none"
    /\ eth' = "in" /\ dev' = [dev EXCEPT ![d] = "down"] /\ late' = 0
    /\ RequestIrq
    /\ UNCHANGED <<hw, should_stop, hwVars, frameVars, fateVars, hasty>>

(* Fault: the callback is left registered.                                 *)
FreeIrq_Kept == UNCHANGED dummy_drv_rx

(* The first half of lt_request_irq(false, NULL).                          *)
FreeIrq == dummy_drv_rx' = FALSE

dummy_cleanup_module ==
    /\ eth = "in"
    /\ eth' = IF dummy_drv_rx THEN "flush" ELSE "unregister"
    /\ FreeIrq
    /\ Hasten(~Quiet \/ \E d \in Dev : ~Idle(d))
    /\ UNCHANGED <<hw, should_stop, hwVars, dev, frameVars, fateVars, late>>

CleanupFlush ==
    /\ eth = "flush"
    /\ FreeAll(Range(skb_tx_q))
    /\ eth' = "unregister" /\ skb_tx_q' = <<>>
    /\ UNCHANGED <<hw, should_stop, thread, cur, dummy_drv_rx, dev, frameVars,
                   received, late, hasty>>

(* rtnl_link_unregister closes, unregisters and frees every deth device.   *)
CleanupUnregister ==
    /\ eth = "unregister"
    /\ eth' = "out"
    /\ dev' = [d \in Dev |-> IF dev[d] = "none" THEN "none" ELSE "gone"]
    /\ UNCHANGED <<hw, should_stop, hwVars, dummy_drv_rx, frameVars, fateVars, late, hasty>>

-----------------------------------------------------------------------------
(* The devices                                                             *)

(* An operation on a device under the rtnl lock: its module may already be *)
(* on its way out.                                                         *)
SetDev(d, from, to, early) ==
    /\ eth # "out" /\ dev[d] = from
    /\ dev' = [dev EXCEPT ![d] = to]
    /\ Hasten(early \/ eth # "in")
    /\ UNCHANGED <<modVars, hwVars, dummy_drv_rx, frameVars, fateVars, late>>

(* ip link add type deth: the kernel allocates and registers a device.     *)
newlink(d) == SetDev(d, "none", "down", FALSE)

(* ip link del: the kernel closes, unregisters and frees the device.       *)
dellink(d) == SetDev(d, "up", "gone", TRUE) \/ SetDev(d, "down", "gone", ~Quiet)

dummy_open(d) == SetDev(d, "down", "up", FALSE)

(* Fault: the device is freed when it is closed.                           *)
dummy_close_Frees(d) == SetDev(d, "up", "gone", FALSE)

dummy_close(d) == SetDev(d, "up", "down", FALSE)

(* Fault: the frame is put at the head of the queue.                       *)
lt_hw_tx_Head(s) == skb_tx_q' = <<s>> \o skb_tx_q

lt_hw_tx(s) == skb_tx_q' = Append(skb_tx_q, s)

dummy_xmit(d) ==
    /\ dev[d] = "up" /\ sent < MaxSkb
    /\ sent' = sent + 1
    /\ skb_dev' = Append(skb_dev, d)
    /\ \E a \in BOOLEAN : answer' = Append(answer, a)
    /\ lt_hw_tx(sent + 1)
    /\ UNCHANGED <<modVars, thread, cur, dummy_drv_rx, dev, fateVars, late, hasty>>
-----------------------------------------------------------------------------
(* dummy_hw_thread, dummy_hw_send_irq and dummy_eth_rx                     *)

Thread(from, to) == thread = from /\ thread' = to

(* Fault: the loop never looks at kthread_should_stop.                     *)
ThreadEnds_Never == FALSE

ThreadEnds == should_stop

(* The outer while test, the sleep, and the inner while test.              *)
dummy_hw_thread ==
    /\ \/ ThreadEnds /\ Thread("while", "none")
       \/ ~ThreadEnds /\ Thread("while", "msleep")
       \/ Thread("msleep", "empty")
       \/ skb_tx_q = <<>> /\ Thread("empty", "while")
       \/ skb_tx_q # <<>> /\ Thread("empty", "dequeue")
    /\ UNCHANGED <<modVars, skb_tx_q, cur, dummy_drv_rx, dev, frameVars, fateVars,
                   late, hasty>>

(* A purge may have emptied the queue since the test.                      *)
skb_dequeue ==
    /\ \/ /\ skb_tx_q = <<>>
          /\ Thread("dequeue", "empty")
          /\ UNCHANGED <<cur, skb_tx_q>>
       \/ /\ skb_tx_q # <<>>
          /\ Thread("dequeue", "irq")
          /\ cur' = Head(skb_tx_q) /\ skb_tx_q' = Tail(skb_tx_q)
    /\ UNCHANGED <<modVars, dummy_drv_rx, dev, frameVars, fateVars, late, hasty>>

(* Fault: a frame nobody receives is not freed.                            *)
FreeSkb_Leak(s) == UNCHANGED freed

FreeSkb(s) == FreeAll({s})

(* The first read of dummy_drv_rx.                                         *)
dummy_hw_send_irq ==
    /\ \/ /\ ~dummy_drv_rx
          /\ Thread("irq", "empty")
          /\ FreeSkb(cur) /\ cur' = NoSkb
       \/ /\ dummy_drv_rx
          /\ Thread("irq", "call")
          /\ UNCHANGED <<freed, cur>>
    /\ UNCHANGED <<modVars, skb_tx_q, dummy_drv_rx, dev, frameVars, received, late, hasty>>

(* The call goes through the pointer that was tested, or through a second  *)
(* read of it: the code leaves that to the compiler.                       *)
CallRx ==
    /\ \/ eth # "out" /\ Thread("call", "rx")
       \/ (~dummy_drv_rx \/ eth = "out") /\ Thread("call", "oops")
    /\ late' = IF eth = "in" THEN late ELSE late + 1
    /\ UNCHANGED <<modVars, skb_tx_q, cur, dummy_drv_rx, dev, frameVars, fateVars,
                   hasty>>

(* The switch on the protocol and the reply functions: a frame that is not *)
(* answered is freed.                                                      *)
dummy_eth_rx ==
    /\ \/ /\ Thread("rx", "empty")
          /\ ~answer[cur]
          /\ FreeSkb(cur) /\ cur' = NoSkb
       \/ /\ Thread("rx", "reinject")
          /\ answer[cur]
          /\ UNCHANGED <<freed, cur>>
    /\ UNCHANGED <<modVars, skb_tx_q, dummy_drv_rx, dev, frameVars, received, late, hasty>>

(* eth_type_trans, the counters and netif_rx, all through skb->dev.        *)
Reinject ==
    /\ Thread("reinject", "empty")
    /\ received' = Append(received, cur) /\ cur' = NoSkb
    /\ UNCHANGED <<modVars, skb_tx_q, dummy_drv_rx, dev, frameVars, freed, late, hasty>>

(* Running the text of an unloaded module, or using a freed device, may    *)
(* also go wrong at once.                                                  *)
Crash ==
    /\ \/ eth = "out" /\ (Thread("rx", "oops") \/ Thread("reinject", "oops"))
       \/ Thread("reinject", "oops") /\ dev[skb_dev[cur]] = "gone"
    /\ UNCHANGED <<modVars, skb_tx_q, cur, dummy_drv_rx, dev, frameVars, fateVars,
                   late, hasty>>

ThreadStep ==
    \/ dummy_hw_thread \/ skb_dequeue \/ dummy_hw_send_irq
    \/ CallRx \/ dummy_eth_rx \/ Reinject \/ Crash

(* The rest of an exit function that has been entered.                     *)
ExitStep == HwExitDone \/ CleanupFlush \/ CleanupUnregister

(* The kernel has oopsed: the model may stop.                              *)
Rest == thread = "oops" /\ UNCHANGED vars

Next ==
    \/ dummy_hw_init \/ dummy_hw_exit \/ dummy_cleanup_module \/ ExitStep
    \/ \E d \in Dev : \/ dummy_init_module(d) \/ newlink(d) \/ dellink(d)
                      \/ dummy_open(d) \/ dummy_close(d) \/ dummy_xmit(d)
    \/ ThreadStep \/ Rest

(* The kernel thread is scheduled, and rmmod goes on once it has started.  *)
Fairness == WF_vars(ThreadStep) /\ WF_vars(ExitStep)

Spec == Init /\ [][Next]_vars

FairSpec == Spec /\ Fairness

-----------------------------------------------------------------------------
(* Every variable has its type: in particular no frame is freed twice.     *)
TypeOK ==
    /\ hw \in {"out", "in", "stopping"}
    /\ eth \in {"out", "in", "flush", "unregister"}
    /\ should_stop \in BOOLEAN /\ dummy_drv_rx \in BOOLEAN
    /\ skb_tx_q \in Seq(Skb)
    /\ thread \in {"none", "while", "msleep", "empty", "dequeue", "irq", "call",
                   "rx", "reinject", "oops"}
    /\ cur \in Skb \cup {NoSkb}
    /\ dev \in [Dev -> {"none", "down", "up", "gone"}]
    /\ sent \in 0..MaxSkb
    /\ skb_dev \in [1..sent -> Dev] /\ answer \in [1..sent -> BOOLEAN]
    /\ freed \in [Skb -> 0..1] /\ received \in Seq(Skb)
    /\ late \in Nat /\ hasty \in BOOLEAN

(* Frame conservation: whatever the interleaving of transmitters, thread   *)
(* and module exits, every frame given to dummy_xmit is at every moment in *)
(* exactly one place - queued once, in the thread's hands, freed once or   *)
(* received once - and no other frame is anywhere.                         *)
FramesConserved ==
    /\ IsInjective(skb_tx_q) /\ IsInjective(received)
    /\ \A s \in Skb :
          LET places == {p \in {"queue", "thread", "freed", "received"} :
                           \/ p = "queue" /\ s \in Range(skb_tx_q)
                           \/ p = "thread" /\ s = cur
                           \/ p = "freed" /\ freed[s] > 0
                           \/ p = "received" /\ s \in Range(received)}
          IN  IF s <= sent THEN \E p \in places : places = {p} ELSE places = {}

(* When dummy-hw.ko is gone, nothing of its traffic is left behind: every  *)
(* frame it was given has been freed or received.                          *)
NothingLeftBehind ==
    hw = "out" => \A s \in 1..sent : freed[s] = 1 \/ s \in Range(received)

(* "Insert into tail and pick from head": the simulated hardware implements*)
(* the line of module LossyFifo, so that frames come back in order: the    *)
(* frame in the thread's hands is its head, netif_rx its receiving end, and*)
(* only a frame without a callback or answer, or a purged queue, is lost.  *)
Fifo == INSTANCE LossyFifo WITH
            put <- sent,
            line <- (IF cur = NoSkb THEN <<>> ELSE <<cur>>) \o skb_tx_q,
            delivered <- received,
            lost <- {s \in Skb : freed[s] > 0}

ImplementsFifo == Fifo!Spec

(* After lt_request_irq(false) has cleared the callback at most one more   *)
(* frame - the one the thread had already tested the pointer for - reaches *)
(* dummy_eth_rx.                                                           *)
OneStraggler == late <= 1

(* "Flush anything still queued so we do not touch a freed callback": the  *)
(* thread never runs dummy_eth_rx, or goes through the pointer, once the   *)
(* module has been unloaded.                                               *)
CallbackAlive == thread \in {"call", "rx", "reinject"} => eth # "out"

(* If removals wait for the traffic to drain, as in the README's unload    *)
(* sequence, the thread never calls into an unloaded dummy-eth, never uses *)
(* a device that has been freed, and the kernel never oopses.              *)
DrainedRemovalSafe ==
    ~hasty => /\ CallbackAlive /\ thread # "oops"
              /\ thread = "reinject" => dev[skb_dev[cur]] # "gone"

(* A request that is transmitted is answered ("You should see replies"),   *)
(* unless something was removed before the traffic had drained.            *)
RequestsAnswered ==
    \A s \in Skb : (s \in DOMAIN answer /\ answer[s]) ~> (s \in Range(received) \/ hasty)

(* rmmod of either module comes to an end: kthread_stop does not wait for  *)
(* ever and no exit function hangs, as long as the kernel has not oopsed.  *)
UnloadsFinish ==
    /\ hw = "stopping" ~> hw = "out" \/ thread = "oops"
    /\ eth \in {"flush", "unregister"} ~> eth = "out"
=============================================================================
