------------------------------- MODULE Snull -------------------------------
(***************************************************************************)
(* The data path of the snull driver (snull/snull.c): two Ethernet         *)
(* interfaces, each the other's twin, that loop every frame transmitted on *)
(* one back as a frame received on the other.                              *)
(*                                                                         *)
(* A frame travels in a buffer (struct snull_packet) taken from the        *)
(* transmitter's pool, queued on the twin's rx_queue, and given back to    *)
(* the pool once the twin has copied it.  "Interrupts" are plain calls of  *)
(* snull_interrupt made by whoever transmits or times out, so one device's *)
(* handler runs on the CPU of either transmitter.                          *)
(*                                                                         *)
(* The contexts that run driver code concurrently are, per device, the     *)
(* transmitter (ndo_start_xmit, one at a time under the transmit lock),    *)
(* the transmit watchdog (ndo_tx_timeout, which the kernel calls with the  *)
(* transmit lock held) and the NAPI poll.  Sections under priv->lock are   *)
(* one step, except that the handlers' read of priv->status is a step of   *)
(* its own: snull_hw_tx updates that word without the lock.                *)
(***************************************************************************)
EXTENDS Integers, Sequences, Functions

CONSTANTS
    sn0, sn1,      \* snull_devs[0] and snull_devs[1]
    PoolSize,      \* module parameter pool_size
    Lockup,        \* module parameter lockup
    UseNapi,       \* module parameter use_napi
    SetupSizes,    \* buffers snull_setup_pool may get before kmalloc fails
    SkbAlloc,      \* outcomes of netdev_alloc_skb: {TRUE} or {TRUE, FALSE}
    Senders,       \* devices the network stack transmits on
    WaitForTwin,   \* the stack transmits only while the twin is up too
    MaxTx,         \* bound on the frames transmitted per device
    MaxCloses,     \* bound on the number of snull_release calls per device
    NoCtx          \* "no context": a free lock

ASSUME DevAssumption == sn0 # sn1
ASSUME ParamAssumption ==
    /\ PoolSize \in Nat
    /\ Lockup \in Nat
    /\ UseNapi \in BOOLEAN
    /\ SetupSizes \subseteq 0..PoolSize
    /\ SkbAlloc \subseteq BOOLEAN
    /\ WaitForTwin \in BOOLEAN
ASSUME BoundAssumption ==
    /\ MaxTx \in Nat
    /\ MaxCloses \in Nat

Dev == {sn0, sn1}

ASSUME SendersAssumption == Senders \subseteq Dev

Ctx == {"xmit", "wdog", "poll"} \X Dev

ASSUME NoCtxAssumption == NoCtx \notin Ctx

Twin(d) == IF d = sn0 THEN sn1 ELSE sn0

(* A buffer is named by the device whose pool it was allocated for         *)
(* (pkt->dev) and its position in the allocation loop.                     *)
Packet == Dev \X (1..PoolSize)
Owner(p) == p[1]

NapiWeight == 2

VARIABLES
    \* struct snull_packet and the lists that link it
    ppool,           \* [Dev -> Seq(Packet)], head first
    rx_queue,        \* [Dev -> Seq(Packet)], head first
    nextNull,        \* [Packet -> BOOLEAN]: pkt->next = NULL
    data,            \* [Packet -> frame number], 0 before the first use
    \* the rest of struct snull_priv
    status,          \* [Dev -> SUBSET {"RX", "TX"}]
    rx_int_enabled,
    skb,             \* [Dev -> frame number], 0 for NULL
    lock,            \* [Dev -> Ctx \cup {NoCtx}]
    tx_packets, tx_errors, rx_dropped,
    \* net core state of the device
    link,            \* [Dev -> {"down", "up", "closing"}]
    stopped,         \* __QUEUE_STATE_DRV_XOFF of the transmit queue
    napi,            \* [Dev -> {"off", "idle", "sched", "missed"}]
    \* the contexts
    pc,
    pkt,             \* [Ctx -> Packet \cup {<<>>}], the local pkt / tx_buffer
    word,            \* [Ctx -> SUBSET {"RX", "TX"}], a loaded status word
    irqdev,          \* [Ctx -> Dev], the device snull_interrupt was called for
    npackets,        \* [Dev -> Nat], local of snull_poll
    \* history
    npool,           \* buffers each pool was set up with
    sent,            \* [Dev -> Nat], calls of snull_tx
    frees,           \* [Dev -> [1..MaxTx -> Nat]], calls of dev_kfree_skb
    delivered,       \* [Dev -> Seq(frame number)], frames given to the stack
    closes,
    blind            \* [Dev -> BOOLEAN], the queue was started on an empty pool

bufVars == <<ppool, rx_queue, nextNull, data>>
privVars == <<status, rx_int_enabled, skb, lock>>
statVars == <<tx_packets, tx_errors, rx_dropped>>
netVars == <<link, stopped, napi>>
locals == <<pkt, word, irqdev, npackets>>
histVars == <<npool, sent, frees, delivered, closes, blind>>
vars == <<bufVars, privVars, statVars, netVars, pc, locals, histVars>>

Xmit(d) == <<"xmit", d>>
Wdog(d) == <<"wdog", d>>
Poll(d) == <<"poll", d>>

At(c, label) == pc[c] = label
Goto(c, label) == pc' = [pc EXCEPT ![c] = label]
Step(c, from, to) == At(c, from) /\ Goto(c, to)
Unlocked(d) == lock[d] = NoCtx

(* The transmit queue of d is being used: the kernel's transmit lock.      *)
TxLocked(d) == pc[Xmit(d)] # "idle" \/ pc[Wdog(d)] # "idle"

(* The list snull_setup_pool builds when kmalloc serves it n times: every  *)
(* buffer goes in at the head.                                             *)
snull_setup_pool(d, n) == [i \in 1..n |-> <<d, n + 1 - i>>]

(* Both devices have been through snull_init and are registered.           *)
Init ==
    /\ npool \in [Dev -> SetupSizes]
    /\ ppool = [d \in Dev |-> snull_setup_pool(d, npool[d])]
    /\ nextNull = [p \in Packet |-> p[2] = 1]
    /\ rx_queue = [d \in Dev |-> <<>>]
    /\ data = [p \in Packet |-> 0]
    /\ status = [d \in Dev |-> {}]
    /\ rx_int_enabled = [d \in Dev |-> TRUE]
    /\ skb = [d \in Dev |-> 0]
    /\ lock = [d \in Dev |-> NoCtx]
    /\ tx_packets = [d \in Dev |-> 0]
    /\ tx_errors = [d \in Dev |-> 0]
    /\ rx_dropped = [d \in Dev |-> 0]
    /\ link = [d \in Dev |-> "down"]
    /\ stopped = [d \in Dev |-> FALSE]
    /\ napi = [d \in Dev |-> "off"]
    /\ pc = [c \in Ctx |-> "idle"]
    /\ pkt = [c \in Ctx |-> <<>>]
    /\ word = [c \in Ctx |-> {}]
    /\ irqdev = [c \in Ctx |-> c[2]]
    /\ npackets = [d \in Dev |-> 0]
    /\ sent = [d \in Dev |-> 0]
    /\ frees = [d \in Dev |-> [n \in 1..MaxTx |-> 0]]
    /\ delivered = [d \in Dev |-> <<>>]
    /\ closes = [d \in Dev |-> 0]
    /\ blind = [d \in Dev |-> FALSE]

-----------------------------------------------------------------------------
(* Opening and closing the interface (under the rtnl lock)                 *)

(* netif_start_queue and netif_wake_queue: nobody looks at the pool.       *)
StartQueue(d) ==
    /\ stopped' = [stopped EXCEPT ![d] = FALSE]
    /\ blind' = [blind EXCEPT ![d] = @ \/ ppool[d] = <<>>]

snull_open(d) ==
    /\ link[d] = "down"
    /\ link' = [link EXCEPT ![d] = "up"]
    /\ napi' = IF UseNapi THEN [napi EXCEPT ![d] = "idle"] ELSE napi
    /\ StartQueue(d)
    /\ UNCHANGED <<bufVars, privVars, statVars, pc, locals, npool, sent, frees,
                   delivered, closes>>

(* The kernel has quiesced the device's transmit queue and watchdog before *)
(* it calls ndo_stop.                                                      *)
snull_release(d) ==
    /\ link[d] = "up" /\ ~TxLocked(d)
    /\ closes[d] < MaxCloses
    /\ closes' = [closes EXCEPT ![d] = @ + 1]
    /\ stopped' = [stopped EXCEPT ![d] = TRUE]
    /\ link' = [link EXCEPT ![d] = IF UseNapi THEN "closing" ELSE "down"]
    /\ UNCHANGED <<bufVars, privVars, statVars, napi, pc, locals,
                   npool, sent, frees, delivered, blind>>

(* napi_disable, the last call of snull_release, returns once no poll is   *)
(* scheduled.                                                              *)
napi_disable(d) ==
    /\ link[d] = "closing" /\ napi[d] = "idle"
    /\ napi' = [napi EXCEPT ![d] = "off"]
    /\ link' = [link EXCEPT ![d] = "down"]
    /\ UNCHANGED <<bufVars, privVars, statVars, stopped, pc, locals, histVars>>

-----------------------------------------------------------------------------
(* Buffer and pool management.  c is the context that makes the call.      *)

(* Fault: the pool is looked at before the buffer is unlinked.             *)
LastBuffer_Early(d) == ppool[d] = <<>>

(* Only the last buffer of the pool is left: taking it stops the queue.    *)
LastBuffer(d) == Tail(ppool[d]) = <<>>

snull_get_tx_buffer(d) ==
    LET c == Xmit(d) IN
    /\ Step(c, "get", "enqueue")
    /\ Unlocked(d) /\ ppool[d] # <<>>
    /\ pkt' = [pkt EXCEPT ![c] = Head(ppool[d])]
    /\ ppool' = [ppool EXCEPT ![d] = Tail(@)]
    /\ stopped' = [stopped EXCEPT ![d] = @ \/ LastBuffer(d)]
    /\ UNCHANGED <<rx_queue, nextNull, data, privVars, statVars, link, napi,
                   word, irqdev, npackets, histVars>>

(* An empty pool is dereferenced with the lock held: the kernel oopses and *)
(* the lock is never released.                                             *)
PoolEmptyOops(d) ==
    /\ Step(Xmit(d), "get", "oops")
    /\ Unlocked(d) /\ ppool[d] = <<>>
    /\ lock' = [lock EXCEPT ![d] = Xmit(d)]
    /\ UNCHANGED <<bufVars, status, rx_int_enabled, skb, statVars, netVars,
                   locals, histVars>>

(* Fault: the frame is not copied.                                         *)
FillBuffer_NoCopy(p, frame) == UNCHANGED data

(* The frame, its addresses changed and its checksum rebuilt, is copied    *)
(* into the buffer.                                                        *)
FillBuffer(p, frame) == data' = [data EXCEPT ![p] = frame]

(* The filled buffer goes onto the twin's queue - at its head.             *)
snull_enqueue_buf(d) ==
    LET c == Xmit(d)
        dest == Twin(d) IN
    /\ Step(c, "enqueue", "rx_enabled")
    /\ Unlocked(dest)
    /\ FillBuffer(pkt[c], sent[d])
    /\ nextNull' = [nextNull EXCEPT ![pkt[c]] = rx_queue[dest] = <<>>]
    /\ rx_queue' = [rx_queue EXCEPT ![dest] = <<pkt[c]>> \o @]
    /\ pkt' = [pkt EXCEPT ![c] = <<>>]
    /\ UNCHANGED <<ppool, privVars, statVars, netVars, word, irqdev, npackets,
                   histVars>>

(* Where a context goes on when snull_interrupt, snull_release_buffer      *)
(* return.                                                                 *)
AfterIrq(c) ==
    CASE c[1] = "wdog" -> "timeout_end"
      [] c[1] = "xmit" /\ irqdev[c] # c[2] -> "tx_load"
      [] OTHER -> "idle"

AfterRelease(c) == IF c[1] = "poll" THEN "poll" ELSE AfterIrq(c)

(* Fault: the buffer is pushed on the pool of the device that received it. *)
ReleasePool_Receiver(p) == Twin(Owner(p))

(* netdev_priv(pkt->dev)                                                   *)
ReleasePool(p) == Owner(p)

(* snull_release_buffer: the push under the owner's lock, then, with the   *)
(* lock dropped, the two tests and the wake-up.                            *)
snull_release_buffer(c) ==
    LET d == ReleasePool(pkt[c]) IN
    /\ Step(c, "release", "test_stopped")
    /\ Unlocked(d)
    /\ nextNull' = [nextNull EXCEPT ![pkt[c]] = ppool[d] = <<>>]
    /\ ppool' = [ppool EXCEPT ![d] = <<pkt[c]>> \o @]
    /\ UNCHANGED <<rx_queue, data, privVars, statVars, netVars, locals, histVars>>

ReleaseTests(c) ==
    /\ \/ At(c, "test_stopped") /\ stopped[Owner(pkt[c])] /\ Goto(c, "test_next")
       \/ At(c, "test_next") /\ nextNull[pkt[c]] /\ Goto(c, "wake")
    /\ UNCHANGED <<bufVars, privVars, statVars, netVars, locals, histVars>>

(* The local pkt is reset as it goes out of scope.                         *)
ReleaseReturn(c) ==
    /\ \/ /\ \/ At(c, "test_stopped") /\ ~stopped[Owner(pkt[c])]
             \/ At(c, "test_next") /\ ~nextNull[pkt[c]]
          /\ UNCHANGED <<stopped, blind>>
       \/ At(c, "wake") /\ StartQueue(Owner(pkt[c]))
    /\ Goto(c, AfterRelease(c))
    /\ pkt' = [pkt EXCEPT ![c] = <<>>]
    /\ UNCHANGED <<bufVars, privVars, statVars, link, napi, word, irqdev,
                   npackets, npool, sent, frees, delivered, closes>>

-----------------------------------------------------------------------------
(* The interrupt handlers                                                  *)

(* spin_lock and the load of the status word.                              *)
IrqEnter(c) ==
    /\ Step(c, "irq", "irq_body")
    /\ Unlocked(irqdev[c])
    /\ lock' = [lock EXCEPT ![irqdev[c]] = c]
    /\ word' = [word EXCEPT ![c] = status[irqdev[c]]]
    /\ UNCHANGED <<bufVars, status, rx_int_enabled, skb, statVars, netVars,
                   pkt, irqdev, npackets, histVars>>

(* Both handlers: clear the status word, account a finished transmission   *)
(* and free the remembered skb, unlock.                                    *)
TxDone(c, e) ==
    /\ status' = [status EXCEPT ![e] = {}]
    /\ lock' = [lock EXCEPT ![e] = NoCtx]
    /\ word' = [word EXCEPT ![c] = {}]
    /\ \/ /\ "TX" \in word[c]
          /\ tx_packets' = [tx_packets EXCEPT ![e] = @ + 1]
          /\ frees' = [frees EXCEPT ![e][skb[e]] = @ + 1]
       \/ "TX" \notin word[c] /\ UNCHANGED <<tx_packets, frees>>

(* Fault: a frame there is no memory for is dropped without a trace.       *)
snull_rx_Uncounted(d, p, ok) ==
    /\ delivered' = IF ok THEN [delivered EXCEPT ![d] = Append(@, data[p])]
                    ELSE delivered
    /\ UNCHANGED rx_dropped

(* snull_rx, or the body of the poll loop: the frame is copied and handed  *)
(* to the stack unless there is no memory for it.                          *)
snull_rx(d, p, ok) ==
    \/ /\ ok
       /\ delivered' = [delivered EXCEPT ![d] = Append(@, data[p])]
       /\ UNCHANGED rx_dropped
    \/ /\ ~ok
       /\ rx_dropped' = [rx_dropped EXCEPT ![d] = @ + 1]
       /\ UNCHANGED delivered

(* The receive half of snull_regular_interrupt.                            *)
ReceiveOne(c, e) ==
    /\ "RX" \in word[c] /\ rx_queue[e] # <<>>
    /\ pkt' = [pkt EXCEPT ![c] = Head(rx_queue[e])]
    /\ rx_queue' = [rx_queue EXCEPT ![e] = Tail(@)]
    /\ \E ok \in SkbAlloc : snull_rx(e, Head(rx_queue[e]), ok)
    /\ Goto(c, "release")

ReceiveNone(c, e) ==
    /\ "RX" \notin word[c] \/ rx_queue[e] = <<>>
    /\ Goto(c, AfterIrq(c))
    /\ UNCHANGED <<pkt, rx_queue, delivered, rx_dropped>>

snull_regular_interrupt(c) ==
    /\ ~UseNapi /\ At(c, "irq_body")
    /\ TxDone(c, irqdev[c])
    /\ ReceiveOne(c, irqdev[c]) \/ ReceiveNone(c, irqdev[c])
    /\ UNCHANGED <<ppool, nextNull, data, rx_int_enabled, skb, tx_errors,
                   netVars, irqdev, npackets, npool, sent, closes, blind>>

(* napi_schedule: a scheduled poll is told to run once more, a disabled    *)
(* NAPI context ignores the request.                                       *)
napi_schedule(d) ==
    napi' = [napi EXCEPT ![d] = CASE @ = "idle" -> "sched"
                                  [] @ = "sched" -> "missed"
                                  [] OTHER -> @]

(* Fault: receive interrupts cannot be turned on again.                    *)
snull_rx_ints_Off(d, enable) ==
    rx_int_enabled' = [rx_int_enabled EXCEPT ![d] = FALSE]

snull_rx_ints(d, enable) ==
    rx_int_enabled' = [rx_int_enabled EXCEPT ![d] = enable]

snull_napi_interrupt(c) ==
    LET e == irqdev[c] IN
    /\ UseNapi /\ At(c, "irq_body")
    /\ TxDone(c, e)
    /\ \/ "RX" \in word[c] /\ snull_rx_ints(e, FALSE) /\ napi_schedule(e)
       \/ "RX" \notin word[c] /\ UNCHANGED <<rx_int_enabled, napi>>
    /\ Goto(c, AfterIrq(c))
    /\ UNCHANGED <<bufVars, skb, tx_errors, rx_dropped, link, stopped, pkt,
                   irqdev, npackets, npool, sent, delivered, closes, blind>>

-----------------------------------------------------------------------------
(* Transmission                                                            *)

(* The stack calls snull_tx when the interface is up and its queue runs.   *)
(* Padding makes every frame long enough for the headers, so snull_hw_tx's *)
(* length test never returns early.                                        *)
snull_tx(d) ==
    /\ d \in Senders
    /\ link[d] = "up" /\ ~stopped[d] /\ ~TxLocked(d)
    /\ WaitForTwin => link[Twin(d)] = "up"
    /\ sent[d] < MaxTx
    /\ sent' = [sent EXCEPT ![d] = @ + 1]
    /\ skb' = [skb EXCEPT ![d] = sent[d] + 1]
    /\ Goto(Xmit(d), "get")
    /\ UNCHANGED <<bufVars, status, rx_int_enabled, lock, statVars, netVars,
                   locals, npool, frees, delivered, closes, blind>>

(* snull_hw_tx once the frame is queued: the receive interrupt of the twin *)
(* and the transmission-done of the transmitter.  Each |= on a status word *)
(* is a load and a store, made without the lock.                           *)
HwTxRxEnabled(d) ==
    /\ Step(Xmit(d), "rx_enabled",
            IF rx_int_enabled[Twin(d)] THEN "rx_load" ELSE "tx_load")
    /\ UNCHANGED <<bufVars, privVars, statVars, netVars, locals, histVars>>

HwTxLoad(c, e, from, to) ==
    /\ Step(c, from, to)
    /\ word' = [word EXCEPT ![c] = status[e]]
    /\ UNCHANGED <<bufVars, privVars, statVars, netVars, pkt, irqdev, npackets,
                   histVars>>

HwTxStore(c, e, bit, from, to) ==
    /\ Step(c, from, to)
    /\ status' = [status EXCEPT ![e] = word[c] \cup {bit}]
    /\ irqdev' = [irqdev EXCEPT ![c] = e]
    /\ word' = [word EXCEPT ![c] = {}]
    /\ UNCHANGED <<bufVars, rx_int_enabled, skb, lock, statVars, netVars, pkt,
                   npackets, histVars>>

HwTxRaise(d) ==
    \/ HwTxLoad(Xmit(d), Twin(d), "rx_load", "rx_store")
    \/ HwTxStore(Xmit(d), Twin(d), "RX", "rx_store", "irq")
    \/ HwTxLoad(Xmit(d), d, "tx_load", "tx_store")
    \/ HwTxStore(Xmit(d), d, "TX", "tx_store", "lockup")

(* Fault: the count is tested before this frame is counted in.             *)
SimulateLockup_Early(d) == Lockup > 0 /\ tx_packets[d] % Lockup = 0

SimulateLockup(d) == Lockup > 0 /\ (tx_packets[d] + 1) % Lockup = 0

(* Fault: the queue of a locked-up transmitter is left running.            *)
StopQueue_Never(d, lost) == UNCHANGED stopped

StopQueue(d, lost) == stopped' = [stopped EXCEPT ![d] = @ \/ lost]

AfterLockup(lost) == IF lost THEN "idle" ELSE "irq"

HwTxLockup(d) ==
    /\ Step(Xmit(d), "lockup", AfterLockup(SimulateLockup(d)))
    /\ StopQueue(d, SimulateLockup(d))
    /\ UNCHANGED <<bufVars, privVars, statVars, link, napi, locals, histVars>>

-----------------------------------------------------------------------------
(* The transmit watchdog                                                   *)

snull_tx_timeout(d) ==
    /\ link[d] = "up" /\ stopped[d] /\ ~TxLocked(d)
    /\ status' = [status EXCEPT ![d] = {"TX"}]
    /\ Goto(Wdog(d), "irq")
    /\ UNCHANGED <<bufVars, rx_int_enabled, skb, lock, statVars, netVars,
                   locals, histVars>>

TimeoutEnd(d) ==
    /\ Step(Wdog(d), "timeout_end", "idle")
    /\ tx_errors' = [tx_errors EXCEPT ![d] = @ + 1]
    /\ StartQueue(d)
    /\ UNCHANGED <<bufVars, privVars, tx_packets, rx_dropped, link, napi,
                   locals, npool, sent, frees, delivered, closes>>

-----------------------------------------------------------------------------
(* The NAPI poll                                                           *)

snull_poll(d) ==
    /\ Step(Poll(d), "idle", "poll")
    /\ napi[d] \in {"sched", "missed"}
    /\ UNCHANGED <<bufVars, privVars, statVars, netVars, locals, histVars>>

PollMore(d) == npackets[d] < NapiWeight /\ rx_queue[d] # <<>>

(* One turn of the loop up to the call of snull_release_buffer.            *)
snull_dequeue_buf(d) ==
    LET p == Head(rx_queue[d]) IN
    /\ Step(Poll(d), "poll", "release")
    /\ PollMore(d) /\ Unlocked(d)
    /\ rx_queue' = [rx_queue EXCEPT ![d] = Tail(@)]
    /\ pkt' = [pkt EXCEPT ![Poll(d)] = p]
    /\ \E ok \in SkbAlloc :
          /\ snull_rx(d, p, ok)
          /\ npackets' = [npackets EXCEPT ![d] = IF ok THEN @ + 1 ELSE @]
    /\ UNCHANGED <<ppool, nextNull, data, privVars, tx_packets, tx_errors,
                   netVars, word, irqdev, npool, sent, frees, closes, blind>>

(* The loop ends.  A poll that used its budget stays scheduled; otherwise  *)
(* napi_complete_done ends it, or reschedules it if one was missed.        *)
PollComplete(d) ==
    /\ At(Poll(d), "poll") /\ ~PollMore(d)
    /\ \/ /\ npackets[d] < NapiWeight
          /\ napi' = [napi EXCEPT ![d] = IF @ = "missed" THEN "sched" ELSE "idle"]
          /\ Goto(Poll(d), "rx_ints")
       \/ /\ npackets[d] >= NapiWeight
          /\ Goto(Poll(d), "idle")
          /\ UNCHANGED napi
    /\ npackets' = [npackets EXCEPT ![d] = 0]
    /\ UNCHANGED <<bufVars, privVars, statVars, link, stopped, pkt, word,
                   irqdev, histVars>>

PollEnableInts(d) ==
    /\ Step(Poll(d), "rx_ints", "idle")
    /\ snull_rx_ints(d, TRUE)
    /\ UNCHANGED <<bufVars, status, skb, lock, statVars, netVars, locals,
                   histVars>>

-----------------------------------------------------------------------------
(* The driver's steps once a context has been entered                      *)
XmitStep(d) ==
    \/ snull_get_tx_buffer(d) \/ PoolEmptyOops(d) \/ snull_enqueue_buf(d)
    \/ HwTxRxEnabled(d) \/ HwTxRaise(d) \/ HwTxLockup(d)

(* Fault: ndo_tx_timeout is missing from snull_netdev_ops.                 *)
WatchdogStep_Unset(d) == TimeoutEnd(d)

WatchdogStep(d) == snull_tx_timeout(d) \/ TimeoutEnd(d)

PollStep(d) ==
    \/ snull_poll(d) \/ snull_dequeue_buf(d)
    \/ PollComplete(d) \/ PollEnableInts(d)

HandlerStep(c) ==
    \/ IrqEnter(c) \/ snull_regular_interrupt(c) \/ snull_napi_interrupt(c)
    \/ snull_release_buffer(c) \/ ReleaseTests(c) \/ ReleaseReturn(c)

(* No driver code runs, or the kernel has oopsed: the model may stop.      *)
Rest ==
    /\ (\A c \in Ctx : pc[c] = "idle") \/ (\E c \in Ctx : pc[c] = "oops")
    /\ UNCHANGED vars

Next ==
    \/ \E d \in Dev :
          \/ snull_open(d) \/ snull_release(d) \/ napi_disable(d)
          \/ snull_tx(d) \/ XmitStep(d) \/ WatchdogStep(d) \/ PollStep(d)
    \/ \E c \in Ctx : HandlerStep(c)
    \/ Rest

(* A CPU that runs driver code goes on; a raised softirq and an expired    *)
(* watchdog timer are served; a free spinlock is taken by one that spins.  *)
Fairness ==
    /\ \A d \in Dev :
          /\ WF_vars(XmitStep(d))
          /\ WF_vars(WatchdogStep(d))
          /\ WF_vars(PollStep(d))
          /\ WF_vars(napi_disable(d))
    /\ \A c \in Ctx : WF_vars(HandlerStep(c))

Spec == Init /\ [][Next]_vars

FairSpec == Spec /\ Fairness
-----------------------------------------------------------------------------
(* Properties                                                              *)

Labels == {"idle", "get", "enqueue", "rx_enabled", "rx_load", "rx_store",
           "tx_load", "tx_store", "lockup", "irq", "irq_body", "release",
           "test_stopped", "test_next", "wake", "timeout_end", "poll",
           "rx_ints", "oops"}

BufTypes ==
    /\ ppool \in [Dev -> Seq(Packet)]
    /\ rx_queue \in [Dev -> Seq(Packet)]
    /\ nextNull \in [Packet -> BOOLEAN]
    /\ data \in [Packet -> 0..MaxTx]
PrivTypes ==
    /\ status \in [Dev -> SUBSET {"RX", "TX"}]
    /\ rx_int_enabled \in [Dev -> BOOLEAN]
    /\ skb \in [Dev -> 0..MaxTx]
    /\ lock \in [Dev -> Ctx \cup {NoCtx}]
StatTypes ==
    /\ tx_packets \in [Dev -> Nat]
    /\ tx_errors \in [Dev -> Nat]
    /\ rx_dropped \in [Dev -> Nat]
NetTypes ==
    /\ link \in [Dev -> {"down", "up", "closing"}]
    /\ stopped \in [Dev -> BOOLEAN]
    /\ napi \in [Dev -> {"off", "idle", "sched", "missed"}]
CtxTypes ==
    /\ pc \in [Ctx -> Labels]
    /\ pkt \in [Ctx -> Packet \cup {<<>>}]
    /\ word \in [Ctx -> SUBSET {"RX", "TX"}]
    /\ irqdev \in [Ctx -> Dev]
    /\ npackets \in [Dev -> 0..NapiWeight]
HistTypes ==
    /\ npool \in [Dev -> 0..PoolSize]
    /\ sent \in [Dev -> 0..MaxTx]
    /\ frees \in [Dev -> [1..MaxTx -> Nat]]
    /\ delivered \in [Dev -> Seq(0..MaxTx)]
    /\ closes \in [Dev -> 0..MaxCloses]
    /\ blind \in [Dev -> BOOLEAN]

(* Every variable has its type: in particular a poll never processes more  *)
(* than its budget, and a link field never holds anything but a buffer.    *)
TypeOK ==
    BufTypes /\ PrivTypes /\ StatTypes /\ NetTypes /\ CtxTypes /\ HistTypes

(* The places a buffer can be: in its owner's pool, on the queue of the    *)
(* owner's twin, or in the hands of a context that has unlinked it and not *)
(* yet linked it again.                                                    *)
InPool(p) == p \in Range(ppool[Owner(p)])
InFlight(p) == p \in Range(rx_queue[Twin(Owner(p))])
Holds(c, p) == pc[c] \in {"enqueue", "release"} /\ pkt[c] = p

(* The buffer lists are never corrupted: no list holds a buffer twice, a   *)
(* pool holds only buffers allocated for it, and a receive queue only      *)
(* buffers of the twin's pool.                                             *)
ListsWellFormed ==
    \A d \in Dev :
       /\ IsInjective(ppool[d]) /\ IsInjective(rx_queue[d])
       /\ \A p \in Range(ppool[d]) : Owner(p) = d
       /\ \A p \in Range(rx_queue[d]) : Owner(p) = Twin(d)

(* No buffer is in two places, so no context writes into a frame another   *)
(* one is reading, and none is linked into two lists.                      *)
OnePlace ==
    \A p \in Packet :
       /\ ~(InPool(p) /\ InFlight(p))
       /\ \A c \in Ctx : Holds(c, p) =>
             /\ ~InPool(p) /\ ~InFlight(p)
             /\ \A b \in Ctx : Holds(b, p) => b = c

(* No buffer is ever lost: each one snull_setup_pool allocated can always  *)
(* be found.                                                               *)
NoneLost ==
    \A p \in Packet : p[2] <= npool[Owner(p)] =>
       InPool(p) \/ InFlight(p) \/ \E c \in Ctx : Holds(c, p)

(* Buffer conservation across snull_get_tx_buffer, snull_enqueue_buf, the  *)
(* two consumers of rx_queue and snull_release_buffer, whatever the        *)
(* interleaving of the two devices' contexts.                              *)
BuffersConserved == ListsWellFormed /\ OnePlace /\ NoneLost

(* A frame is handed to the stack of the twin at most once, and only if it *)
(* was transmitted: a buffer that is reused never shows its old frame      *)
(* again.                                                                  *)
DeliveredOnce ==
    \A d \in Dev :
       /\ IsInjective(delivered[d])
       /\ Range(delivered[d]) \subseteq 1..sent[Twin(d)]

(* snull_get_tx_buffer finds the pool empty only on a device whose queue   *)
(* was started while its pool was empty: by the watchdog, by opening the   *)
(* interface, or by a snull_release_buffer whose tests come so late that   *)
(* the buffer it gave back is in use again.  Otherwise netif_stop_queue    *)
(* keeps the stack away until a buffer is back.                            *)
ExhaustedOnlyAfterRestart ==
    \A d \in Dev : pc[Xmit(d)] = "oops" => blind[d]

(* When no transmission is in progress every skb has been freed exactly    *)
(* once, except the last one while its transmit interrupt is "lost": then  *)
(* the queue is stopped and the watchdog will free it.                     *)
SkbsAccounted ==
    \A d \in Dev : ~TxLocked(d) =>
       \A n \in 1..sent[d] :
          \/ frees[d][n] = 1
          \/ n = sent[d] /\ frees[d][n] = 0 /\ stopped[d]

(* The watchdog fires for the simulated lockups and for nothing else: each *)
(* Lockup-th frame is one, and is counted in tx_errors once recovered.     *)
TimeoutsAreLockups ==
    \A d \in Dev : Lockup > 0 /\ link[d] = "up" /\ ~TxLocked(d) =>
       tx_errors[d] + (IF stopped[d] THEN 1 ELSE 0) = sent[d] \div Lockup

(* The receive interrupts of an interface that was opened before its twin  *)
(* sent anything, and has not been closed since, are off only while a poll *)
(* is scheduled or running, which will turn them on again: otherwise the   *)
(* interface would be deaf.                                                *)
IntsOffMeansPoll ==
    \A d \in Dev : link[d] = "up" /\ closes[d] = 0 /\ ~rx_int_enabled[d] =>
       napi[d] \in {"sched", "missed"} \/ pc[Poll(d)] # "idle"

(* A stopped queue of an open interface is started again: by the buffer    *)
(* that comes back, or by the watchdog.                                    *)
StoppedQueueRecovers ==
    \A d \in Dev : (link[d] = "up" /\ stopped[d]) ~> (~stopped[d] \/ link[d] # "up")

(* Every frame transmitted is delivered to the twin's stack or counted as  *)
(* dropped there.                                                          *)
FramesArrive ==
    \A d \in Dev, n \in 1..MaxTx :
       (sent[d] = n) ~> (Len(delivered[Twin(d)]) + rx_dropped[Twin(d)] >= n)
============================================================================
