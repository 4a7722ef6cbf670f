-------------------------- MODULE SnullPathProofs --------------------------
(***************************************************************************)
(* Proofs about the data path of Snull.  With one transmitter and the      *)
(* regular handler, which MCFrames checks: every skb is freed once, and    *)
(* every timeout is a simulated lockup.  With traffic both ways, which     *)
(* MCSnullTraffic checks: when the pool runs dry, that no frame is         *)
(* delivered twice, and that a device does not stay deaf.                  *)
(***************************************************************************)
EXTENDS SnullProofs

-----------------------------------------------------------------------------
(* One device transmits, with the regular handler and no closing: one      *)
(* context runs at a time, the transmitter s or its watchdog, and the twin *)
(* only ever receives.                                                     *)
Control(s) ==
    /\ \A c \in Ctx \ {Xmit(s), Wdog(s)} : pc[c] = "idle"
    /\ pc[Xmit(s)] = "idle" \/ pc[Wdog(s)] = "idle"
    /\ pc[Wdog(s)] \in {"idle", "irq", "irq_body", "timeout_end"}
    /\ pc[Xmit(s)] \notin {"timeout_end", "poll", "rx_ints"}
    /\ irqdev[Wdog(s)] = s
    /\ \A d \in Dev : napi[d] = "off" /\ rx_int_enabled[d] /\ link[d] # "closing"
    /\ ~stopped[Twin(s)] /\ sent[Twin(s)] = 0 /\ tx_errors[Twin(s)] = 0
    /\ link[s] = "down" => /\ pc[Xmit(s)] = "idle" /\ pc[Wdog(s)] = "idle"
                           /\ ~stopped[s] /\ sent[s] = 0

InIrq(s, e) == pc[Xmit(s)] \in {"irq", "irq_body"} /\ irqdev[Xmit(s)] = e

(* From snull_enqueue_buf to the twin's handler, and from there to the end *)
(* of snull_release_buffer.                                                *)
Raising(s) == pc[Xmit(s)] \in {"rx_enabled", "rx_load", "rx_store"} \/ InIrq(s, Twin(s))
Releasing(s) == pc[Xmit(s)] \in {"release", "test_stopped", "test_next", "wake"}

(* The last frame has not been accounted for.                              *)
Pending(s) == pc[Xmit(s)] # "idle" \/ (stopped[s] /\ pc[Wdog(s)] # "timeout_end")

(* The status words: each handler finds the one bit raised for it.         *)
Words(s) ==
    /\ status[Twin(s)] = IF InIrq(s, Twin(s)) THEN {"RX"} ELSE {}
    /\ status[s] = IF \/ pc[Xmit(s)] = "lockup" \/ InIrq(s, s)
                      \/ (pc[Xmit(s)] = "idle" /\ Pending(s))
                   THEN {"TX"} ELSE {}
    /\ pc[Xmit(s)] \in {"rx_store", "tx_store"} => word[Xmit(s)] = {}
    /\ pc[Xmit(s)] = "irq_body" => word[Xmit(s)] = status[irqdev[Xmit(s)]]
    /\ pc[Wdog(s)] = "irq_body" => word[Wdog(s)] = {"TX"}
    /\ Raising(s) => rx_queue[Twin(s)] # <<>>
    /\ Releasing(s) => irqdev[Xmit(s)] = Twin(s)
    /\ pc[Xmit(s)] = "lockup" => irqdev[Xmit(s)] = s

(* The queue: stopped with the last buffer, it is started again when that  *)
(* buffer comes back, before the transmitter goes on to its own interrupt. *)
QueueOK(s) ==
    /\ pc[Xmit(s)] = "get" => ~stopped[s]
    /\ pc[Xmit(s)] \in {"enqueue", "release"} \/ Raising(s) =>
          (stopped[s] <=> ppool[s] = <<>>)
    /\ Releasing(s) => pkt[Xmit(s)] \in Packet /\ Owner(pkt[Xmit(s)]) = s
    /\ Releasing(s) /\ pc[Xmit(s)] # "release" /\ stopped[s] => nextNull[pkt[Xmit(s)]]
    /\ pc[Xmit(s)] \in {"tx_load", "tx_store", "lockup"} \/ InIrq(s, s) => ~stopped[s]
    /\ pc[Wdog(s)] # "idle" => stopped[s]

(* The books: the frames freed, counted and timed out so far.              *)
Counted(s) ==
    /\ pc[Xmit(s)] # "idle" \/ stopped[s] => sent[s] > 0
    /\ skb[s] = sent[s]
    /\ tx_packets[s] = IF Pending(s) THEN sent[s] - 1 ELSE sent[s]
    /\ \A n \in 1..MaxTx :
          frees[s][n] = IF n < sent[s] \/ (n = sent[s] /\ ~Pending(s)) THEN 1 ELSE 0

TimeoutsCounted(s) ==
    Lockup > 0 =>
       /\ tx_errors[s] = (IF pc[Xmit(s)] # "idle" \/ stopped[s] THEN sent[s] - 1
                          ELSE sent[s]) \div Lockup
       /\ pc[Xmit(s)] = "idle" /\ stopped[s] => sent[s] % Lockup = 0
       /\ InIrq(s, s) => sent[s] % Lockup # 0

OneWay(s) == Control(s) /\ Words(s) /\ QueueOK(s) /\ Counted(s) /\ TimeoutsCounted(s)

(* A frame more makes a lockup more exactly if Lockup divides its number.  *)
LEMMA LockupCount ==
    ASSUME NEW n \in Nat, n > 0, Lockup > 0
    PROVE  n \div Lockup = IF n % Lockup = 0 THEN (n - 1) \div Lockup + 1
                           ELSE (n - 1) \div Lockup
<1>1. ASSUME NEW k \in Nat
      PROVE  /\ k \div Lockup \in Int /\ k % Lockup \in 0..(Lockup - 1)
             /\ k = Lockup * (k \div Lockup) + (k % Lockup)
  BY ParamAssumption
<1>2. ASSUME NEW L \in Nat, L > 0, NEW q \in Int, NEW p \in Int,
             NEW r \in 0..(L - 1), NEW k \in 0..(L - 1), L * q + r = L * p + k + 1
      PROVE  q = IF r = 0 THEN p + 1 ELSE p
  BY <1>2
<1>3. n - 1 \in Nat /\ n = (n - 1) + 1
  OBVIOUS
<1>4. PICK q \in Int, r \in 0..(Lockup - 1) :
         q = n \div Lockup /\ r = n % Lockup /\ n = Lockup * q + r
  BY Zenon, <1>1
<1>5. PICK p \in Int, k \in 0..(Lockup - 1) :
         p = (n - 1) \div Lockup /\ k = (n - 1) % Lockup /\ n - 1 = Lockup * p + k
  BY Zenon, <1>1, <1>3
<1>6. Lockup * q + r = Lockup * p + k + 1
  BY <1>4, <1>5, ParamAssumption
<1>7. q = IF r = 0 THEN p + 1 ELSE p
  BY Zenon, <1>2, <1>6, ParamAssumption
<1> QED BY Zenon, <1>4, <1>5, <1>7

(* Only the transmitter, its watchdog and the opening of an interface act. *)
LEMMA OneWayActions ==
    ASSUME ~UseNapi, MaxCloses = 0, NEW s \in Dev, Senders = {s},
           Typed, Control(s), Next
    PROVE  \/ \E d \in Dev : snull_open(d)
           \/ snull_tx(s) \/ XmitStep(s) \/ WatchdogStep(s)
           \/ HandlerStep(Xmit(s)) \/ HandlerStep(Wdog(s))
           \/ UNCHANGED vars
<1>1. ASSUME NEW d \in Dev PROVE ~snull_release(d) /\ ~napi_disable(d)
  BY DEF snull_release, napi_disable, Control, Typed, TypeOK, HistTypes
<1>2. \A d \in Dev : d = s \/ d = Twin(s)
  BY DEF Dev, Twin
<1>3. /\ Xmit(Twin(s)) \in Ctx \ {Xmit(s), Wdog(s)} /\ Wdog(Twin(s)) \in Ctx \ {Xmit(s), Wdog(s)}
      /\ \A d \in Dev : Poll(d) \in Ctx \ {Xmit(s), Wdog(s)}
  BY Twins, Contexts, Zenon DEF Xmit, Wdog, Poll
<1>4. ~snull_tx(Twin(s)) /\ ~XmitStep(Twin(s)) /\ ~WatchdogStep(Twin(s))
  <2>1. ~snull_tx(Twin(s))
    BY Twins, Zenon DEF snull_tx
  <2>2. pc[Xmit(Twin(s))] = "idle" /\ pc[Wdog(Twin(s))] = "idle" /\ ~stopped[Twin(s)]
    BY <1>3, Zenon DEF Control
  <2>3. ~XmitStep(Twin(s))
    BY <2>2, Zenon DEF XmitStep, snull_get_tx_buffer, PoolEmptyOops, snull_enqueue_buf, HwTxRxEnabled,
       HwTxRaise, HwTxLoad, HwTxStore, HwTxLockup, Step, At
  <2>4. ~WatchdogStep(Twin(s))
    BY <2>2, Zenon DEF WatchdogStep, snull_tx_timeout, TimeoutEnd, Step, At
  <2> QED BY Zenon, <2>1, <2>3, <2>4
<1>5. ASSUME NEW d \in Dev PROVE ~PollStep(d)
  <2>1. pc[Poll(d)] = "idle" /\ napi[d] = "off"
    BY <1>3, Zenon DEF Control
  <2> QED BY <2>1, Zenon DEF PollStep, snull_poll, snull_dequeue_buf, PollComplete, PollEnableInts, Step, At
<1>6. ASSUME NEW c \in Ctx, c # Xmit(s), c # Wdog(s) PROVE ~HandlerStep(c)
  <2>1. pc[c] = "idle"
    BY <1>6, Zenon DEF Control
  <2> QED BY <2>1, Zenon DEF HandlerStep, IrqEnter, snull_regular_interrupt, snull_napi_interrupt,
          snull_release_buffer, ReleaseTests, ReleaseReturn, Step, At
<1> QED BY <1>1, <1>2, <1>4, <1>5, <1>6, Zenon DEF Next, Rest

(* The transmitter moves.                                                  *)
LEMMA ControlXmit ==
    ASSUME NEW s \in Dev, Typed, Control(s), pc[Wdog(s)] = "idle", link[s] # "down",
           NEW l \in Labels \ {"timeout_end", "poll", "rx_ints"},
           pc' = [pc EXCEPT ![Xmit(s)] = l],
           UNCHANGED <<napi, rx_int_enabled, link, tx_errors>>,
           irqdev' = irqdev \/ irqdev' = [irqdev EXCEPT ![Xmit(s)] = irqdev'[Xmit(s)]],
           stopped'[Twin(s)] = stopped[Twin(s)], sent'[Twin(s)] = sent[Twin(s)]
    PROVE  Control(s)' /\ pc'[Xmit(s)] = l /\ pc'[Wdog(s)] = "idle"
<1>1. /\ DOMAIN pc = Ctx /\ DOMAIN irqdev = Ctx
      /\ Xmit(s) \in Ctx /\ Wdog(s) \in Ctx /\ Xmit(s) # Wdog(s)
  BY Contexts, Zenon DEF Typed, TypeOK, CtxTypes
<1>2. /\ pc'[Xmit(s)] = l /\ pc'[Wdog(s)] = "idle"
      /\ irqdev'[Wdog(s)] = irqdev[Wdog(s)]
      /\ \A c \in Ctx \ {Xmit(s), Wdog(s)} : pc'[c] = pc[c]
  BY Zenon, <1>1
<1> QED BY <1>2, Zenon DEF Control

(* Nothing that the books are about has changed.                           *)
LEMMA CountedFrame ==
    ASSUME NEW s \in Dev, Counted(s),
           Pending(s)' <=> Pending(s),
           pc'[Xmit(s)] # "idle" \/ stopped'[s] => pc[Xmit(s)] # "idle" \/ stopped[s],
           UNCHANGED <<sent, skb, tx_packets, frees>>
    PROVE  Counted(s)'
BY Zenon DEF Counted

(* What the type invariant says of one device and its contexts.            *)
LEMMA Domains ==
    ASSUME Typed, NEW s \in Dev
    PROVE  /\ Xmit(s) \in Ctx /\ Wdog(s) \in Ctx /\ Xmit(s) # Wdog(s)
           /\ Twin(s) \in Dev /\ Twin(s) # s /\ Twin(Twin(s)) = s
           /\ DOMAIN pc = Ctx /\ DOMAIN word = Ctx /\ DOMAIN irqdev = Ctx /\ DOMAIN pkt = Ctx
           /\ DOMAIN status = Dev /\ DOMAIN stopped = Dev /\ DOMAIN sent = Dev
           /\ DOMAIN skb = Dev /\ DOMAIN tx_packets = Dev /\ DOMAIN tx_errors = Dev
           /\ DOMAIN rx_queue = Dev /\ DOMAIN ppool = Dev /\ DOMAIN nextNull = Packet
           /\ DOMAIN frees = Dev /\ DOMAIN link = Dev
           /\ sent[s] \in Nat /\ sent[s] <= MaxTx /\ frees[s] \in [1..MaxTx -> Nat]
           /\ tx_errors[s] \in Nat
           /\ \A d \in Dev : stopped[d] \in BOOLEAN
<1>1. /\ Xmit(s) \in Ctx /\ Wdog(s) \in Ctx /\ Xmit(s) # Wdog(s)
      /\ Twin(s) \in Dev /\ Twin(s) # s /\ Twin(Twin(s)) = s
  BY Zenon, Contexts, Twins
<1>2. /\ DOMAIN pc = Ctx /\ DOMAIN word = Ctx /\ DOMAIN irqdev = Ctx /\ DOMAIN pkt = Ctx
      /\ DOMAIN status = Dev /\ DOMAIN stopped = Dev /\ DOMAIN sent = Dev
      /\ DOMAIN skb = Dev /\ DOMAIN tx_packets = Dev /\ DOMAIN tx_errors = Dev
      /\ DOMAIN rx_queue = Dev /\ DOMAIN ppool = Dev /\ DOMAIN nextNull = Packet
      /\ DOMAIN frees = Dev /\ DOMAIN link = Dev
      /\ \A d \in Dev : stopped[d] \in BOOLEAN
      /\ frees[s] \in [1..MaxTx -> Nat] /\ sent[s] \in 0..MaxTx /\ tx_errors[s] \in Nat
  BY Zenon DEF Typed, TypeOK, BufTypes, PrivTypes, StatTypes, NetTypes, CtxTypes, HistTypes
<1>3. sent[s] \in Nat /\ sent[s] <= MaxTx
  BY <1>2, BoundAssumption
<1> QED BY Zenon, <1>1, <1>2, <1>3

(* Opening an interface that was never open finds its queue running.       *)
LEMMA OneWayOpen ==
    ASSUME ~UseNapi, NEW s \in Dev, Typed, OneWay(s), NEW d \in Dev, snull_open(d)
    PROVE  OneWay(s)'
<1>1. /\ link[d] = "down" /\ link' = [link EXCEPT ![d] = "up"]
      /\ stopped' = [stopped EXCEPT ![d] = FALSE]
      /\ UNCHANGED <<bufVars, privVars, statVars, napi, pc, locals, sent, frees>>
  BY Zenon DEF snull_open, StartQueue
<1>2. /\ d = s \/ d = Twin(s)
      /\ ~stopped[d]
  BY <1>1, Zenon DEF Dev, Twin, OneWay, Control
<1>3. stopped'[s] = stopped[s] /\ stopped'[Twin(s)] = stopped[Twin(s)]
  BY Zenon, <1>1, <1>2, Domains
<1>4. Control(s)'
  BY <1>1, <1>3, Domains, Zenon DEF OneWay, Control, privVars, statVars, locals
<1>5. /\ \A e \in Dev : InIrq(s, e)' <=> InIrq(s, e)
      /\ Pending(s)' <=> Pending(s)
      /\ Raising(s)' <=> Raising(s)
      /\ Releasing(s)' <=> Releasing(s)
  BY <1>1, <1>3, Zenon DEF InIrq, Pending, Raising, Releasing, locals
<1>6. Words(s)'
  BY <1>1, <1>5, Domains, Zenon DEF OneWay, Words, bufVars, privVars, locals
<1>7. QueueOK(s)'
  BY <1>1, <1>3, <1>5, Domains, Zenon DEF OneWay, QueueOK, bufVars, privVars, locals
<1>8. Counted(s)' /\ TimeoutsCounted(s)'
  BY <1>1, <1>3, <1>5, Domains, Zenon DEF OneWay, Counted, TimeoutsCounted, statVars, privVars
<1> QED BY <1>4, <1>6, <1>7, <1>8, Zenon DEF OneWay

(* snull_tx begins when the books are closed.                              *)
LEMMA OneWayTx ==
    ASSUME NEW s \in Dev, Typed, OneWay(s), snull_tx(s)
    PROVE  OneWay(s)'
<1>1. /\ link[s] = "up" /\ ~stopped[s]
      /\ pc[Xmit(s)] = "idle" /\ pc[Wdog(s)] = "idle"
      /\ sent' = [sent EXCEPT ![s] = sent[s] + 1] /\ skb' = [skb EXCEPT ![s] = sent[s] + 1]
      /\ sent[s] < MaxTx
      /\ pc' = [pc EXCEPT ![Xmit(s)] = "get"]
      /\ UNCHANGED <<bufVars, status, rx_int_enabled, statVars, netVars, locals, frees>>
  BY Zenon DEF snull_tx, TxLocked, Goto
<1>2. Control(s)' /\ pc'[Xmit(s)] = "get" /\ pc'[Wdog(s)] = "idle"
  BY <1>1, ControlXmit, Domains, Zenon DEF OneWay, Labels, netVars, statVars, locals
<1>3. sent'[s] = sent[s] + 1 /\ skb'[s] = sent[s] + 1
  BY Zenon, <1>1, Domains
<1>4. ~Pending(s) /\ Pending(s)' /\ (\A e \in Dev : ~InIrq(s, e)' /\ ~InIrq(s, e)) /\ ~Raising(s)' /\ ~Releasing(s)'
  BY <1>1, <1>2, Domains, Zenon DEF Pending, InIrq, Raising, Releasing
<1>5. Words(s)'
  BY <1>1, <1>2, <1>4, Domains, Zenon DEF OneWay, Words
<1>6. QueueOK(s)'
  BY <1>1, <1>2, <1>4, Domains, Zenon DEF QueueOK, netVars
<1>7. Counted(s)'
  <2>1. Counted(s) /\ sent[s] \in Nat /\ UNCHANGED <<tx_packets, frees>>
    BY <1>1, Domains, Zenon DEF OneWay, statVars
  <2>2. \A n \in 1..MaxTx : frees[s][n] = IF n < sent[s] + 1 THEN 1 ELSE 0
    BY <1>4, <2>1 DEF Counted
  <2> QED BY <1>3, <1>4, <2>1, <2>2 DEF Counted
<1>8. TimeoutsCounted(s)'
  BY <1>1, <1>2, <1>3, <1>4, Domains DEF OneWay, TimeoutsCounted, statVars, netVars
<1> QED BY <1>2, <1>5, <1>6, <1>7, <1>8, Zenon DEF OneWay

(* The transmitter's steps up to the interrupt of the twin.                *)
LEMMA OneWaySend ==
    ASSUME NEW s \in Dev, Typed, OneWay(s),
           snull_get_tx_buffer(s) \/ PoolEmptyOops(s) \/ snull_enqueue_buf(s)
    PROVE  OneWay(s)'
<1>1. /\ pc[Xmit(s)] \in {"get", "enqueue"}
      /\ UNCHANGED <<status, rx_int_enabled, skb, statVars, link, napi, word, irqdev, sent, frees>>
  BY Zenon DEF snull_get_tx_buffer, PoolEmptyOops, snull_enqueue_buf, Step, At, privVars, netVars, locals, histVars
<1>2. pc[Wdog(s)] = "idle" /\ link[s] # "down"
  BY <1>1, Zenon DEF OneWay, Control
<1>3. /\ \E l \in {"enqueue", "oops", "rx_enabled"} : pc' = [pc EXCEPT ![Xmit(s)] = l]
      /\ stopped'[Twin(s)] = stopped[Twin(s)]
  BY Domains, Zenon DEF snull_get_tx_buffer, PoolEmptyOops, snull_enqueue_buf, Step, Goto, netVars
<1>4. Control(s)' /\ pc'[Xmit(s)] \in {"enqueue", "oops", "rx_enabled"} /\ pc'[Wdog(s)] = "idle"
  BY <1>1, <1>2, <1>3, ControlXmit, Domains, Zenon DEF OneWay, Labels, statVars
<1>5. /\ Pending(s) /\ Pending(s)' /\ (\A e \in Dev : ~InIrq(s, e)' /\ ~InIrq(s, e))
      /\ ~Releasing(s)' /\ (Raising(s)' <=> pc'[Xmit(s)] = "rx_enabled")
  BY <1>1, <1>4, Domains, Zenon DEF Pending, InIrq, Raising, Releasing
<1>6. ASSUME snull_get_tx_buffer(s) PROVE Words(s)' /\ QueueOK(s)'
  <2>1. /\ pc[Xmit(s)] = "get" /\ pc' = [pc EXCEPT ![Xmit(s)] = "enqueue"]
        /\ ppool' = [ppool EXCEPT ![s] = Tail(@)]
        /\ stopped' = [stopped EXCEPT ![s] = @ \/ Tail(ppool[s]) = <<>>]
        /\ UNCHANGED rx_queue
    BY <1>6, Zenon DEF snull_get_tx_buffer, LastBuffer, Step, At, Goto
  <2>2. /\ ppool'[s] = Tail(ppool[s]) /\ stopped'[s] = (stopped[s] \/ Tail(ppool[s]) = <<>>)
        /\ ~stopped[s] /\ pc'[Xmit(s)] = "enqueue"
    BY <2>1, Domains, Zenon DEF OneWay, QueueOK
  <2>3. Words(s)'
    BY <1>1, <1>4, <1>5, <2>2, Domains, Zenon DEF OneWay, Words
  <2>4. QueueOK(s)'
    BY <1>4, <1>5, <2>2, Zenon DEF QueueOK
  <2> QED BY Zenon, <2>3, <2>4
<1>7. ASSUME PoolEmptyOops(s) PROVE Words(s)' /\ QueueOK(s)'
  <2>1. pc'[Xmit(s)] = "oops" /\ UNCHANGED <<bufVars, stopped>>
    BY <1>7, Domains, Zenon DEF PoolEmptyOops, Step, Goto, netVars
  <2>2. Words(s)'
    BY <1>1, <1>4, <1>5, <2>1, Domains, Zenon DEF OneWay, Words
  <2>3. QueueOK(s)'
    BY <1>4, <1>5, <2>1, Domains, Zenon DEF QueueOK
  <2> QED BY <2>2, <2>3
<1>8. ASSUME snull_enqueue_buf(s) PROVE Words(s)' /\ QueueOK(s)'
  <2>1. /\ pc[Xmit(s)] = "enqueue" /\ pc'[Xmit(s)] = "rx_enabled" /\ UNCHANGED <<ppool, stopped>>
        /\ rx_queue'[Twin(s)] = <<pkt[Xmit(s)]>> \o rx_queue[Twin(s)]
    BY <1>8, Domains, Zenon DEF snull_enqueue_buf, Step, At, Goto, netVars
  <2>2. <<pkt[Xmit(s)]>> \o rx_queue[Twin(s)] # <<>>
    <3>1. rx_queue[Twin(s)] \in Seq(Packet)
      BY Domains, Zenon DEF Typed, TypeOK, BufTypes
    <3> QED BY <3>1
  <2>3. Words(s)'
    BY <1>1, <1>4, <1>5, <2>1, <2>2, Domains, Zenon DEF OneWay, Words
  <2>4. QueueOK(s)'
    BY <1>4, <1>5, <2>1, Domains, Zenon DEF OneWay, QueueOK
  <2> QED BY <2>3, <2>4
<1>9. Counted(s)'
  BY <1>1, <1>5, CountedFrame, Zenon DEF OneWay, statVars
<1>10. TimeoutsCounted(s)'
  BY <1>1, <1>4, <1>5, Zenon DEF OneWay, TimeoutsCounted, statVars
<1> QED BY <1>4, <1>6, <1>7, <1>8, <1>9, <1>10, Zenon DEF OneWay

(* Raising the interrupts: a word loaded is stored before anybody else     *)
(* writes it.                                                              *)
LEMMA OneWayRaise ==
    ASSUME NEW s \in Dev, Typed, OneWay(s), HwTxRxEnabled(s) \/ HwTxRaise(s)
    PROVE  OneWay(s)'
<1>1. /\ pc[Xmit(s)] \in {"rx_enabled", "rx_load", "rx_store", "tx_load", "tx_store"}
      /\ UNCHANGED <<bufVars, rx_int_enabled, skb, statVars, netVars, pkt, sent, frees>>
  BY Zenon DEF HwTxRxEnabled, HwTxRaise, HwTxLoad, HwTxStore, Step, At, privVars, locals, histVars
<1>2. pc[Wdog(s)] = "idle" /\ link[s] # "down" /\ rx_int_enabled[Twin(s)]
  BY <1>1, Domains, Zenon DEF OneWay, Control
<1>3. /\ \E l \in {"rx_load", "rx_store", "tx_store", "irq", "lockup"} : pc' = [pc EXCEPT ![Xmit(s)] = l]
      /\ irqdev' = irqdev \/ irqdev' = [irqdev EXCEPT ![Xmit(s)] = irqdev'[Xmit(s)]]
  BY <1>2, Domains, Zenon DEF HwTxRxEnabled, HwTxRaise, HwTxLoad, HwTxStore, Step, Goto, locals
<1>4. /\ Control(s)' /\ pc'[Wdog(s)] = "idle"
      /\ pc'[Xmit(s)] \in {"rx_load", "rx_store", "tx_store", "irq", "lockup"}
  BY <1>1, <1>2, <1>3, ControlXmit, Domains, ZenonT(30) DEF OneWay, Labels, netVars, statVars
<1>5. \/ /\ pc[Xmit(s)] = "rx_enabled" /\ pc'[Xmit(s)] = "rx_load" /\ UNCHANGED <<status, word, irqdev>>
      \/ /\ pc[Xmit(s)] = "rx_load" /\ pc'[Xmit(s)] = "rx_store" /\ UNCHANGED <<status, irqdev>>
         /\ word'[Xmit(s)] = status[Twin(s)]
      \/ /\ pc[Xmit(s)] = "rx_store" /\ pc'[Xmit(s)] = "irq" /\ irqdev'[Xmit(s)] = Twin(s)
         /\ status'[Twin(s)] = word[Xmit(s)] \cup {"RX"} /\ status'[s] = status[s]
      \/ /\ pc[Xmit(s)] = "tx_load" /\ pc'[Xmit(s)] = "tx_store" /\ UNCHANGED <<status, irqdev>>
         /\ word'[Xmit(s)] = status[s]
      \/ /\ pc[Xmit(s)] = "tx_store" /\ pc'[Xmit(s)] = "lockup" /\ irqdev'[Xmit(s)] = s
         /\ status'[s] = word[Xmit(s)] \cup {"TX"} /\ status'[Twin(s)] = status[Twin(s)]
  BY <1>2, Domains, SMTT(30) DEF HwTxRxEnabled, HwTxRaise, HwTxLoad, HwTxStore, Step, At, Goto, privVars, locals
<1>6. /\ Pending(s) /\ Pending(s)' /\ (\A e \in Dev : ~InIrq(s, e))
      /\ ~Releasing(s)' /\ ~InIrq(s, s)'
      /\ InIrq(s, Twin(s))' <=> pc'[Xmit(s)] = "irq"
      /\ Raising(s) <=> pc[Xmit(s)] \in {"rx_enabled", "rx_load", "rx_store"}
      /\ Raising(s)' <=> pc'[Xmit(s)] \in {"rx_load", "rx_store", "irq"}
  BY <1>1, <1>4, <1>5, Domains, Zenon DEF Pending, InIrq, Raising, Releasing
<1>7. status[Twin(s)] = {} /\ status[s] = {}
  BY <1>1, <1>6, Domains, Zenon DEF OneWay, Words
<1>8. Words(s)'
  <2>1. status'[Twin(s)] = IF pc'[Xmit(s)] = "irq" THEN {"RX"} ELSE {}
    BY <1>1, <1>5, <1>7, Zenon DEF OneWay, Words
  <2>2. status'[s] = IF pc'[Xmit(s)] = "lockup" THEN {"TX"} ELSE {}
    BY <1>1, <1>5, <1>7, Zenon DEF OneWay, Words
  <2>3. pc'[Xmit(s)] \in {"rx_store", "tx_store"} => word'[Xmit(s)] = {}
    BY Zenon, <1>5, <1>7
  <2>4. Raising(s)' => rx_queue'[Twin(s)] # <<>>
    BY <1>1, <1>5, <1>6, Zenon DEF OneWay, Words, bufVars
  <2>5. pc'[Xmit(s)] = "lockup" => irqdev'[Xmit(s)] = s
    BY Zenon, <1>5
  <2> QED BY <1>4, <1>6, <2>1, <2>2, <2>3, <2>4, <2>5, Zenon DEF Words
<1>9. QueueOK(s)'
  BY <1>1, <1>4, <1>5, <1>6, Zenon DEF OneWay, QueueOK, bufVars, netVars
<1>10. Counted(s)'
  BY <1>1, <1>6, CountedFrame, Zenon DEF OneWay, statVars
<1>11. TimeoutsCounted(s)'
  BY <1>1, <1>4, <1>6, Zenon DEF OneWay, TimeoutsCounted, statVars
<1> QED BY <1>4, <1>8, <1>9, <1>10, <1>11, Zenon DEF OneWay

(* The transmit interrupt of every Lockup-th frame is lost.                *)
LEMMA OneWayLockup ==
    ASSUME NEW s \in Dev, Typed, OneWay(s), HwTxLockup(s)
    PROVE  OneWay(s)'
<1> DEFINE lost == SimulateLockup(s)
<1>1. /\ pc[Xmit(s)] = "lockup"
      /\ pc' = [pc EXCEPT ![Xmit(s)] = IF lost THEN "idle" ELSE "irq"]
      /\ stopped' = [stopped EXCEPT ![s] = @ \/ lost]
      /\ UNCHANGED <<bufVars, privVars, statVars, link, napi, locals, sent, frees>>
  BY Zenon DEF HwTxLockup, StopQueue, AfterLockup, Step, At, Goto, histVars
<1>2. pc[Wdog(s)] = "idle" /\ link[s] # "down" /\ ~stopped[s]
  BY <1>1, Domains, Zenon DEF OneWay, Control, QueueOK
<1>3. lost \in BOOLEAN /\ (lost <=> Lockup > 0 /\ sent[s] % Lockup = 0)
  <2>1. tx_packets[s] + 1 = sent[s]
    BY <1>1, Domains DEF OneWay, Counted, Pending
  <2> QED BY <2>1, Zenon DEF SimulateLockup
<1> HIDE DEF lost
<1>4. /\ stopped'[s] = lost /\ stopped'[Twin(s)] = stopped[Twin(s)]
  BY Zenon, <1>1, <1>2, <1>3, Domains
<1>5. /\ Control(s)' /\ pc'[Wdog(s)] = "idle"
      /\ pc'[Xmit(s)] = IF lost THEN "idle" ELSE "irq"
  BY <1>1, <1>2, <1>4, ControlXmit, Zenon DEF OneWay, Labels, privVars, statVars, locals
<1>6. /\ Pending(s) /\ Pending(s)' /\ ~InIrq(s, s) /\ ~InIrq(s, Twin(s))
      /\ status[s] = {"TX"} /\ status[Twin(s)] = {}
  BY <1>1, <1>4, <1>5, Domains, Zenon DEF OneWay, Words, Pending, InIrq
<1>7. /\ irqdev[Xmit(s)] = s /\ ~Raising(s)' /\ ~Releasing(s)' /\ ~InIrq(s, Twin(s))'
      /\ InIrq(s, s)' <=> ~lost
  BY <1>1, <1>3, <1>5, Domains, Zenon DEF OneWay, Words, InIrq, Raising, Releasing, locals
<1>8. Words(s)'
  <2>1. UNCHANGED status
    BY <1>1, Zenon DEF privVars
  <2>2. CASE lost
    BY <1>5, <1>6, <1>7, <2>1, <2>2, Zenon DEF Words
  <2>3. CASE ~lost
    BY <1>5, <1>6, <1>7, <2>1, <2>3, Zenon DEF Words
  <2> QED BY Zenon, <2>2, <2>3
<1>9. QueueOK(s)'
  BY <1>3, <1>4, <1>5, <1>7, Zenon DEF QueueOK
<1>10. Counted(s)'
  BY <1>1, <1>6, CountedFrame, Zenon DEF OneWay, statVars, privVars
<1>11. TimeoutsCounted(s)'
  BY <1>1, <1>3, <1>4, <1>5, <1>7 DEF OneWay, TimeoutsCounted, statVars
<1> QED BY <1>5, <1>8, <1>9, <1>10, <1>11, Zenon DEF OneWay

(* Entering a handler: the word read is the one that was raised.           *)
LEMMA OneWayEnter ==
    ASSUME NEW s \in Dev, Typed, OneWay(s), IrqEnter(Xmit(s))
    PROVE  OneWay(s)'
<1>1. /\ pc[Xmit(s)] = "irq" /\ pc' = [pc EXCEPT ![Xmit(s)] = "irq_body"]
      /\ word' = [word EXCEPT ![Xmit(s)] = status[irqdev[Xmit(s)]]]
      /\ UNCHANGED <<bufVars, status, rx_int_enabled, skb, statVars, netVars, pkt, irqdev, sent, frees>>
  BY Zenon DEF IrqEnter, Step, At, Goto, histVars
<1>2. pc[Wdog(s)] = "idle" /\ link[s] # "down"
  BY <1>1, Zenon DEF OneWay, Control
<1>3. Control(s)' /\ pc'[Xmit(s)] = "irq_body" /\ pc'[Wdog(s)] = "idle"
  BY <1>1, <1>2, ControlXmit, Zenon DEF OneWay, Labels, netVars, statVars
<1>4. /\ InIrq(s, s)' <=> InIrq(s, s)
      /\ InIrq(s, Twin(s))' <=> InIrq(s, Twin(s))
      /\ Raising(s)' <=> Raising(s)
      /\ ~Releasing(s) /\ ~Releasing(s)' /\ Pending(s) /\ Pending(s)'
  BY <1>1, <1>3, Zenon DEF InIrq, Raising, Releasing, Pending
<1>5. Words(s)'
  BY <1>1, <1>3, <1>4, Domains, Zenon DEF OneWay, Words, bufVars
<1>6. QueueOK(s)'
  BY <1>1, <1>3, <1>4, Zenon DEF OneWay, QueueOK, bufVars, netVars
<1>7. Counted(s)'
  BY <1>1, <1>4, CountedFrame, Zenon DEF OneWay, statVars
<1>8. TimeoutsCounted(s)'
  BY <1>1, <1>3, <1>4, Zenon DEF OneWay, TimeoutsCounted, statVars
<1> QED BY <1>3, <1>5, <1>6, <1>7, <1>8, Zenon DEF OneWay

(* The twin's handler takes the frame and accounts nothing.                *)
LEMMA OneWayReceive ==
    ASSUME NEW s \in Dev, Typed, OneWay(s), snull_regular_interrupt(Xmit(s)),
           irqdev[Xmit(s)] = Twin(s)
    PROVE  OneWay(s)'
<1> DEFINE t == Twin(s)
           q == rx_queue[t]
<1>1. /\ pc[Xmit(s)] = "irq_body" /\ InIrq(s, t) /\ Raising(s)
      /\ TxDone(Xmit(s), t)
      /\ ReceiveOne(Xmit(s), t) \/ ReceiveNone(Xmit(s), t)
      /\ UNCHANGED <<ppool, rx_int_enabled, skb, tx_errors, netVars, irqdev, sent>>
  BY Zenon DEF snull_regular_interrupt, At, InIrq, Raising
<1>2. /\ pc[Wdog(s)] = "idle" /\ link[s] # "down"
      /\ word[Xmit(s)] = {"RX"} /\ q # <<>>
      /\ status[s] = {}
  BY <1>1, Domains, ZenonT(30) DEF OneWay, Control, Words, InIrq, Pending
<1>3. /\ pc' = [pc EXCEPT ![Xmit(s)] = "release"]
      /\ pkt'[Xmit(s)] = Head(q)
      /\ UNCHANGED <<tx_packets, frees>>
      /\ status' = [status EXCEPT ![t] = {}]
  BY <1>1, <1>2, Domains, Zenon DEF ReceiveOne, ReceiveNone, TxDone, Goto
<1>4. Head(q) \in Packet /\ Owner(Head(q)) = s
  <2>1. q \in Seq(Packet)
    BY Domains, Zenon DEF Typed, TypeOK, BufTypes
  <2>2. Head(q) \in Packet /\ Head(q) \in Range(q)
    BY <1>2, <2>1, PopProperties
  <2> QED BY <2>2, Domains, Zenon DEF Typed, OwnersOK
<1>5. Control(s)' /\ pc'[Xmit(s)] = "release" /\ pc'[Wdog(s)] = "idle"
  BY <1>1, <1>2, <1>3, ControlXmit, Zenon DEF OneWay, Labels, netVars
<1>6. /\ ~InIrq(s, s)' /\ ~InIrq(s, t)' /\ ~Raising(s)' /\ Releasing(s)' /\ Pending(s) /\ Pending(s)'
  BY <1>1, <1>5, Zenon DEF InIrq, Raising, Releasing, Pending
<1>7. status'[s] = {} /\ status'[t] = {} /\ irqdev'[Xmit(s)] = t
  BY Zenon, <1>1, <1>2, <1>3, Domains
<1>8. Words(s)'
  BY <1>5, <1>6, <1>7, Zenon DEF Words
<1>9. QueueOK(s)'
  BY <1>1, <1>3, <1>4, <1>5, <1>6, Zenon DEF OneWay, QueueOK, netVars
<1>10. Counted(s)'
  BY <1>1, <1>3, <1>6, CountedFrame, Zenon DEF OneWay
<1>11. TimeoutsCounted(s)'
  BY <1>1, <1>5, <1>6, Zenon DEF OneWay, TimeoutsCounted
<1> QED BY <1>5, <1>8, <1>9, <1>10, <1>11, Zenon DEF OneWay

(* The transmitter's own handler, or the watchdog's: the frame is freed    *)
(* and counted, once.                                                      *)
LEMMA CountedDone ==
    ASSUME NEW s \in Dev, Typed, Counted(s), Pending(s), ~Pending(s)', pc'[Xmit(s)] = "idle",
           tx_packets' = [tx_packets EXCEPT ![s] = @ + 1],
           frees' = [frees EXCEPT ![s][skb[s]] = @ + 1],
           UNCHANGED <<sent, skb>>,
           sent[s] > 0
    PROVE  Counted(s)'
<1>1. /\ sent[s] \in 1..MaxTx /\ skb[s] = sent[s] /\ tx_packets[s] = sent[s] - 1
      /\ frees[s] \in [1..MaxTx -> Nat] /\ frees[s][sent[s]] = 0
  BY Domains, BoundAssumption DEF Counted
<1>2. frees'[s] = [frees[s] EXCEPT ![sent[s]] = 1]
  BY <1>1, Domains
<1>3. ASSUME NEW n \in 1..MaxTx
      PROVE  frees'[s][n] = IF n < sent[s] \/ n = sent[s] THEN 1 ELSE 0
  <2>1. n # sent[s] => frees'[s][n] = frees[s][n]
    BY Zenon, <1>1, <1>2
  <2>2. frees'[s][sent[s]] = 1
    <3>1. sent[s] \in DOMAIN frees[s]
      BY <1>1, Zenon
    <3> QED BY <1>2, <3>1, Zenon
  <2>3. n # sent[s] => frees[s][n] = IF n < sent[s] THEN 1 ELSE 0
    BY Zenon DEF Counted
  <2> QED BY Zenon, <2>1, <2>2, <2>3
<1>4. tx_packets'[s] = sent[s]
  BY <1>1, Domains
<1> QED BY <1>1, <1>3, <1>4, ZenonT(30) DEF Counted

(* The transmitter's own handler ends the transmission.                    *)
LEMMA OneWayDone ==
    ASSUME NEW s \in Dev, Typed, OneWay(s), snull_regular_interrupt(Xmit(s)),
           irqdev[Xmit(s)] = s
    PROVE  OneWay(s)'
<1>1. /\ pc[Xmit(s)] = "irq_body" /\ InIrq(s, s)
      /\ TxDone(Xmit(s), s)
      /\ ReceiveOne(Xmit(s), s) \/ ReceiveNone(Xmit(s), s)
      /\ UNCHANGED <<ppool, rx_int_enabled, skb, tx_errors, netVars, irqdev, sent>>
  BY Zenon DEF snull_regular_interrupt, At, InIrq
<1>2. /\ pc[Wdog(s)] = "idle" /\ link[s] # "down" /\ ~stopped[s]
      /\ word[Xmit(s)] = {"TX"} /\ sent[s] > 0
      /\ status[Twin(s)] = {}
  BY <1>1, Domains, ZenonT(30) DEF OneWay, Control, Words, QueueOK, Counted, InIrq, Pending
<1>3. AfterIrq(Xmit(s)) = "idle"
  BY Zenon DEF AfterIrq, Xmit
<1>4. /\ pc' = [pc EXCEPT ![Xmit(s)] = "idle"]
      /\ tx_packets' = [tx_packets EXCEPT ![s] = @ + 1]
      /\ frees' = [frees EXCEPT ![s][skb[s]] = @ + 1]
      /\ status' = [status EXCEPT ![s] = {}]
  BY <1>1, <1>2, <1>3, Domains, Zenon DEF ReceiveOne, ReceiveNone, TxDone, Goto
<1>5. Control(s)' /\ pc'[Xmit(s)] = "idle" /\ pc'[Wdog(s)] = "idle"
  BY <1>1, <1>2, <1>4, ControlXmit, Zenon DEF OneWay, Labels, netVars
<1>6. /\ ~InIrq(s, s)' /\ ~InIrq(s, Twin(s))' /\ ~Raising(s)' /\ ~Releasing(s)'
      /\ Pending(s) /\ ~Pending(s)' /\ ~stopped'[s]
  BY <1>1, <1>2, <1>5, Zenon DEF InIrq, Raising, Releasing, Pending, netVars
<1>7. status'[s] = {} /\ status'[Twin(s)] = {}
  BY Zenon, <1>2, <1>4, Domains
<1>8. Words(s)'
  BY <1>5, <1>6, <1>7, Zenon DEF Words
<1>9. QueueOK(s)'
  BY <1>5, <1>6, Zenon DEF QueueOK
<1>10. Counted(s)'
  BY <1>1, <1>2, <1>4, <1>5, <1>6, CountedDone, Zenon DEF OneWay
<1>11. TimeoutsCounted(s)'
  <2> SUFFICES ASSUME Lockup > 0
               PROVE  tx_errors'[s] = sent'[s] \div Lockup
    BY <1>5, <1>6, Zenon DEF TimeoutsCounted
  <2>1. sent[s] % Lockup # 0 /\ tx_errors[s] = (sent[s] - 1) \div Lockup
    BY <1>1, Zenon DEF OneWay, TimeoutsCounted
  <2> QED BY Zenon, <1>1, <1>2, <2>1, LockupCount, Domains
<1> QED BY <1>5, <1>8, <1>9, <1>10, <1>11, Zenon DEF OneWay

(* snull_release_buffer: the buffer is back, and the queue is started if   *)
(* it was the only one.                                                    *)
LEMMA OneWayRelease ==
    ASSUME NEW s \in Dev, Typed, OneWay(s), snull_release_buffer(Xmit(s))
    PROVE  OneWay(s)'
<1> DEFINE p == pkt[Xmit(s)]
<1>1. /\ pc[Xmit(s)] = "release" /\ pc' = [pc EXCEPT ![Xmit(s)] = "test_stopped"]
      /\ nextNull' = [nextNull EXCEPT ![p] = ppool[Owner(p)] = <<>>]
      /\ UNCHANGED <<rx_queue, privVars, statVars, netVars, locals, sent, frees>>
  BY Zenon DEF snull_release_buffer, ReleasePool, Step, At, Goto, histVars
<1>2. /\ pc[Wdog(s)] = "idle" /\ link[s] # "down"
      /\ p \in Packet /\ Owner(p) = s
      /\ stopped[s] => ppool[s] = <<>>
  BY <1>1, Zenon DEF OneWay, Control, QueueOK, Releasing
<1>3. Control(s)' /\ pc'[Xmit(s)] = "test_stopped" /\ pc'[Wdog(s)] = "idle"
  BY <1>1, <1>2, ControlXmit, Zenon DEF OneWay, Labels, privVars, statVars, netVars, locals
<1>4. /\ ~InIrq(s, s)' /\ ~InIrq(s, Twin(s))' /\ ~Raising(s)' /\ Releasing(s)' /\ Releasing(s)
      /\ ~InIrq(s, s) /\ ~InIrq(s, Twin(s))
      /\ Pending(s) /\ Pending(s)'
  BY <1>1, <1>3, Zenon DEF InIrq, Raising, Releasing, Pending
<1>5. Words(s)'
  BY <1>1, <1>3, <1>4, Zenon DEF OneWay, Words, privVars, locals
<1>6. stopped'[s] => nextNull'[pkt'[Xmit(s)]]
  BY <1>1, <1>2, Domains, Zenon DEF netVars, locals
<1>7. QueueOK(s)'
  BY <1>1, <1>2, <1>3, <1>4, <1>6, Zenon DEF QueueOK, locals
<1>8. Counted(s)'
  BY <1>1, <1>4, CountedFrame, Zenon DEF OneWay, statVars, privVars
<1>9. TimeoutsCounted(s)'
  BY <1>1, <1>3, <1>4, Zenon DEF OneWay, TimeoutsCounted, statVars
<1> QED BY <1>3, <1>5, <1>7, <1>8, <1>9, Zenon DEF OneWay

(* The tests after the unlock.                                             *)
LEMMA OneWayTests ==
    ASSUME NEW s \in Dev, Typed, OneWay(s), ReleaseTests(Xmit(s)) \/ ReleaseReturn(Xmit(s))
    PROVE  OneWay(s)'
<1> DEFINE p == pkt[Xmit(s)]
<1>1. /\ pc[Xmit(s)] \in {"test_stopped", "test_next", "wake"}
      /\ UNCHANGED <<bufVars, privVars, statVars, link, napi, word, irqdev, sent, frees>>
  BY Zenon DEF ReleaseTests, ReleaseReturn, At, netVars, locals, histVars
<1>2. /\ pc[Wdog(s)] = "idle" /\ link[s] # "down"
      /\ p \in Packet /\ Owner(p) = s /\ irqdev[Xmit(s)] = Twin(s)
      /\ stopped[s] => nextNull[p]
  BY <1>1, Zenon DEF OneWay, Control, Words, QueueOK, Releasing
<1>3. AfterRelease(Xmit(s)) = "tx_load"
  BY <1>2, Domains, Zenon DEF AfterRelease, AfterIrq, Xmit
<1>4. \/ /\ pc' = [pc EXCEPT ![Xmit(s)] = "tx_load"] /\ ~stopped'[s]
         /\ stopped'[Twin(s)] = stopped[Twin(s)]
      \/ /\ pc' = [pc EXCEPT ![Xmit(s)] = "test_next"] /\ UNCHANGED <<stopped, pkt>>
      \/ /\ pc' = [pc EXCEPT ![Xmit(s)] = "wake"] /\ UNCHANGED <<stopped, pkt>>
  BY <1>2, <1>3, Domains, SMTT(30) DEF ReleaseTests, ReleaseReturn, StartQueue, At, Goto, netVars, locals
<1>5. /\ Control(s)' /\ pc'[Wdog(s)] = "idle"
      /\ pc'[Xmit(s)] \in {"tx_load", "test_next", "wake"}
      /\ pc'[Xmit(s)] = "tx_load" => ~stopped'[s]
      /\ pc'[Xmit(s)] # "tx_load" => UNCHANGED <<stopped, pkt>>
  BY <1>1, <1>2, <1>4, ControlXmit, Domains, Zenon DEF OneWay, Labels, privVars, statVars
<1>6. /\ ~InIrq(s, s)' /\ ~InIrq(s, Twin(s))' /\ ~Raising(s)' /\ Releasing(s)
      /\ Releasing(s)' <=> pc'[Xmit(s)] # "tx_load"
      /\ ~InIrq(s, s) /\ ~InIrq(s, Twin(s))
      /\ Pending(s) /\ Pending(s)'
  BY <1>1, <1>5, Zenon DEF InIrq, Raising, Releasing, Pending
<1>7. Words(s)'
  BY <1>1, <1>2, <1>5, <1>6, Zenon DEF OneWay, Words, privVars
<1>8. QueueOK(s)'
  BY <1>1, <1>2, <1>5, <1>6, Zenon DEF QueueOK, bufVars
<1>9. Counted(s)'
  BY <1>1, <1>6, CountedFrame, Zenon DEF OneWay, statVars, privVars
<1>10. TimeoutsCounted(s)'
  BY <1>1, <1>5, <1>6, Zenon DEF OneWay, TimeoutsCounted, statVars
<1> QED BY <1>5, <1>7, <1>8, <1>9, <1>10, Zenon DEF OneWay

(* The watchdog fires for a lost interrupt only, and frees the skb the     *)
(* handler did not see.                                                    *)
LEMMA OneWayWatchdog ==
    ASSUME ~UseNapi, NEW s \in Dev, Typed, OneWay(s), WatchdogStep(s) \/ HandlerStep(Wdog(s))
    PROVE  OneWay(s)'
<1> DEFINE w == Wdog(s)
<1>1. /\ pc[w] \in {"idle", "irq", "irq_body", "timeout_end"} /\ irqdev[w] = s
      /\ pc[Xmit(s)] = "idle" \/ pc[w] = "idle"
      /\ DOMAIN pc = Ctx /\ w \in Ctx /\ Xmit(s) \in Ctx /\ Xmit(s) # w
  BY Domains, Zenon DEF OneWay, Control
<1>2. AfterIrq(w) = "timeout_end"
  BY Zenon DEF AfterIrq, Wdog
<1>3. /\ pc[Xmit(s)] = "idle" /\ stopped[s] /\ sent[s] > 0 /\ link[s] # "down"
  <2>1. CASE pc[w] = "idle"
    <3>1. snull_tx_timeout(s)
      BY <2>1, Zenon DEF WatchdogStep, TimeoutEnd, HandlerStep, IrqEnter, snull_regular_interrupt,
         snull_napi_interrupt, snull_release_buffer, ReleaseTests, ReleaseReturn, Step, At
    <3>2. stopped[s] /\ pc[Xmit(s)] = "idle"
      BY <3>1, Zenon DEF snull_tx_timeout, TxLocked
    <3> QED BY <3>2, Zenon DEF OneWay, Counted, Control
  <2>2. CASE pc[w] # "idle"
    BY <1>1, <2>2, Zenon DEF OneWay, QueueOK, Counted, Control
  <2> QED BY Zenon, <2>1, <2>2
<1>4. \/ /\ pc[w] = "idle" /\ pc' = [pc EXCEPT ![w] = "irq"]
         /\ status' = [status EXCEPT ![s] = {"TX"}]
         /\ UNCHANGED <<word, stopped, tx_packets, tx_errors, frees>>
      \/ /\ pc[w] = "irq" /\ pc' = [pc EXCEPT ![w] = "irq_body"]
         /\ word' = [word EXCEPT ![w] = status[s]]
         /\ UNCHANGED <<status, stopped, tx_packets, tx_errors, frees>>
      \/ /\ pc[w] = "irq_body" /\ TxDone(w, s)
         /\ ReceiveOne(w, s) \/ ReceiveNone(w, s)
         /\ UNCHANGED <<stopped, tx_errors>>
      \/ /\ pc[w] = "timeout_end" /\ pc' = [pc EXCEPT ![w] = "idle"]
         /\ tx_errors' = [tx_errors EXCEPT ![s] = @ + 1]
         /\ stopped' = [stopped EXCEPT ![s] = FALSE]
         /\ UNCHANGED <<status, word, tx_packets, frees>>
  BY <1>1, <1>3, ZenonT(30) DEF WatchdogStep, snull_tx_timeout, TimeoutEnd, HandlerStep, IrqEnter, snull_regular_interrupt,
     snull_napi_interrupt, snull_release_buffer, ReleaseTests, ReleaseReturn, StartQueue, TxLocked, Step, At, Goto,
     privVars, statVars, netVars, locals, histVars
<1>5. UNCHANGED <<link, napi, rx_int_enabled, irqdev, sent, skb>>
  BY <1>1, Zenon DEF WatchdogStep, snull_tx_timeout, TimeoutEnd, HandlerStep, IrqEnter, snull_regular_interrupt,
     snull_napi_interrupt, snull_release_buffer, ReleaseTests, ReleaseReturn, StartQueue, Step, At,
     privVars, statVars, netVars, locals, histVars
<1> HIDE DEF w
<1>6. ASSUME NEW l \in {"idle", "irq", "irq_body", "timeout_end"},
             pc' = [pc EXCEPT ![w] = l],
             stopped'[Twin(s)] = stopped[Twin(s)], tx_errors'[Twin(s)] = tx_errors[Twin(s)]
      PROVE  /\ Control(s)' /\ pc'[w] = l /\ pc'[Xmit(s)] = "idle"
             /\ ~InIrq(s, s)' /\ ~InIrq(s, Twin(s))' /\ ~Raising(s)' /\ ~Releasing(s)'
             /\ Pending(s)' <=> stopped'[s] /\ l # "timeout_end"
             /\ ~InIrq(s, s) /\ ~InIrq(s, Twin(s)) 
             /\ Pending(s) <=> pc[w] # "timeout_end"
  <2>1. pc'[w] = l /\ pc'[Xmit(s)] = "idle" /\ \A c \in Ctx \ {Xmit(s), w} : pc'[c] = pc[c]
    BY Zenon, <1>1, <1>3, <1>6
  <2>2. Control(s)'
    BY <1>3, <1>5, <1>6, <2>1, ZenonT(30) DEF OneWay, Control, w
  <2> QED BY <1>3, <2>1, <2>2, Zenon DEF InIrq, Raising, Releasing, Pending, w
<1>7. CASE pc[w] = "idle"
  <2>1. /\ pc' = [pc EXCEPT ![w] = "irq"] /\ status' = [status EXCEPT ![s] = {"TX"}]
        /\ UNCHANGED <<word, stopped, tx_packets, tx_errors, frees>>
    BY Zenon, <1>4, <1>7
  <2>2. Control(s)' /\ Pending(s) /\ Pending(s)' /\ pc'[w] = "irq" /\ pc'[Xmit(s)] = "idle"
    BY Zenon, <1>3, <1>6, <1>7, <2>1
  <2>3. Words(s)'
    BY <1>6, <2>1, <2>2, Domains, Zenon DEF OneWay, Words, w
  <2>4. QueueOK(s)'
    BY <1>3, <1>6, <2>1, <2>2, Zenon DEF QueueOK
  <2>5. Counted(s)'
    BY <1>3, <1>5, <2>1, <2>2, CountedFrame, Zenon DEF OneWay
  <2>6. TimeoutsCounted(s)'
    BY <1>3, <1>5, <1>6, <2>1, <2>2, Zenon DEF OneWay, TimeoutsCounted
  <2> QED BY <2>2, <2>3, <2>4, <2>5, <2>6, Zenon DEF OneWay
<1>8. CASE pc[w] = "irq"
  <2>1. /\ pc' = [pc EXCEPT ![w] = "irq_body"] /\ word' = [word EXCEPT ![w] = status[s]]
        /\ UNCHANGED <<status, stopped, tx_packets, tx_errors, frees>>
    BY Zenon, <1>4, <1>8
  <2>2. Control(s)' /\ Pending(s) /\ Pending(s)' /\ pc'[w] = "irq_body" /\ pc'[Xmit(s)] = "idle"
    BY Zenon, <1>3, <1>6, <1>8, <2>1
  <2>3. status[s] = {"TX"} /\ status[Twin(s)] = {}
    BY <1>3, <1>6, <2>1, <2>2, Zenon DEF OneWay, Words
  <2>4. Words(s)'
    BY <1>1, <1>6, <2>1, <2>2, <2>3, Domains, Zenon DEF Words, w
  <2>5. QueueOK(s)'
    BY <1>3, <1>6, <2>1, <2>2, Zenon DEF QueueOK
  <2>6. Counted(s)'
    BY <1>3, <1>5, <2>1, <2>2, CountedFrame, Zenon DEF OneWay
  <2>7. TimeoutsCounted(s)'
    BY <1>3, <1>5, <1>6, <2>1, <2>2, Zenon DEF OneWay, TimeoutsCounted
  <2> QED BY <2>2, <2>4, <2>5, <2>6, <2>7, Zenon DEF OneWay
<1>9. CASE pc[w] = "irq_body"
  <2>1. word[w] = {"TX"} /\ status[Twin(s)] = {}
    BY <1>3, <1>9, Zenon DEF OneWay, Words, w, InIrq
  <2>2. /\ pc' = [pc EXCEPT ![w] = "timeout_end"]
        /\ tx_packets' = [tx_packets EXCEPT ![s] = @ + 1]
        /\ frees' = [frees EXCEPT ![s][skb[s]] = @ + 1]
        /\ status' = [status EXCEPT ![s] = {}]
        /\ UNCHANGED <<stopped, tx_errors>>
    BY <1>2, <1>4, <1>9, <2>1, Zenon DEF TxDone, ReceiveOne, ReceiveNone, Goto
  <2>3. Control(s)' /\ Pending(s) /\ ~Pending(s)' /\ pc'[w] = "timeout_end" /\ pc'[Xmit(s)] = "idle"
    BY Zenon, <1>3, <1>6, <1>9, <2>2
  <2>4. Words(s)'
    BY <1>6, <2>1, <2>2, <2>3, Domains, Zenon DEF Words, w
  <2>5. QueueOK(s)'
    BY <1>3, <1>6, <2>2, <2>3, Zenon DEF QueueOK
  <2>6. Counted(s)'
    BY <1>3, <1>5, <2>2, <2>3, CountedDone, Zenon DEF OneWay
  <2>7. TimeoutsCounted(s)'
    BY <1>3, <1>5, <1>6, <2>2, <2>3, Zenon DEF OneWay, TimeoutsCounted
  <2> QED BY <2>3, <2>4, <2>5, <2>6, <2>7, Zenon DEF OneWay
<1>10. CASE pc[w] = "timeout_end"
  <2>1. /\ pc' = [pc EXCEPT ![w] = "idle"] /\ tx_errors' = [tx_errors EXCEPT ![s] = @ + 1]
        /\ stopped' = [stopped EXCEPT ![s] = FALSE]
        /\ UNCHANGED <<status, word, tx_packets, frees>>
    BY Zenon, <1>4, <1>10
  <2>2. /\ ~stopped'[s] /\ stopped'[Twin(s)] = stopped[Twin(s)]
        /\ tx_errors'[s] = tx_errors[s] + 1 /\ tx_errors'[Twin(s)] = tx_errors[Twin(s)]
    BY Zenon, <2>1, Domains
  <2>3. Control(s)' /\ ~Pending(s) /\ ~Pending(s)' /\ pc'[w] = "idle" /\ pc'[Xmit(s)] = "idle"
    BY Zenon, <1>3, <1>6, <1>10, <2>1, <2>2
  <2>4. Words(s)'
    BY <1>3, <1>6, <2>1, <2>2, <2>3, Domains, Zenon DEF OneWay, Words, w
  <2>5. QueueOK(s)'
    BY <1>6, <2>1, <2>2, <2>3, Zenon DEF QueueOK, w
  <2>6. Counted(s)'
    BY <1>3, <1>5, <2>1, <2>2, <2>3, CountedFrame, Zenon DEF OneWay
  <2>7. TimeoutsCounted(s)'
    <3> SUFFICES ASSUME Lockup > 0 PROVE tx_errors'[s] = sent'[s] \div Lockup
      BY <1>6, <2>1, <2>2, <2>3, Zenon DEF TimeoutsCounted
    <3>1. sent[s] % Lockup = 0 /\ tx_errors[s] = (sent[s] - 1) \div Lockup
      BY <1>3, Zenon DEF OneWay, TimeoutsCounted
    <3> QED BY Zenon, <1>3, <1>5, <2>2, <3>1, LockupCount, Domains
  <2> QED BY <2>3, <2>4, <2>5, <2>6, <2>7, Zenon DEF OneWay
<1> QED BY Zenon, <1>1, <1>7, <1>8, <1>9, <1>10

(* Every step keeps the one-way invariant.                                 *)
LEMMA OneWayNext ==
    ASSUME ~UseNapi, MaxCloses = 0, NEW s \in Dev, Senders = {s},
           Typed, OneWay(s), [Next]_vars
    PROVE  OneWay(s)'
<1>1. CASE UNCHANGED vars
  <2>1. UNCHANGED <<pc, irqdev, napi, rx_int_enabled, link, stopped, sent, tx_errors, status,
                    word, rx_queue, ppool, pkt, nextNull, skb, tx_packets, frees>>
    BY <1>1, Zenon DEF vars, bufVars, privVars, statVars, netVars, locals, histVars
  <2>2. Control(s)' /\ Words(s)' /\ QueueOK(s)'
    BY <2>1, Zenon DEF OneWay, Control, Words, QueueOK, InIrq, Raising, Releasing, Pending
  <2>3. Counted(s)' /\ TimeoutsCounted(s)'
    BY <2>1, Zenon DEF OneWay, Counted, TimeoutsCounted, InIrq, Pending
  <2> QED BY <2>2, <2>3, Zenon DEF OneWay
<1>2. CASE Next
  <2>1. \/ \E d \in Dev : snull_open(d)
        \/ snull_tx(s) \/ XmitStep(s) \/ WatchdogStep(s)
        \/ HandlerStep(Xmit(s)) \/ HandlerStep(Wdog(s))
        \/ UNCHANGED vars
    BY <1>2, OneWayActions, Zenon DEF OneWay
  <2>2. CASE XmitStep(s)
    BY <2>2, OneWaySend, OneWayRaise, OneWayLockup, Zenon DEF XmitStep
  <2>3. CASE HandlerStep(Xmit(s))
    <3>1. irqdev[Xmit(s)] = s \/ irqdev[Xmit(s)] = Twin(s)
      BY Contexts, Zenon DEF Typed, TypeOK, CtxTypes, Dev, Twin
    <3>2. ~snull_napi_interrupt(Xmit(s))
      BY Zenon DEF snull_napi_interrupt
    <3> QED BY Zenon, <2>3, <3>1, <3>2, OneWayEnter, OneWayReceive, OneWayDone, OneWayRelease, OneWayTests
            DEF HandlerStep
  <2> QED BY Zenon, <1>1, <2>1, <2>2, <2>3, OneWayOpen, OneWayTx, OneWayWatchdog
<1> QED BY ZenonT(30), <1>1, <1>2

(* Both modules are loaded and nothing has been sent.                      *)
LEMMA OneWayInit ==
    ASSUME NEW s \in Dev, Init
    PROVE  OneWay(s)
<1>1. /\ Xmit(s) \in Ctx /\ Wdog(s) \in Ctx /\ Twin(s) \in Dev /\ Wdog(s)[2] = s
  BY Contexts, Twins, Zenon DEF Wdog
<1>2. /\ \A c \in Ctx : pc[c] = "idle" /\ irqdev[c] = c[2]
      /\ \A d \in Dev : /\ napi[d] = "off" /\ rx_int_enabled[d] /\ link[d] = "down"
                        /\ ~stopped[d] /\ sent[d] = 0 /\ tx_errors[d] = 0
                        /\ status[d] = {} /\ skb[d] = 0 /\ tx_packets[d] = 0
                        /\ \A n \in 1..MaxTx : frees[d][n] = 0
  BY Zenon DEF Init
<1>3. Control(s) /\ Words(s) /\ QueueOK(s) /\ ~Pending(s)
  BY <1>1, <1>2, ZenonT(30) DEF Control, Words, QueueOK, InIrq, Raising, Releasing, Pending
<1>4. Counted(s)
  <2>1. /\ pc[Xmit(s)] = "idle" /\ ~stopped[s] /\ sent[s] = 0
        /\ skb[s] = sent[s] /\ tx_packets[s] = sent[s]
        /\ \A n \in 1..MaxTx : frees[s][n] = 0
    BY <1>1, <1>2, Zenon
  <2>2. \A n \in 1..MaxTx : ~(n < sent[s]) /\ n # sent[s]
    BY <2>1, BoundAssumption
  <2> QED BY <1>3, <2>1, <2>2, Zenon DEF Counted
<1>5. TimeoutsCounted(s)
  <2>1. Lockup > 0 => 0 \div Lockup = 0
    BY ParamAssumption
  <2> QED BY <1>1, <1>2, <2>1, Zenon DEF TimeoutsCounted, InIrq
<1> QED BY <1>3, <1>4, <1>5, Zenon DEF OneWay

(* The invariant holds throughout.                                         *)
LEMMA OneWayAlways ==
    ASSUME ~UseNapi, MaxCloses = 0, NEW s \in Dev, Senders = {s}
    PROVE  Spec => [](Typed /\ OneWay(s))
<1>1. Init => Typed /\ OneWay(s)
  BY Zenon, TypedInit, OneWayInit
<1>2. Typed /\ OneWay(s) /\ [Next]_vars => (Typed /\ OneWay(s))'
  BY Zenon, TypedNext, OneWayNext
<1> QED BY <1>1, <1>2, PTL DEF Spec

(* Every skb is freed exactly once, by snull_regular_interrupt or, after a *)
(* lost interrupt, by the watchdog's call of it, as long as one device     *)
(* sends and none is closed.  Otherwise a watchdog that fires on a queue   *)
(* stopped for want of buffers frees the last skb again, and an interface  *)
(* closed before its watchdog fires forgets the skb it remembered.         *)
THEOREM SkbAccounting ==
    ASSUME ~UseNapi, MaxCloses = 0, NEW s \in Dev, Senders = {s}
    PROVE  Spec => []SkbsAccounted
<1>1. Typed /\ OneWay(s) => SkbsAccounted
  <2> SUFFICES ASSUME Typed, OneWay(s), NEW d \in Dev, ~TxLocked(d), NEW n \in 1..sent[d]
               PROVE  \/ frees[d][n] = 1
                      \/ n = sent[d] /\ frees[d][n] = 0 /\ stopped[d]
    BY Zenon DEF SkbsAccounted
  <2>1. d = s \/ d = Twin(s)
    BY Zenon DEF Dev, Twin
  <2>2. d = s
    <3>1. sent[Twin(s)] = 0
      BY Zenon DEF OneWay, Control
    <3> QED BY <2>1, <3>1
  <2>3. n \in 1..MaxTx /\ n <= sent[s] /\ sent[s] \in Nat
    BY <2>2, Domains, BoundAssumption
  <2>4. frees[s][n] = IF n < sent[s] \/ (n = sent[s] /\ ~Pending(s)) THEN 1 ELSE 0
    BY <2>3, Zenon DEF OneWay, Counted
  <2>5. Pending(s) => stopped[s]
    BY <2>2, Zenon DEF TxLocked, Pending
  <2>6. n < sent[s] \/ n = sent[s]
    BY <2>3
  <2> QED BY <2>2, <2>4, <2>5, <2>6, Zenon
<1> QED BY <1>1, OneWayAlways, PTL

(* The watchdog recovers the simulated lockups and nothing else: whenever  *)
(* the one sender is idle, tx_errors and the lockup being recovered add up *)
(* to the number of frames that Lockup divides.                            *)
THEOREM LockupsOnly ==
    ASSUME ~UseNapi, MaxCloses = 0, NEW s \in Dev, Senders = {s}
    PROVE  Spec => []TimeoutsAreLockups
<1>1. Typed /\ OneWay(s) => TimeoutsAreLockups
  <2> SUFFICES ASSUME Typed, OneWay(s), NEW d \in Dev, Lockup > 0, ~TxLocked(d)
               PROVE  tx_errors[d] + (IF stopped[d] THEN 1 ELSE 0) = sent[d] \div Lockup
    BY Zenon DEF TimeoutsAreLockups
  <2>1. CASE d = s
    <3>1. /\ sent[s] \in Nat /\ tx_errors[s] \in Nat /\ pc[Xmit(s)] = "idle"
          /\ stopped[s] => sent[s] > 0
      BY <2>1, Domains, Zenon DEF TxLocked, OneWay, Counted
    <3>2. /\ tx_errors[s] = (IF stopped[s] THEN sent[s] - 1 ELSE sent[s]) \div Lockup
          /\ stopped[s] => sent[s] % Lockup = 0
      BY <3>1, Zenon DEF OneWay, TimeoutsCounted
    <3> QED BY SMTT(30), <2>1, <3>1, <3>2, LockupCount
  <2>2. CASE d = Twin(s)
    <3>1. ~stopped[d] /\ sent[d] = 0 /\ tx_errors[d] = 0
      BY <2>2, Zenon DEF OneWay, Control
    <3> QED BY SMTT(30), <3>1, ParamAssumption
  <2> QED BY <2>1, <2>2, Zenon DEF Dev, Twin
<1> QED BY <1>1, OneWayAlways, PTL


-----------------------------------------------------------------------------
(* The empty pool                                                          *)

(* As long as nobody started the queue of d on an empty pool, a running    *)
(* queue and a transmitter on its way to the pool have a buffer there.     *)
Supplied(d) ==
    ~blind[d] =>
       /\ pc[Xmit(d)] # "oops"
       /\ (link[d] = "up" /\ ~stopped[d]) \/ pc[Xmit(d)] = "get" => ppool[d] # <<>>

(* Nobody but the transmitter of d takes from its pool, and it stops the   *)
(* queue with the last buffer.                                             *)
LEMMA SuppliedNext ==
    ASSUME Typed, NEW d \in Dev, Supplied(d), [Next]_vars
    PROVE  Supplied(d)'
<1>0. /\ DOMAIN pc = Ctx /\ DOMAIN stopped = Dev /\ DOMAIN ppool = Dev
      /\ DOMAIN link = Dev /\ DOMAIN blind = Dev
      /\ Xmit(d) \in Ctx
  BY Contexts, Zenon DEF Typed, TypeOK, BufTypes, NetTypes, CtxTypes, HistTypes
<1>1. ASSUME UNCHANGED <<stopped, blind, link>>,
             ppool'[d] = ppool[d] \/ ppool'[d] # <<>>,
             pc'[Xmit(d)] = pc[Xmit(d)] \/ pc'[Xmit(d)] \notin {"get", "oops"}
      PROVE  Supplied(d)'
  BY <1>1, Zenon DEF Supplied
<1>2. ASSUME NEW e \in Dev, StartQueue(e), UNCHANGED ppool,
             link'[d] = link[d] \/ e = d,
             pc'[Xmit(d)] = pc[Xmit(d)] \/ pc'[Xmit(d)] \notin {"get", "oops"}
      PROVE  Supplied(d)'
  <2>1. CASE e = d
    BY <1>0, <1>2, <2>1, Zenon DEF Supplied, StartQueue
  <2>2. CASE e # d
    BY <1>0, <1>2, <2>2, Zenon DEF Supplied, StartQueue
  <2> QED BY Zenon, <2>1, <2>2
<1>3. ASSUME NEW e \in Dev, snull_open(e) \/ snull_release(e) \/ napi_disable(e)
      PROVE  Supplied(d)'
  <2>1. CASE snull_open(e)
    BY <1>0, <1>2, <2>1, Zenon DEF snull_open, bufVars
  <2>2. CASE snull_release(e)
    BY <1>0, <2>2, Zenon DEF snull_release, Supplied, bufVars
  <2>3. CASE napi_disable(e)
    BY <1>0, <2>3, Zenon DEF napi_disable, Supplied, bufVars, histVars
  <2> QED BY Zenon, <1>3, <2>1, <2>2, <2>3
<1>4. ASSUME NEW e \in Dev, snull_tx(e)
      PROVE  Supplied(d)'
  <2>1. CASE e = d
    BY <1>0, <1>4, <2>1, Zenon DEF snull_tx, Supplied, Goto, bufVars, netVars
  <2>2. CASE e # d
    <3>1. Xmit(e) # Xmit(d)
      BY <2>2, Zenon DEF Xmit
    <3> QED BY <1>0, <1>1, <1>4, <3>1, Zenon DEF snull_tx, Goto, bufVars, netVars
  <2> QED BY <2>1, <2>2
<1>5. ASSUME NEW e \in Dev, snull_get_tx_buffer(e) \/ PoolEmptyOops(e)
      PROVE  Supplied(d)'
  <2>1. CASE e = d
    BY <1>0, <1>5, <2>1, Zenon DEF snull_get_tx_buffer, PoolEmptyOops, LastBuffer, Supplied,
       Step, At, Goto, bufVars, netVars, histVars
  <2>2. CASE e # d
    <3>1. Xmit(e) # Xmit(d)
      BY <2>2 DEF Xmit
    <3> QED BY <1>0, <1>5, <2>2, <3>1, Zenon DEF snull_get_tx_buffer, PoolEmptyOops, Supplied,
            Step, Goto, bufVars, netVars, histVars
  <2> QED BY <2>1, <2>2
<1>6. ASSUME NEW e \in Dev, snull_enqueue_buf(e) \/ HwTxRxEnabled(e) \/ HwTxRaise(e)
      PROVE  Supplied(d)'
  <2>1. /\ UNCHANGED <<stopped, blind, link, ppool>>
        /\ \E l \in Labels \ {"get", "oops"} : pc' = [pc EXCEPT ![Xmit(e)] = l]
    BY <1>6, Zenon DEF snull_enqueue_buf, HwTxRxEnabled, HwTxRaise, HwTxLoad, HwTxStore,
       Step, Goto, Labels, bufVars, netVars, histVars
  <2> QED BY Zenon, <1>0, <1>1, <2>1
<1>7. ASSUME NEW e \in Dev, HwTxLockup(e)
      PROVE  Supplied(d)'
  <2>1. /\ UNCHANGED <<blind, link, ppool>>
        /\ \E l \in Labels \ {"get", "oops"} : pc' = [pc EXCEPT ![Xmit(e)] = l]
        /\ stopped'[d] = stopped[d] \/ stopped'[d] = TRUE
    BY <1>0, <1>7, Zenon DEF HwTxLockup, StopQueue, SimulateLockup, AfterLockup,
       Step, Goto, Labels, bufVars, netVars, histVars, Typed, TypeOK, NetTypes
  <2> QED BY <1>0, <2>1, Zenon DEF Supplied
<1>8. ASSUME NEW e \in Dev, WatchdogStep(e)
      PROVE  Supplied(d)'
  <2>1. Wdog(e) # Xmit(d)
    BY Zenon DEF Wdog, Xmit
  <2>2. CASE snull_tx_timeout(e)
    BY <1>0, <1>1, <2>1, <2>2, Zenon DEF snull_tx_timeout, Goto, bufVars, netVars, histVars
  <2>3. CASE TimeoutEnd(e)
    BY <1>0, <1>2, <2>1, <2>3, Zenon DEF TimeoutEnd, Step, Goto, bufVars
  <2> QED BY <1>8, <2>2, <2>3, Zenon DEF WatchdogStep
<1>9. ASSUME NEW e \in Dev, PollStep(e)
      PROVE  Supplied(d)'
  <2>1. Poll(e) # Xmit(d)
    BY Zenon DEF Poll, Xmit
  <2>2. /\ UNCHANGED <<stopped, blind, link, ppool>>
        /\ \E l \in Labels : pc' = [pc EXCEPT ![Poll(e)] = l]
    BY <1>9, Zenon DEF PollStep, snull_poll, snull_dequeue_buf, PollComplete, PollEnableInts,
       Step, Goto, Labels, bufVars, netVars, histVars
  <2> QED BY Zenon, <1>0, <1>1, <2>1, <2>2
<1>10. ASSUME NEW c \in Ctx, HandlerStep(c)
       PROVE  Supplied(d)'
  <2>1. /\ AfterIrq(c) \in {"timeout_end", "tx_load", "idle"}
        /\ AfterRelease(c) \in {"timeout_end", "tx_load", "idle", "poll"}
    BY Zenon DEF AfterIrq, AfterRelease
  <2>2. CASE IrqEnter(c) \/ snull_regular_interrupt(c) \/ snull_napi_interrupt(c) \/ ReleaseTests(c)
    <3>1. /\ UNCHANGED <<stopped, blind, link, ppool>>
          /\ \E l \in Labels \ {"get", "oops"} : pc' = [pc EXCEPT ![c] = l]
      BY <2>1, <2>2, Zenon DEF IrqEnter, snull_regular_interrupt, snull_napi_interrupt, ReleaseTests,
         ReceiveOne, ReceiveNone,
         Step, Goto, Labels, bufVars, netVars, histVars
    <3> QED BY Zenon, <1>0, <1>1, <3>1
  <2>3. CASE snull_release_buffer(c)
    <3>1. /\ pkt[c] \in Packet /\ ReleasePool(pkt[c]) \in Dev
          /\ ppool[ReleasePool(pkt[c])] \in Seq(Packet)
      BY <2>3, Owners, Zenon DEF snull_release_buffer, Step, At, Typed, TypeOK, HandsFull, BufTypes, ReleasePool
    <3>2. <<pkt[c]>> \o ppool[ReleasePool(pkt[c])] # <<>>
      BY <3>1
    <3>3. /\ UNCHANGED <<stopped, blind, link>> /\ pc' = [pc EXCEPT ![c] = "test_stopped"]
          /\ ppool' = [ppool EXCEPT ![ReleasePool(pkt[c])] = <<pkt[c]>> \o ppool[ReleasePool(pkt[c])]]
      BY <2>3, Zenon DEF snull_release_buffer, Step, Goto, netVars, histVars
    <3> QED BY Zenon, <1>0, <1>1, <3>2, <3>3
  <2>4. CASE ReleaseReturn(c)
    <3>1. /\ UNCHANGED <<ppool, link>> /\ pc' = [pc EXCEPT ![c] = AfterRelease(c)]
          /\ UNCHANGED <<stopped, blind>> \/ StartQueue(Owner(pkt[c]))
      BY <2>4, Zenon DEF ReleaseReturn, Goto, bufVars
    <3>2. pc'[Xmit(d)] = pc[Xmit(d)] \/ pc'[Xmit(d)] \notin {"get", "oops"}
      BY Zenon, <1>0, <2>1, <3>1
    <3>3. CASE StartQueue(Owner(pkt[c]))
      <4>1. CASE Owner(pkt[c]) \in Dev
        BY Zenon, <1>2, <3>1, <3>2, <3>3, <4>1
      <4>2. CASE Owner(pkt[c]) \notin Dev
        BY <1>0, <1>1, <3>1, <3>2, <3>3, <4>2, Zenon DEF StartQueue, Supplied
      <4> QED BY Zenon, <4>1, <4>2
    <3> QED BY Zenon, <1>1, <3>1, <3>2, <3>3
  <2> QED BY <1>10, <2>2, <2>3, <2>4, Zenon DEF HandlerStep
<1>11. CASE UNCHANGED vars
  BY <1>1, <1>11, Zenon DEF vars, bufVars, netVars, histVars
<1> QED BY <1>3, <1>4, <1>5, <1>6, <1>7, <1>8, <1>9, <1>10, <1>11, Zenon DEF Next, XmitStep, Rest

(* snull_get_tx_buffer dereferences an empty pool only after the queue was *)
(* started on one, for every pool size (that of a failed snull_setup_pool  *)
(* included), both handlers and any number of frames, opens and timeouts.  *)
THEOREM Exhaustion == Spec => []ExhaustedOnlyAfterRestart
<1> DEFINE I == Typed /\ \A d \in Dev : Supplied(d)
<1>1. Init => I
  <2> SUFFICES ASSUME Init, NEW d \in Dev PROVE Supplied(d)
    BY Zenon, TypedInit
  <2> QED BY Contexts, Zenon DEF Init, Supplied
<1>2. I /\ [Next]_vars => I'
  BY TypedNext, SuppliedNext, Zenon
<1>3. I => ExhaustedOnlyAfterRestart
  BY Zenon DEF Supplied, ExhaustedOnlyAfterRestart
<1> QED BY <1>1, <1>2, <1>3, PTL DEF Spec

-----------------------------------------------------------------------------
(* Every frame once                                                        *)

(* The frames of e that have been given to its twin.                       *)
Queued(e) == IF pc[Xmit(e)] \in {"get", "enqueue"} THEN sent[e] - 1 ELSE sent[e]

(* Frames delivered and frames waiting are different frames, each of which *)
(* was transmitted; the one still in its transmitter's hands is not among  *)
(* them.                                                                   *)
Fresh(d) ==
    /\ IsInjective(delivered[d])
    /\ \A n \in Range(delivered[d]) : n \in 1..Queued(Twin(d))
    /\ \A p \in Range(rx_queue[d]) : /\ data[p] \in 1..Queued(Twin(d))
                                     /\ data[p] \notin Range(delivered[d])
    /\ \A p, q \in Range(rx_queue[d]) : data[p] = data[q] => p = q

Begun(e) == pc[Xmit(e)] \in {"get", "enqueue"} => sent[e] > 0

FreshInv == Conserved /\ \A d \in Dev : Fresh(d) /\ Begun(d)

(* A step that moves no frame.                                             *)
LEMMA FreshFrame ==
    ASSUME FreshInv, NEW d \in Dev,
           UNCHANGED <<rx_queue, data, delivered>>, Queued(Twin(d))' = Queued(Twin(d))
    PROVE  Fresh(d)'
BY Zenon DEF FreshInv, Fresh

(* The log of the frames delivered grows by one.                           *)
LEMMA AppendFrame ==
    ASSUME NEW S, NEW s \in Seq(S), NEW n \in S, IsInjective(s)
    PROVE  /\ Range(Append(s, n)) = Range(s) \cup {n}
           /\ n \notin Range(s) => IsInjective(Append(s, n))
BY LinkTailProperties

(* Taking a frame off the queue, to the stack or nowhere.                  *)
LEMMA FreshPop ==
    ASSUME FreshInv, NEW d \in Dev, NEW e \in Dev, rx_queue[e] # <<>>,
           rx_queue' = [rx_queue EXCEPT ![e] = Tail(@)],
           NEW ok \in BOOLEAN, snull_rx(e, Head(rx_queue[e]), ok),
           UNCHANGED <<data, sent>>,
           pc'[Xmit(Twin(d))] \in {"get", "enqueue"} <=> pc[Xmit(Twin(d))] \in {"get", "enqueue"}
    PROVE  Fresh(d)'
<1>1. /\ rx_queue \in [Dev -> Seq(Packet)] /\ delivered \in [Dev -> Seq(0..MaxTx)]
      /\ data \in [Packet -> 0..MaxTx]
      /\ IsInjective(rx_queue[e]) /\ Fresh(d)
  BY Zenon DEF FreshInv, Conserved, Typed, TypeOK, BufTypes, HistTypes, BuffersConserved, ListsWellFormed
<1>2. Queued(Twin(d))' = Queued(Twin(d))
  BY Zenon DEF Queued
<1>3. CASE e # d
  <2>1. rx_queue'[d] = rx_queue[d] /\ delivered'[d] = delivered[d]
    BY <1>1, <1>3, Zenon DEF snull_rx
  <2> QED BY <1>1, <1>2, <2>1, Zenon DEF Fresh
<1>4. CASE e = d
  <2> DEFINE p == Head(rx_queue[d])
             s == Tail(rx_queue[d])
  <2>1. /\ p \in Packet /\ p \notin Range(s)
        /\ Range(rx_queue[d]) = Range(s) \cup {p}
    BY <1>1, <1>4, PopProperties
  <2>2. rx_queue'[d] = s
    BY Zenon, <1>1, <1>4
  <2>3. data[p] \in 0..MaxTx
    BY Zenon, <1>1, <2>1
  <2>4. \/ delivered'[d] = delivered[d]
        \/ delivered'[d] = Append(delivered[d], data[p])
    BY <1>1, <1>4, Zenon DEF snull_rx
  <2> HIDE DEF p, s
  <2>5. delivered[d] \in Seq(0..MaxTx) /\ IsInjective(delivered[d])
    BY <1>1, Zenon DEF Fresh
  <2>6. /\ Range(Append(delivered[d], data[p])) = Range(delivered[d]) \cup {data[p]}
        /\ data[p] \notin Range(delivered[d]) => IsInjective(Append(delivered[d], data[p]))
    BY <2>3, <2>5, AppendFrame, Zenon
  <2>7. CASE delivered'[d] = delivered[d]
    BY <1>1, <1>2, <2>1, <2>2, <2>7, Zenon DEF Fresh
  <2>8. CASE delivered'[d] = Append(delivered[d], data[p])
    <3>1. \A q \in Range(s) : data[q] # data[p]
      BY <1>1, <2>1, Zenon DEF Fresh
    <3>2. p \in Range(rx_queue[d]) /\ Range(s) \subseteq Range(rx_queue[d])
      BY Zenon, <2>1
    <3>3. data[p] \in 1..Queued(Twin(d)) /\ data[p] \notin Range(delivered[d])
      BY <1>1, <3>2, Zenon DEF Fresh
    <3>4. /\ IsInjective(delivered'[d])
          /\ Range(delivered'[d]) = Range(delivered[d]) \cup {data[p]}
      BY Zenon, <2>3, <2>6, <2>8, <3>3
    <3> QED BY <1>1, <1>2, <2>2, <3>1, <3>2, <3>3, <3>4, Zenon DEF Fresh
  <2> QED BY Zenon, <2>4, <2>7, <2>8
<1> QED BY Zenon, <1>3, <1>4

(* The transmitter of the twin puts its frame on the queue.                *)
LEMMA FreshEnqueue ==
    ASSUME FreshInv, NEW d \in Dev, NEW e \in Dev, snull_enqueue_buf(e)
    PROVE  Fresh(d)'
<1> DEFINE p == pkt[Xmit(e)]
<1>1. /\ rx_queue \in [Dev -> Seq(Packet)]
      /\ data \in [Packet -> 0..MaxTx] /\ sent \in [Dev -> 0..MaxTx]
      /\ DOMAIN pc = Ctx /\ Xmit(e) \in Ctx /\ Xmit(Twin(d)) \in Ctx
      /\ pc[Xmit(e)] = "enqueue" /\ p \in Packet /\ Owner(p) = e
      /\ Fresh(d) /\ sent[e] > 0
  BY Contexts, Twins, Zenon DEF FreshInv, Conserved, Typed, TypeOK, BufTypes, HistTypes, CtxTypes, HandsFull, Begun,
     snull_enqueue_buf, Step, At
<1>2. /\ rx_queue' = [rx_queue EXCEPT ![Twin(e)] = <<p>> \o rx_queue[Twin(e)]]
      /\ data' = [data EXCEPT ![p] = sent[e]]
      /\ pc' = [pc EXCEPT ![Xmit(e)] = "rx_enabled"]
      /\ UNCHANGED <<delivered, sent>>
  BY Zenon DEF snull_enqueue_buf, FillBuffer, Step, Goto, histVars
<1>3. \A f \in Dev : p \notin Range(rx_queue[f])
  <2>1. ~InFlight(p) /\ ListsWellFormed
    BY <1>1, Zenon DEF FreshInv, Conserved, BuffersConserved, OnePlace, Holds
  <2>2. ASSUME NEW f \in Dev, p \in Range(rx_queue[f]) PROVE FALSE
    <3>1. Owner(p) = Twin(f)
      BY <2>1, <2>2, Zenon DEF ListsWellFormed
    <3> QED BY <2>1, <2>2, <3>1, Twins, Zenon DEF InFlight
  <2> QED BY Zenon, <2>2
<1> HIDE DEF p
<1>4. \A q \in Range(rx_queue[d]) : q \in Packet
  BY <1>1 DEF Range
<1>5. \A q \in Range(rx_queue[d]) : data'[q] = data[q]
  BY Zenon, <1>1, <1>2, <1>3, <1>4
<1>6. CASE Twin(e) # d
  <2>1. rx_queue'[d] = rx_queue[d]
    BY Zenon, <1>1, <1>2, <1>6
  <2>2. Xmit(Twin(d)) # Xmit(e)
    BY <1>6, Twins, Zenon DEF Xmit
  <2>3. Queued(Twin(d))' = Queued(Twin(d))
    BY <1>1, <1>2, <2>2, Zenon DEF Queued
  <2> QED BY <1>1, <1>2, <1>5, <2>1, <2>3 DEF Fresh
<1>7. CASE Twin(e) = d
  <2>1. Twin(d) = e /\ d \in Dev /\ rx_queue[d] \in Seq(Packet)
    BY Zenon, <1>1, <1>7, Twins
  <2>2. /\ rx_queue'[d] = <<p>> \o rx_queue[d]
        /\ Range(<<p>> \o rx_queue[d]) = Range(rx_queue[d]) \cup {p}
    BY <1>1, <1>2, <1>7, <2>1, PushProperties
  <2>3. Queued(e) = sent[e] - 1 /\ Queued(e)' = sent[e] /\ data'[p] = sent[e]
    BY <1>1, <1>2, Zenon DEF Queued
  <2>4. sent[e] \in Nat /\ sent[e] > 0
    BY <1>1, BoundAssumption
  <2>5. \A n \in 1..(sent[e] - 1) : n \in 1..sent[e] /\ n # sent[e]
    BY <2>4
  <2>6. sent[e] \in 1..sent[e]
    BY <2>4
  <2>7. /\ IsInjective(delivered[d])
        /\ \A n \in Range(delivered[d]) : n \in 1..(sent[e] - 1)
        /\ \A q \in Range(rx_queue[d]) : data[q] \in 1..(sent[e] - 1) /\ data[q] \notin Range(delivered[d])
        /\ \A q, r \in Range(rx_queue[d]) : data[q] = data[r] => q = r
    BY <1>1, <2>1, <2>3, Zenon DEF Fresh
  <2>8. /\ \A q \in Range(rx_queue[d]) \cup {p} : data'[q] \in 1..sent[e] /\ data'[q] \notin Range(delivered[d])
        /\ \A q, r \in Range(rx_queue[d]) \cup {p} : data'[q] = data'[r] => q = r
    BY Zenon, <1>5, <2>3, <2>5, <2>6, <2>7
  <2> QED BY <1>2, <2>1, <2>2, <2>3, <2>5, <2>7, <2>8, Zenon DEF Fresh
<1> QED BY Zenon, <1>6, <1>7

(* The transmitter's own steps aside, nothing changes what it has queued.  *)
LEMMA FreshNext == FreshInv /\ [Next]_vars => \A d \in Dev : Fresh(d)' /\ Begun(d)'
<1> SUFFICES ASSUME FreshInv, [Next]_vars, NEW d \in Dev
             PROVE  Fresh(d)' /\ Begun(d)'
  BY Zenon
<1> DEFINE Early == {"get", "enqueue"}
<1>0. /\ DOMAIN pc = Ctx /\ sent \in [Dev -> 0..MaxTx]
      /\ Xmit(d) \in Ctx /\ Xmit(Twin(d)) \in Ctx /\ Twin(d) \in Dev
      /\ \A e \in Dev : Fresh(e) /\ Begun(e)
  BY Contexts, Twins, Zenon DEF FreshInv, Conserved, Typed, TypeOK, CtxTypes, HistTypes
<1>1. ASSUME UNCHANGED <<rx_queue, data, delivered, sent>>,
             \A e \in Dev : pc'[Xmit(e)] \in Early <=> pc[Xmit(e)] \in Early
      PROVE  Fresh(d)' /\ Begun(d)'
  <2>1. Queued(Twin(d))' = Queued(Twin(d))
    BY <1>0, <1>1, Zenon DEF Queued
  <2>2. Begun(d)'
    BY <1>0, <1>1, Zenon DEF Begun
  <2> QED BY Zenon, <1>1, <2>1, <2>2, FreshFrame
<1>2. ASSUME NEW c \in Ctx, NEW l \in Labels \ Early, pc[c] \notin Early,
             pc' = [pc EXCEPT ![c] = l]
      PROVE  \A e \in Dev : pc'[Xmit(e)] \in Early <=> pc[Xmit(e)] \in Early
  BY Zenon, <1>0, <1>2, Contexts
<1>3. ASSUME NEW e \in Dev, snull_open(e) \/ snull_release(e) \/ napi_disable(e)
      PROVE  Fresh(d)' /\ Begun(d)'
  BY <1>1, <1>3, Zenon DEF snull_open, snull_release, napi_disable, bufVars, histVars
<1>4. ASSUME NEW e \in Dev, snull_tx(e)
      PROVE  Fresh(d)' /\ Begun(d)'
  <2>1. /\ pc[Xmit(e)] = "idle" /\ pc' = [pc EXCEPT ![Xmit(e)] = "get"]
        /\ sent' = [sent EXCEPT ![e] = sent[e] + 1]
        /\ UNCHANGED <<rx_queue, data, delivered>>
    BY <1>4, Zenon DEF snull_tx, TxLocked, Goto, bufVars
  <2>2. Queued(Twin(d))' = Queued(Twin(d))
    <3>1. CASE e = Twin(d)
      BY <1>0, <2>1, <3>1 DEF Queued
    <3>2. CASE e # Twin(d)
      <4>1. Xmit(e) # Xmit(Twin(d))
        BY <3>2, Zenon DEF Xmit
      <4> QED BY <1>0, <2>1, <3>2, <4>1, Zenon DEF Queued
    <3> QED BY Zenon, <3>1, <3>2
  <2>3. Begun(d)'
    BY <1>0, <2>1 DEF Begun, Xmit
  <2> QED BY Zenon, <2>1, <2>2, <2>3, FreshFrame
<1>5. ASSUME NEW e \in Dev, snull_get_tx_buffer(e)
      PROVE  Fresh(d)' /\ Begun(d)'
  <2>1. /\ pc[Xmit(e)] = "get" /\ pc' = [pc EXCEPT ![Xmit(e)] = "enqueue"]
        /\ UNCHANGED <<rx_queue, data, delivered, sent>>
    BY <1>5, Zenon DEF snull_get_tx_buffer, Step, At, Goto, histVars
  <2> QED BY Zenon, <1>0, <1>1, <2>1, Contexts
<1>6. ASSUME NEW e \in Dev, snull_enqueue_buf(e)
      PROVE  Fresh(d)' /\ Begun(d)'
  <2>1. pc' = [pc EXCEPT ![Xmit(e)] = "rx_enabled"] /\ UNCHANGED sent
    BY <1>6, Zenon DEF snull_enqueue_buf, Step, Goto, histVars
  <2>2. Begun(d)'
    BY <1>0, <2>1, Zenon DEF Begun
  <2> QED BY Zenon, <1>6, <2>2, FreshEnqueue
<1>7. ASSUME NEW e \in Dev, PoolEmptyOops(e)
      PROVE  Fresh(d)' /\ Begun(d)'
  <2>1. /\ pc[Xmit(e)] = "get" /\ pc' = [pc EXCEPT ![Xmit(e)] = "oops"]
        /\ UNCHANGED <<rx_queue, data, delivered, sent>>
    BY <1>7, Zenon DEF PoolEmptyOops, Step, At, Goto, bufVars, histVars
  <2>2. Begun(d)'
    BY <1>0, <2>1, Zenon DEF Begun
  <2>3. /\ sent[Twin(d)] \in Nat /\ Fresh(d)
        /\ Queued(Twin(d)) \in {sent[Twin(d)] - 1, sent[Twin(d)]}
        /\ Queued(Twin(d))' = Queued(Twin(d)) \/ Queued(Twin(d))' = sent[Twin(d)]
    BY <1>0, <2>1, BoundAssumption DEF Queued
  <2>4. \A n \in 1..Queued(Twin(d)) : n \in 1..Queued(Twin(d))'
    BY <2>3
  <2> QED BY <2>1, <2>2, <2>3, <2>4, Zenon DEF Fresh
<1>8. ASSUME NEW e \in Dev, HwTxRxEnabled(e) \/ HwTxRaise(e) \/ HwTxLockup(e)
      PROVE  Fresh(d)' /\ Begun(d)'
  <2>1. /\ UNCHANGED <<rx_queue, data, delivered, sent>>
        /\ pc[Xmit(e)] \notin Early
        /\ \E l \in Labels \ Early : pc' = [pc EXCEPT ![Xmit(e)] = l]
    BY <1>8, Zenon DEF HwTxRxEnabled, HwTxRaise, HwTxLoad, HwTxStore, HwTxLockup,
       AfterLockup, Step, At, Goto, Labels, bufVars, histVars
  <2> QED BY <1>1, <1>2, <2>1, Contexts, Zenon
<1>9. ASSUME NEW e \in Dev, WatchdogStep(e)
      PROVE  Fresh(d)' /\ Begun(d)'
  <2>1. /\ UNCHANGED <<rx_queue, data, delivered, sent>>
        /\ pc[Wdog(e)] \notin Early
        /\ \E l \in Labels \ Early : pc' = [pc EXCEPT ![Wdog(e)] = l]
    BY <1>9, Zenon DEF WatchdogStep, snull_tx_timeout, TimeoutEnd, TxLocked, Step, At, Goto,
       Labels, bufVars, histVars
  <2> QED BY <1>1, <1>2, <2>1, Contexts, Zenon
<1>10. ASSUME NEW e \in Dev, snull_dequeue_buf(e)
       PROVE  Fresh(d)' /\ Begun(d)'
  <2>1. /\ rx_queue[e] # <<>> /\ rx_queue' = [rx_queue EXCEPT ![e] = Tail(@)]
        /\ UNCHANGED <<data, sent>>
        /\ pc[Poll(e)] = "poll" /\ pc' = [pc EXCEPT ![Poll(e)] = "release"]
        /\ \E ok \in BOOLEAN : snull_rx(e, Head(rx_queue[e]), ok)
    BY <1>10, ParamAssumption, Zenon DEF snull_dequeue_buf, PollMore, Step, At, Goto
  <2>2. \A f \in Dev : pc'[Xmit(f)] \in Early <=> pc[Xmit(f)] \in Early
    BY <1>2, <2>1, Contexts, Zenon DEF Labels
  <2>3. Begun(d)'
    BY <1>0, <2>1, <2>2, Zenon DEF Begun
  <2> QED BY <1>0, <2>1, <2>2, <2>3, FreshPop, Zenon
<1>11. ASSUME NEW e \in Dev, snull_poll(e) \/ PollComplete(e) \/ PollEnableInts(e)
       PROVE  Fresh(d)' /\ Begun(d)'
  <2>1. /\ UNCHANGED <<rx_queue, data, delivered, sent>>
        /\ pc[Poll(e)] \notin Early
        /\ \E l \in Labels \ Early : pc' = [pc EXCEPT ![Poll(e)] = l]
    BY <1>11, Zenon DEF snull_poll, PollComplete, PollEnableInts, Step, At, Goto,
       Labels, bufVars, histVars
  <2> QED BY <1>1, <1>2, <2>1, Contexts, Zenon
<1>12. ASSUME NEW c \in Ctx,
              \/ IrqEnter(c) \/ snull_napi_interrupt(c) \/ snull_release_buffer(c)
              \/ ReleaseTests(c) \/ ReleaseReturn(c)
       PROVE  Fresh(d)' /\ Begun(d)'
  <2>1. /\ UNCHANGED <<rx_queue, data, delivered, sent>>
        /\ pc[c] \notin Early
        /\ \E l \in Labels \ Early : pc' = [pc EXCEPT ![c] = l]
    BY <1>12, Zenon DEF IrqEnter, snull_napi_interrupt, snull_release_buffer, ReleaseTests,
       ReleaseReturn, AfterRelease, AfterIrq, Step, At, Goto, Labels, bufVars, histVars
  <2> QED BY <1>1, <1>2, <2>1, Zenon
<1>13. ASSUME NEW c \in Ctx, snull_regular_interrupt(c)
       PROVE  Fresh(d)' /\ Begun(d)'
  <2>1. /\ UNCHANGED <<data, sent>> /\ pc[c] = "irq_body"
        /\ irqdev[c] \in Dev
        /\ ReceiveOne(c, irqdev[c]) \/ ReceiveNone(c, irqdev[c])
    BY <1>13, Zenon DEF snull_regular_interrupt, At, FreshInv, Conserved, Typed, TypeOK, CtxTypes
  <2>2. \E l \in Labels \ Early : pc' = [pc EXCEPT ![c] = l]
    BY <2>1, Zenon DEF ReceiveOne, ReceiveNone, AfterIrq, Goto, Labels
  <2>3. \A f \in Dev : pc'[Xmit(f)] \in Early <=> pc[Xmit(f)] \in Early
    BY <1>2, <2>1, <2>2, Zenon
  <2>4. CASE ReceiveOne(c, irqdev[c])
    <3>1. /\ rx_queue[irqdev[c]] # <<>>
          /\ rx_queue' = [rx_queue EXCEPT ![irqdev[c]] = Tail(@)]
          /\ \E ok \in BOOLEAN : snull_rx(irqdev[c], Head(rx_queue[irqdev[c]]), ok)
      BY <2>4, ParamAssumption, Zenon DEF ReceiveOne
    <3>2. Begun(d)'
      BY <1>0, <2>1, <2>3, Zenon DEF Begun
    <3> QED BY <1>0, <2>1, <2>3, <3>1, <3>2, FreshPop, Zenon
  <2>5. CASE ReceiveNone(c, irqdev[c])
    BY <1>1, <2>1, <2>3, <2>5, Zenon DEF ReceiveNone
  <2> QED BY Zenon, <2>1, <2>4, <2>5
<1>14. CASE UNCHANGED vars
  BY <1>1, <1>14, Zenon DEF vars, bufVars, histVars
<1> QED BY Zenon, <1>3, <1>4, <1>5, <1>6, <1>7, <1>8, <1>9, <1>10, <1>11, <1>12, <1>13, <1>14
        DEF Next, XmitStep, PollStep, HandlerStep, Rest

(* No frame is handed to the stack twice, or without having been sent: a   *)
(* reused buffer never shows the frame it carried before, whatever the     *)
(* pool size, the handler and the interleaving.                            *)
THEOREM Uniqueness == Spec => []DeliveredOnce
<1>1. Init => FreshInv
  <2> SUFFICES ASSUME Init PROVE FreshInv
    BY Zenon
  <2>1. Conserved
    BY TypedInit, ConservedInit, Zenon DEF Conserved
  <2>2. \A d \in Dev : rx_queue[d] = <<>> /\ delivered[d] = <<>> /\ pc[Xmit(d)] = "idle"
    BY Contexts, Zenon DEF Init
  <2> QED BY <2>1, <2>2 DEF FreshInv, Fresh, Begun, Range, IsInjective
<1>2. FreshInv /\ [Next]_vars => FreshInv'
  BY TypedNext, ConservedNext, FreshNext, Zenon DEF FreshInv, Conserved
<1>3. FreshInv => DeliveredOnce
  <2> SUFFICES ASSUME FreshInv, NEW d \in Dev
               PROVE  IsInjective(delivered[d]) /\ Range(delivered[d]) \subseteq 1..sent[Twin(d)]
    BY Zenon DEF DeliveredOnce
  <2>1. sent[Twin(d)] \in Nat /\ Queued(Twin(d)) \in {sent[Twin(d)] - 1, sent[Twin(d)]}
    BY Twins, BoundAssumption DEF FreshInv, Conserved, Typed, TypeOK, HistTypes, Queued
  <2>2. 1..Queued(Twin(d)) \subseteq 1..sent[Twin(d)]
    BY <2>1
  <2> QED BY <2>2, Zenon DEF FreshInv, Fresh
<1> QED BY <1>1, <1>2, <1>3, PTL DEF Spec

-----------------------------------------------------------------------------
(* Receive interrupts and the poll                                         *)

Polling == {"poll", "release", "test_stopped", "test_next", "wake"}

(* NAPI is enabled exactly while the interface is not down, and a poll is  *)
(* scheduled as long as it runs.                                           *)
NapiOK(d) ==
    /\ napi[d] = "off" <=> link[d] = "down" \/ ~UseNapi
    /\ pc[Poll(d)] \in Polling => napi[d] \in {"sched", "missed"}
    /\ pc[Poll(d)] \notin {"irq", "irq_body"}
    /\ irqdev[Wdog(d)] = d
    /\ link[d] = "closing" => closes[d] > 0

(* Nobody has raised an interrupt for an interface that was never opened,  *)
(* and the receive interrupts of one that was not closed are off only      *)
(* while a poll will turn them on.                                         *)
HearingOK(d) ==
    IF UseNapi
    THEN closes[d] = 0 =>
           /\ link[d] = "down" =>
                 /\ rx_int_enabled[d]
                 /\ pc[Xmit(d)] = "idle" /\ pc[Wdog(d)] = "idle"
                 /\ pc[Xmit(Twin(d))] = "idle"
           /\ link[d] = "up" /\ ~rx_int_enabled[d] =>
                 napi[d] \in {"sched", "missed"} \/ pc[Poll(d)] = "rx_ints"
    ELSE rx_int_enabled[d]

Hearing == Typed /\ \A d \in Dev : NapiOK(d) /\ HearingOK(d)

(* A step that changes neither the interface nor its NAPI state.           *)
LEMMA HearingFrame ==
    ASSUME Hearing, NEW d \in Dev,
           UNCHANGED <<link, napi, rx_int_enabled, closes>>, irqdev'[Wdog(d)] = irqdev[Wdog(d)],
           pc'[Poll(d)] = pc[Poll(d)],
           pc[Xmit(d)] = "idle" => pc'[Xmit(d)] = "idle",
           pc[Xmit(Twin(d))] = "idle" => pc'[Xmit(Twin(d))] = "idle",
           pc[Wdog(d)] = "idle" => pc'[Wdog(d)] = "idle"
    PROVE  NapiOK(d)' /\ HearingOK(d)'
BY DEF Hearing, NapiOK, HearingOK

(* Opening and closing.                                                    *)
LEMMA HearingAdmin ==
    ASSUME Hearing, NEW d \in Dev, NEW e \in Dev,
           snull_open(e) \/ snull_release(e) \/ napi_disable(e)
    PROVE  NapiOK(d)' /\ HearingOK(d)'
<1>0. /\ DOMAIN link = Dev /\ DOMAIN napi = Dev /\ closes \in [Dev -> 0..MaxCloses]
      /\ link[d] \in {"down", "up", "closing"}
      /\ NapiOK(d) /\ HearingOK(d)
  BY Zenon DEF Hearing, Typed, TypeOK, NetTypes, HistTypes
<1>1. UNCHANGED <<rx_int_enabled, pc, irqdev>>
  BY Zenon DEF snull_open, snull_release, napi_disable, privVars, locals
<1>2. CASE e # d
  <2>1. link'[d] = link[d] /\ napi'[d] = napi[d] /\ closes'[d] = closes[d]
    BY <1>0, <1>2, Zenon DEF snull_open, snull_release, napi_disable, histVars
  <2> QED BY <1>0, <1>1, <2>1, Zenon DEF NapiOK, HearingOK
<1>3. CASE e = d
  <2>1. CASE snull_open(d)
    <3>1. /\ link[d] = "down" /\ link'[d] = "up" /\ UNCHANGED closes
          /\ napi'[d] = IF UseNapi THEN "idle" ELSE napi[d]
      BY <1>0, <2>1, Zenon DEF snull_open
    <3> QED BY <1>0, <1>1, <3>1, Zenon DEF NapiOK, HearingOK
  <2>2. CASE snull_release(d)
    <3>1. /\ link[d] = "up" /\ link'[d] = (IF UseNapi THEN "closing" ELSE "down")
          /\ UNCHANGED napi /\ closes'[d] > 0
      BY <1>0, <2>2, BoundAssumption DEF snull_release
    <3> QED BY <1>0, <1>1, <3>1, Zenon DEF NapiOK, HearingOK
  <2>3. CASE napi_disable(d)
    <3>1. /\ link[d] = "closing" /\ napi[d] = "idle" /\ napi'[d] = "off" /\ link'[d] = "down"
          /\ UNCHANGED closes
      BY <1>0, <2>3, Zenon DEF napi_disable, histVars
    <3> QED BY <1>0, <1>1, <3>1 DEF NapiOK, HearingOK
  <2> QED BY Zenon, <1>3, <2>1, <2>2, <2>3
<1> QED BY Zenon, <1>2, <1>3

(* The stack transmits only while the twin is up.                          *)
LEMMA HearingTx ==
    ASSUME Hearing, WaitForTwin \/ ~UseNapi, NEW d \in Dev, NEW e \in Dev, snull_tx(e)
    PROVE  NapiOK(d)' /\ HearingOK(d)'
<1>0. /\ pc \in [Ctx -> Labels] /\ Xmit(e) \in Ctx
      /\ \A f \in Dev : Poll(f) \in Ctx /\ Poll(f) # Xmit(e) /\ Wdog(f) \in Ctx /\ Wdog(f) # Xmit(e)
      /\ \A f \in Dev : Xmit(f) = Xmit(e) <=> f = e
      /\ Twin(d) \in Dev /\ (e = d \/ e = Twin(d))
      /\ NapiOK(d) /\ HearingOK(d)
  BY Contexts, Twins DEF Hearing, Typed, TypeOK, CtxTypes, Dev, Twin, Xmit, Poll, Wdog
<1>1. /\ link[e] = "up" /\ (WaitForTwin => link[Twin(e)] = "up")
      /\ pc' = [pc EXCEPT ![Xmit(e)] = "get"]
      /\ UNCHANGED <<link, napi, rx_int_enabled, closes, irqdev>>
  BY Zenon DEF snull_tx, Goto, netVars, locals
<1>2. pc'[Poll(d)] = pc[Poll(d)] /\ pc'[Wdog(d)] = pc[Wdog(d)]
  BY Zenon, <1>0, <1>1
<1>3. UseNapi => link[d] = "up"
  BY Zenon, <1>0, <1>1, Twins
<1> QED BY <1>0, <1>1, <1>2, <1>3, Zenon DEF NapiOK, HearingOK

(* Steps of a transmitter under way.                                       *)
LEMMA HearingXmit ==
    ASSUME Hearing, NEW d \in Dev, NEW e \in Dev, XmitStep(e)
    PROVE  NapiOK(d)' /\ HearingOK(d)'
<1>1. /\ UNCHANGED <<link, napi, rx_int_enabled, closes>>
      /\ pc[Xmit(e)] # "idle"
      /\ \E l \in Labels : pc' = [pc EXCEPT ![Xmit(e)] = l]
      /\ irqdev' = irqdev \/ \E f \in Dev : irqdev' = [irqdev EXCEPT ![Xmit(e)] = f]
  BY Twins, Zenon DEF XmitStep, snull_get_tx_buffer, PoolEmptyOops, snull_enqueue_buf, HwTxRxEnabled,
     HwTxRaise, HwTxLoad, HwTxStore, HwTxLockup, AfterLockup, Step, At, Goto, Labels, netVars, privVars,
     locals, histVars
<1>2. /\ DOMAIN pc = Ctx /\ DOMAIN irqdev = Ctx
      /\ Xmit(e) \in Ctx /\ Twin(d) \in Dev
      /\ Poll(d) # Xmit(e) /\ Wdog(d) # Xmit(e) /\ Poll(d) \in Ctx /\ Wdog(d) \in Ctx
      /\ Xmit(d) \in Ctx /\ Xmit(Twin(d)) \in Ctx
  BY Contexts, Twins, Zenon DEF Hearing, Typed, TypeOK, CtxTypes, Xmit, Poll, Wdog
<1>3. /\ pc'[Poll(d)] = pc[Poll(d)] /\ pc'[Wdog(d)] = pc[Wdog(d)] /\ irqdev'[Wdog(d)] = irqdev[Wdog(d)]
      /\ pc[Xmit(d)] = "idle" => pc'[Xmit(d)] = "idle"
      /\ pc[Xmit(Twin(d))] = "idle" => pc'[Xmit(Twin(d))] = "idle"
  BY Zenon, <1>1, <1>2
<1> QED BY Zenon, <1>1, <1>3, HearingFrame

(* The watchdog looks at an open interface only.                           *)
LEMMA HearingWatchdog ==
    ASSUME Hearing, NEW d \in Dev, NEW e \in Dev, WatchdogStep(e)
    PROVE  NapiOK(d)' /\ HearingOK(d)'
<1>1. /\ UNCHANGED <<link, napi, rx_int_enabled, closes, irqdev>>
      /\ pc[Wdog(e)] = "idle" => link[e] = "up"
      /\ \E l \in Labels : pc' = [pc EXCEPT ![Wdog(e)] = l]
  BY Zenon DEF WatchdogStep, snull_tx_timeout, TimeoutEnd, Step, At, Goto, Labels, netVars, privVars,
     locals, histVars
<1>2. /\ DOMAIN pc = Ctx /\ Wdog(e) \in Ctx /\ Wdog(d) \in Ctx /\ Poll(d) \in Ctx
      /\ Xmit(d) \in Ctx /\ Xmit(Twin(d)) \in Ctx
      /\ Poll(d) # Wdog(e) /\ Xmit(d) # Wdog(e) /\ Xmit(Twin(d)) # Wdog(e)
      /\ (Wdog(d) = Wdog(e)) <=> (d = e)
      /\ NapiOK(d) /\ HearingOK(d)
  BY Contexts, Twins, Zenon DEF Hearing, Typed, TypeOK, CtxTypes, Xmit, Poll, Wdog
<1>3. /\ pc'[Poll(d)] = pc[Poll(d)] /\ pc'[Xmit(d)] = pc[Xmit(d)]
      /\ pc'[Xmit(Twin(d))] = pc[Xmit(Twin(d))]
      /\ d # e => pc'[Wdog(d)] = pc[Wdog(d)]
  BY Zenon, <1>1, <1>2
<1>4. CASE d # e
  BY Zenon, <1>1, <1>3, <1>4, HearingFrame
<1>5. CASE d = e
  BY <1>1, <1>2, <1>3, <1>5, Zenon DEF NapiOK, HearingOK
<1> QED BY Zenon, <1>4, <1>5

(* A poll that ends turns the receive interrupts on again.                 *)
LEMMA HearingPoll ==
    ASSUME Hearing, NEW d \in Dev, NEW e \in Dev, PollStep(e)
    PROVE  NapiOK(d)' /\ HearingOK(d)'
<1>0. /\ DOMAIN pc = Ctx /\ DOMAIN napi = Dev /\ DOMAIN rx_int_enabled = Dev
      /\ Poll(e) \in Ctx /\ Poll(d) \in Ctx /\ Wdog(d) \in Ctx /\ Xmit(d) \in Ctx /\ Xmit(Twin(d)) \in Ctx
      /\ napi[d] \in {"off", "idle", "sched", "missed"}
      /\ Wdog(d) # Poll(e) /\ Xmit(d) # Poll(e) /\ Xmit(Twin(d)) # Poll(e)
      /\ (Poll(d) = Poll(e)) <=> (d = e)
      /\ NapiOK(d) /\ HearingOK(d)
  BY Contexts, Twins, Zenon DEF Hearing, Typed, TypeOK, CtxTypes, NetTypes, PrivTypes, Xmit, Poll, Wdog
<1>1. /\ UNCHANGED <<link, closes, irqdev>>
      /\ \E l \in Labels : pc' = [pc EXCEPT ![Poll(e)] = l]
      /\ napi' = napi \/ \E v : napi' = [napi EXCEPT ![e] = v]
      /\ rx_int_enabled' = rx_int_enabled \/ rx_int_enabled' = [rx_int_enabled EXCEPT ![e] = TRUE]
  BY Zenon DEF PollStep, snull_poll, snull_dequeue_buf, PollComplete, PollEnableInts, snull_rx_ints,
     Step, At, Goto, Labels, netVars, privVars, locals, histVars
<1>2. /\ pc'[Xmit(d)] = pc[Xmit(d)] /\ pc'[Xmit(Twin(d))] = pc[Xmit(Twin(d))]
      /\ pc'[Wdog(d)] = pc[Wdog(d)]
  BY Zenon, <1>0, <1>1
<1>3. CASE d # e
  <2>1. pc'[Poll(d)] = pc[Poll(d)] /\ napi'[d] = napi[d] /\ rx_int_enabled'[d] = rx_int_enabled[d]
    BY Zenon, <1>0, <1>1, <1>3
  <2> QED BY <1>0, <1>1, <1>2, <2>1, Zenon DEF NapiOK, HearingOK
<1>4. CASE d = e
  <2>1. CASE snull_poll(d) \/ snull_dequeue_buf(d)
    <3>1. /\ UNCHANGED <<napi, rx_int_enabled>>
          /\ \/ pc[Poll(d)] = "idle" /\ pc'[Poll(d)] = "poll" /\ napi[d] \in {"sched", "missed"}
             \/ pc[Poll(d)] = "poll" /\ pc'[Poll(d)] = "release"
      BY <1>0, <1>4, <2>1, Zenon DEF snull_poll, snull_dequeue_buf, Step, At, Goto, netVars, privVars
    <3> QED BY <1>0, <1>1, <1>2, <3>1, Zenon DEF NapiOK, HearingOK, Polling
  <2>2. CASE PollComplete(d)
    <3>1. /\ pc[Poll(d)] = "poll" /\ UNCHANGED rx_int_enabled
          /\ \/ /\ napi'[d] = IF napi[d] = "missed" THEN "sched" ELSE "idle"
                /\ pc'[Poll(d)] = "rx_ints"
             \/ napi'[d] = napi[d] /\ pc'[Poll(d)] = "idle"
      BY <1>0, <1>4, <2>2, Zenon DEF PollComplete, At, Goto, privVars
    <3> QED BY <1>0, <1>1, <1>2, <3>1, Zenon DEF NapiOK, HearingOK, Polling
  <2>3. CASE PollEnableInts(d)
    <3>1. /\ pc'[Poll(d)] = "idle" /\ rx_int_enabled'[d] = TRUE /\ UNCHANGED napi
      BY <1>0, <1>4, <2>3, Zenon DEF PollEnableInts, snull_rx_ints, Step, At, Goto, netVars
    <3> QED BY <1>0, <1>1, <1>2, <3>1, Zenon DEF NapiOK, HearingOK, Polling
  <2> QED BY <1>4, <2>1, <2>2, <2>3, Zenon DEF PollStep
<1> QED BY <1>3, <1>4

(* The handlers: an interrupt for an open interface schedules its poll.    *)
LEMMA HearingHandler ==
    ASSUME Hearing, NEW d \in Dev, NEW c \in Ctx, HandlerStep(c)
    PROVE  NapiOK(d)' /\ HearingOK(d)'
<1>0. /\ DOMAIN pc = Ctx /\ DOMAIN napi = Dev /\ DOMAIN rx_int_enabled = Dev
      /\ napi[d] \in {"off", "idle", "sched", "missed"} /\ link[d] \in {"down", "up", "closing"}
      /\ irqdev[c] \in Dev
      /\ NapiOK(d) /\ HearingOK(d)
  BY Zenon DEF Hearing, Typed, TypeOK, CtxTypes, NetTypes, PrivTypes
<1>1. /\ UNCHANGED <<link, closes, irqdev>>
      /\ pc[c] # "idle"
      /\ \E l \in Labels : pc' = [pc EXCEPT ![c] = l]
  BY Zenon DEF HandlerStep, IrqEnter, snull_regular_interrupt, snull_napi_interrupt, snull_release_buffer,
     ReleaseTests, ReleaseReturn, ReceiveOne, ReceiveNone, AfterIrq, AfterRelease,
     Step, At, Goto, Labels, netVars, privVars, locals, histVars
<1>2. /\ pc[Xmit(d)] = "idle" => pc'[Xmit(d)] = "idle"
      /\ pc[Xmit(Twin(d))] = "idle" => pc'[Xmit(Twin(d))] = "idle"
      /\ pc[Wdog(d)] = "idle" => pc'[Wdog(d)] = "idle"
  BY Zenon, <1>0, <1>1, Contexts, Twins
<1>3. CASE ~snull_napi_interrupt(c)
  <2>1. UNCHANGED <<napi, rx_int_enabled>>
    BY <1>3, Zenon DEF HandlerStep, IrqEnter, snull_regular_interrupt, snull_release_buffer,
       ReleaseTests, ReleaseReturn, netVars, privVars
  <2>2. pc'[Poll(d)] = pc[Poll(d)] \/ (pc[Poll(d)] \in Polling /\ pc'[Poll(d)] \in Polling)
    <3>1. CASE c # Poll(d)
      BY <1>0, <1>1, <3>1
    <3>2. CASE c = Poll(d)
      <4>1. AfterRelease(c) = "poll" /\ pc[c] \notin {"irq", "irq_body"}
        BY <1>0, <3>2, Zenon DEF AfterRelease, Poll, NapiOK
      <4>2. pc[c] \in Polling /\ pc'[c] \in Polling
        BY <1>0, <1>3, <4>1, Zenon DEF HandlerStep, IrqEnter, snull_regular_interrupt, snull_release_buffer,
           ReleaseTests, ReleaseReturn, Step, At, Goto, Polling
      <4> QED BY Zenon, <3>2, <4>2
    <3> QED BY Zenon, <3>1, <3>2
  <2> QED BY <1>0, <1>1, <1>2, <2>1, <2>2, Zenon DEF NapiOK, HearingOK, Polling
<1>4. CASE snull_napi_interrupt(c)
  <2>1. /\ UseNapi /\ pc[c] = "irq_body" /\ c # Poll(d)
        /\ pc'[Poll(d)] = pc[Poll(d)]
    BY <1>0, <1>1, <1>4 DEF snull_napi_interrupt, At, NapiOK
  <2>2. CASE irqdev[c] # d \/ UNCHANGED <<napi, rx_int_enabled>>
    <3>1. napi'[d] = napi[d] /\ rx_int_enabled'[d] = rx_int_enabled[d]
      BY <1>0, <1>4, <2>2, Zenon DEF snull_napi_interrupt, napi_schedule, snull_rx_ints
    <3> QED BY <1>0, <1>1, <1>2, <2>1, <3>1, Zenon DEF NapiOK, HearingOK
  <2>3. CASE irqdev[c] = d /\ snull_rx_ints(d, FALSE) /\ napi_schedule(d)
    <3>1. c \in {Xmit(d), Xmit(Twin(d)), Wdog(d)}
      <4>1. \E f \in Dev : c \in {Xmit(f), Wdog(f), Poll(f)}
        BY SMTT(30) DEF Ctx, Xmit, Wdog, Poll
      <4>2. \A f \in Dev : c # Poll(f) /\ (c = Wdog(f) => f = d)
        BY <2>1, <2>3 DEF Hearing, NapiOK
      <4>3. \A f \in Dev : f = d \/ f = Twin(d)
        BY DEF Dev, Twin
      <4> QED BY Zenon, <4>1, <4>2, <4>3
    <3>2. closes[d] = 0 => link[d] # "down"
      BY <1>0, <2>1, <3>1, Zenon DEF HearingOK
    <3>3. /\ napi[d] = "off" => napi'[d] = "off"
          /\ napi[d] # "off" => napi'[d] \in {"sched", "missed"}
      BY <1>0, <2>3, Zenon DEF napi_schedule
    <3> QED BY <1>0, <1>1, <1>2, <2>1, <3>2, <3>3, Zenon DEF NapiOK, HearingOK
  <2> QED BY <1>4, <2>2, <2>3, Zenon DEF snull_napi_interrupt
<1> QED BY Zenon, <1>3, <1>4

(* With the regular handler, or when the stack sends only between open     *)
(* interfaces, no interleaving of the poll's end with new interrupts       *)
(* leaves an interface deaf.                                               *)
THEOREM Hears ==
    ASSUME WaitForTwin \/ ~UseNapi
    PROVE  Spec => []IntsOffMeansPoll
<1>1. Init => Hearing
  <2> SUFFICES ASSUME Init, NEW d \in Dev PROVE NapiOK(d) /\ HearingOK(d)
    BY TypedInit, Zenon DEF Hearing
  <2>1. /\ Xmit(d) \in Ctx /\ Wdog(d) \in Ctx /\ Poll(d) \in Ctx /\ Xmit(Twin(d)) \in Ctx
    BY Zenon, Contexts, Twins
  <2>2. Wdog(d)[2] = d
    BY Zenon DEF Wdog
  <2> QED BY <2>1, <2>2, Zenon DEF Init, NapiOK, HearingOK, Polling
<1>2. Hearing /\ [Next]_vars => Hearing'
  <2> SUFFICES ASSUME Hearing, [Next]_vars, NEW d \in Dev PROVE NapiOK(d)' /\ HearingOK(d)'
    BY TypedNext, Zenon DEF Hearing
  <2>1. CASE UNCHANGED vars
    BY <2>1, HearingFrame, Zenon DEF vars, netVars, privVars, locals, histVars
  <2> QED BY Zenon, <2>1, HearingAdmin, HearingTx, HearingXmit, HearingWatchdog, HearingPoll, HearingHandler
          DEF Next, Rest
<1>3. Hearing => IntsOffMeansPoll
  BY Zenon DEF Hearing, HearingOK, IntsOffMeansPoll
<1> QED BY <1>1, <1>2, <1>3, PTL DEF Spec

=============================================================================
