---------------------------- MODULE SnullProofs ----------------------------
(***************************************************************************)
(* Proofs about Snull, for every pool size, lockup period, interrupt mode, *)
(* set of transmitters and bound.                                          *)
(***************************************************************************)
EXTENDS Snull, ListFacts

-----------------------------------------------------------------------------
(* Type correctness                                                        *)

(* A context about to link a buffer has one, and a transmitter's buffer    *)
(* came from its own pool.                                                 *)
HandsFull ==
    /\ \A c \in Ctx : pc[c] \in {"enqueue", "release"} => pkt[c] \in Packet
    /\ \A d \in Dev : pc[Xmit(d)] = "enqueue" => Owner(pkt[Xmit(d)]) = d

(* A pool and a receive queue hold only buffers of the right owner.        *)
OwnersOK ==
    \A d \in Dev :
       /\ \A p \in Range(ppool[d]) : Owner(p) = d
       /\ \A p \in Range(rx_queue[d]) : Owner(p) = Twin(d)

Typed == TypeOK /\ HandsFull /\ OwnersOK

(* The two devices are each other's twin.                                   *)
LEMMA Twins ==
    ASSUME NEW d \in Dev
    PROVE  Twin(d) \in Dev /\ Twin(d) # d /\ Twin(Twin(d)) = d
BY DevAssumption DEF Dev, Twin

(* A buffer's owner is a device, and so is the owner's twin.               *)
LEMMA Owners ==
    \A p \in Packet : Owner(p) \in Dev /\ Twin(Owner(p)) \in Dev
BY Twins, Zenon DEF Packet, Owner

(* The contexts of a device are different contexts.                        *)
LEMMA Contexts ==
    ASSUME NEW d \in Dev
    PROVE  /\ Xmit(d) \in Ctx /\ Wdog(d) \in Ctx /\ Poll(d) \in Ctx
           /\ Xmit(d) # Wdog(d) /\ Xmit(d) # Poll(d) /\ Wdog(d) # Poll(d)
BY Zenon DEF Ctx, Xmit, Wdog, Poll

(* snull_setup_pool links the buffers it got, the last one first.          *)
LEMMA SetupPool ==
    ASSUME NEW d \in Dev, NEW n \in 0..PoolSize
    PROVE  LET s == [i \in 1..n |-> <<d, n + 1 - i>>]
           IN  /\ s \in Seq(Packet)
               /\ IsInjective(s)
               /\ Range(s) = {d} \X (1..n)
<1> DEFINE s == [i \in 1..n |-> <<d, n + 1 - i>>]
<1>1. n \in Nat /\ PoolSize \in Nat
  BY ParamAssumption
<1>2. \A i \in 1..n : n + 1 - i \in 1..n /\ n + 1 - i \in 1..PoolSize
  BY <1>1
<1>3. s \in Seq(Packet)
  BY <1>1, <1>2 DEF Packet
<1>4. IsInjective(s)
  <2> SUFFICES ASSUME NEW i \in 1..n, NEW j \in 1..n, <<d, n + 1 - i>> = <<d, n + 1 - j>>
               PROVE  i = j
    BY Zenon DEF IsInjective
  <2>1. n + 1 - i = n + 1 - j
    BY Zenon
  <2> QED BY <2>1, <1>1
<1>5. Range(s) = {d} \X (1..n)
  <2>1. Range(s) \subseteq {d} \X (1..n)
    BY <1>2 DEF Range
  <2>2. ASSUME NEW k \in 1..n PROVE <<d, k>> \in Range(s)
    <3>1. n + 1 - k \in 1..n /\ n + 1 - (n + 1 - k) = k
      BY <1>1
    <3>2. s[n + 1 - k] = <<d, k>>
      BY Zenon, <3>1
    <3> QED BY <3>1, <3>2, Zenon DEF Range
  <2> QED BY SMTT(30), <2>1, <2>2
<1> QED BY Zenon, <1>3, <1>4, <1>5

(* Loading the module establishes the types.                               *)
LEMMA TypedInit == Init => Typed
<1> SUFFICES ASSUME Init PROVE Typed
  BY Zenon
<1>1. npool \in [Dev -> 0..PoolSize]
  BY ParamAssumption, Zenon DEF Init
<1>2. ppool \in [Dev -> Seq(Packet)]
  BY <1>1, SetupPool, Zenon DEF Init, snull_setup_pool
<1>3. TypeOK
  <2>1. nextNull \in [Packet -> BOOLEAN] /\ data \in [Packet -> 0..MaxTx]
    BY BoundAssumption DEF Init
  <2>2. BufTypes
    BY <1>2, <2>1 DEF Init, BufTypes
  <2>3. PrivTypes /\ StatTypes /\ NetTypes
    BY BoundAssumption DEF Init, PrivTypes, StatTypes, NetTypes
  <2>4. CtxTypes
    BY DEF Init, CtxTypes, Ctx, Labels, NapiWeight
  <2>5. HistTypes
    BY <1>1, BoundAssumption DEF Init, HistTypes
  <2> QED BY <2>2, <2>3, <2>4, <2>5, Zenon DEF TypeOK
<1>4. HandsFull
  BY Contexts, Zenon DEF Init, HandsFull
<1>5. OwnersOK
  <2> SUFFICES ASSUME NEW d \in Dev
               PROVE  /\ \A p \in Range(ppool[d]) : Owner(p) = d
                      /\ Range(rx_queue[d]) = {}
    BY Zenon DEF OwnersOK
  <2>1. Range(ppool[d]) = {d} \X (1..npool[d])
    BY <1>1, SetupPool, Zenon DEF Init, snull_setup_pool
  <2>2. rx_queue[d] = <<>>
    BY Zenon DEF Init
  <2> QED BY <2>1, <2>2 DEF Owner, Range
<1> QED BY <1>3, <1>4, <1>5, Zenon DEF Typed

(* One lemma per group of actions: each preserves Typed.                   *)
LEMMA TypedAdmin ==
    ASSUME Typed, NEW d \in Dev,
           snull_open(d) \/ snull_release(d) \/ napi_disable(d)
    PROVE  Typed'
<1> USE DEF Typed, TypeOK
<1>1. UNCHANGED <<bufVars, privVars, statVars, pc, locals, npool, sent, frees, delivered>>
  BY Zenon DEF snull_open, snull_release, napi_disable, histVars
<1>2. NetTypes'
  BY Zenon DEF NetTypes, snull_open, snull_release, napi_disable, StartQueue
<1>3. HistTypes'
  <2>1. closes' \in [Dev -> 0..MaxCloses]
    <3>1. CASE snull_release(d)
      BY <3>1, BoundAssumption DEF HistTypes, snull_release
    <3>2. CASE UNCHANGED closes
      BY <3>2, Zenon DEF HistTypes
    <3> QED BY <3>1, <3>2, Zenon DEF snull_open, napi_disable, histVars
  <2>2. blind' \in [Dev -> BOOLEAN]
    BY Zenon DEF HistTypes, snull_open, snull_release, napi_disable, StartQueue, histVars
  <2> QED BY <1>1, <2>1, <2>2, Zenon DEF HistTypes
<1>4. BufTypes' /\ PrivTypes' /\ StatTypes' /\ CtxTypes'
  BY <1>1, Zenon DEF BufTypes, PrivTypes, StatTypes, CtxTypes, bufVars, privVars, statVars, locals
<1>5. HandsFull' /\ OwnersOK'
  BY <1>1, Zenon DEF HandsFull, OwnersOK, bufVars, locals
<1> QED BY Zenon, <1>2, <1>3, <1>4, <1>5

(* snull_get_tx_buffer hands out a buffer of the device's own pool.        *)
LEMMA TypedGet ==
    ASSUME Typed, NEW d \in Dev, snull_get_tx_buffer(d)
    PROVE  Typed'
<1> USE DEF Typed, TypeOK
<1> DEFINE c == Xmit(d)
<1>1. /\ c \in Ctx
      /\ ppool[d] \in Seq(Packet) /\ ppool[d] # <<>>
      /\ pc' = [pc EXCEPT ![c] = "enqueue"]
      /\ pkt' = [pkt EXCEPT ![c] = Head(ppool[d])]
      /\ ppool' = [ppool EXCEPT ![d] = Tail(ppool[d])]
      /\ stopped' = [stopped EXCEPT ![d] = @ \/ Tail(ppool[d]) = <<>>]
      /\ UNCHANGED <<rx_queue, nextNull, data, privVars, statVars, link, napi,
                     word, irqdev, npackets, histVars>>
  BY Contexts, Zenon DEF snull_get_tx_buffer, LastBuffer, Step, At, Goto, BufTypes
<1>2. /\ Head(ppool[d]) \in Packet
      /\ Tail(ppool[d]) \in Seq(Packet)
      /\ Range(ppool[d]) = Range(Tail(ppool[d])) \cup {Head(ppool[d])}
  BY Zenon, <1>1, PopProperties
<1> HIDE DEF c
<1>3. BufTypes'
  BY <1>1, <1>2, Zenon DEF BufTypes
<1>4. CtxTypes'
  BY <1>1, <1>2, Zenon DEF CtxTypes, Labels
<1>5. PrivTypes' /\ StatTypes' /\ HistTypes'
  BY <1>1, Zenon DEF PrivTypes, StatTypes, HistTypes, privVars, statVars, histVars
<1>6. NetTypes'
  BY <1>1, Zenon DEF NetTypes
<1>7. Owner(Head(ppool[d])) = d
  BY <1>2, Zenon DEF OwnersOK
<1>8. HandsFull'
  <2>1. ASSUME NEW b \in Ctx, pc'[b] \in {"enqueue", "release"}
        PROVE  pkt'[b] \in Packet
    BY <1>1, <1>2, <2>1, Zenon DEF HandsFull, CtxTypes
  <2>2. ASSUME NEW e \in Dev, pc'[Xmit(e)] = "enqueue"
        PROVE  Owner(pkt'[Xmit(e)]) = e
    <3>1. Xmit(e) \in Ctx /\ (Xmit(e) = c => e = d)
      BY Contexts, Zenon DEF Xmit, c
    <3> QED BY <1>1, <1>7, <2>2, <3>1, Zenon DEF HandsFull, CtxTypes
  <2> QED BY <2>1, <2>2, Zenon DEF HandsFull
<1>9. OwnersOK'
  BY <1>1, <1>2, Zenon DEF OwnersOK, BufTypes
<1> QED BY Zenon, <1>3, <1>4, <1>5, <1>6, <1>8, <1>9

(* snull_enqueue_buf links a buffer of the twin's pool on the queue.       *)
LEMMA TypedEnqueue ==
    ASSUME Typed, NEW d \in Dev, snull_enqueue_buf(d)
    PROVE  Typed'
<1> USE DEF Typed, TypeOK
<1> DEFINE c == Xmit(d)
           e == Twin(d)
           p == pkt[c]
<1>1. /\ c \in Ctx /\ e \in Dev /\ Twin(e) = d
      /\ p \in Packet /\ Owner(p) = d
      /\ rx_queue[e] \in Seq(Packet)
      /\ sent[d] \in 0..MaxTx
      /\ pc' = [pc EXCEPT ![c] = "rx_enabled"]
      /\ pkt' = [pkt EXCEPT ![c] = <<>>]
      /\ rx_queue' = [rx_queue EXCEPT ![e] = <<p>> \o rx_queue[e]]
      /\ nextNull' = [nextNull EXCEPT ![p] = rx_queue[e] = <<>>]
      /\ data' = [data EXCEPT ![p] = sent[d]]
      /\ UNCHANGED <<ppool, privVars, statVars, netVars, word, irqdev, npackets,
                     histVars>>
  BY Contexts, Twins, Zenon DEF snull_enqueue_buf, Step, At, Goto, FillBuffer, HandsFull,
     BufTypes, HistTypes
<1>2. /\ <<p>> \o rx_queue[e] \in Seq(Packet)
      /\ Range(<<p>> \o rx_queue[e]) = Range(rx_queue[e]) \cup {p}
  BY <1>1, PushProperties
<1> HIDE DEF c, e, p
<1>3. BufTypes'
  BY <1>1, <1>2, Zenon DEF BufTypes
<1>4. CtxTypes'
  BY <1>1, Zenon DEF CtxTypes, Labels
<1>5. PrivTypes' /\ StatTypes' /\ HistTypes' /\ NetTypes'
  BY <1>1, Zenon DEF PrivTypes, StatTypes, HistTypes, NetTypes, privVars, statVars,
     histVars, netVars
<1>6. HandsFull'
  BY <1>1, Contexts, Zenon DEF HandsFull, CtxTypes
<1>7. OwnersOK'
  BY <1>1, <1>2, Zenon DEF OwnersOK, BufTypes
<1> QED BY Zenon, <1>3, <1>4, <1>5, <1>6, <1>7

(* snull_release_buffer returns a buffer to the pool it came from.         *)
LEMMA TypedRelease ==
    ASSUME Typed, NEW c \in Ctx, snull_release_buffer(c)
    PROVE  Typed'
<1> USE DEF Typed, TypeOK
<1> DEFINE p == pkt[c]
           d == Owner(p)
<1>1. p \in Packet /\ d \in Dev
  BY Zenon DEF snull_release_buffer, Step, At, HandsFull, Packet, Owner
<1>2. /\ ppool[d] \in Seq(Packet)
      /\ pc' = [pc EXCEPT ![c] = "test_stopped"]
      /\ ppool' = [ppool EXCEPT ![d] = <<p>> \o ppool[d]]
      /\ nextNull' = [nextNull EXCEPT ![p] = ppool[d] = <<>>]
      /\ UNCHANGED <<rx_queue, data, privVars, statVars, netVars, locals, histVars>>
  BY <1>1, Zenon DEF snull_release_buffer, ReleasePool, Step, At, Goto, BufTypes
<1>3. /\ <<p>> \o ppool[d] \in Seq(Packet)
      /\ Range(<<p>> \o ppool[d]) = Range(ppool[d]) \cup {p}
  BY <1>1, <1>2, PushProperties
<1>4. Owner(p) = d
  BY Zenon
<1> HIDE DEF p, d
<1>5. BufTypes'
  BY <1>1, <1>2, <1>3, Zenon DEF BufTypes
<1>6. CtxTypes'
  BY <1>2, Zenon DEF CtxTypes, Labels, locals
<1>7. PrivTypes' /\ StatTypes' /\ HistTypes' /\ NetTypes'
  BY <1>2, Zenon DEF PrivTypes, StatTypes, HistTypes, NetTypes, privVars, statVars,
     histVars, netVars
<1>8. HandsFull'
  BY <1>2, Contexts, Zenon DEF HandsFull, CtxTypes, locals
<1>9. OwnersOK'
  BY <1>1, <1>2, <1>3, <1>4, Zenon DEF OwnersOK, BufTypes
<1> QED BY <1>5, <1>6, <1>7, <1>8, <1>9
(* The tests after snull_release_buffer's unlock only move the context.    *)
LEMMA TypedTests ==
    ASSUME Typed, NEW c \in Ctx, ReleaseTests(c) \/ ReleaseReturn(c)
    PROVE  Typed'
<1> USE DEF Typed, TypeOK
<1>1. /\ UNCHANGED <<bufVars, privVars, statVars, link, napi, word, irqdev,
                     npackets, npool, sent, frees, delivered, closes>>
      /\ pc' = [pc EXCEPT ![c] = pc'[c]]
      /\ pc'[c] \in Labels \ {"enqueue", "release"}
      /\ pkt' = pkt \/ pkt' = [pkt EXCEPT ![c] = <<>>]
  BY Zenon DEF ReleaseTests, ReleaseReturn, AfterRelease, AfterIrq, At, Goto, CtxTypes,
     Labels, netVars, locals, histVars
<1>2. stopped' \in [Dev -> BOOLEAN] /\ blind' \in [Dev -> BOOLEAN]
  BY Zenon DEF ReleaseTests, ReleaseReturn, StartQueue, NetTypes, netVars, HistTypes,
     histVars
<1>3. NetTypes'
  BY <1>1, <1>2, Zenon DEF NetTypes
<1>4. CtxTypes'
  BY <1>1, Zenon DEF CtxTypes
<1>5. BufTypes' /\ PrivTypes' /\ StatTypes' /\ HistTypes'
  BY <1>1, <1>2, Zenon DEF BufTypes, PrivTypes, StatTypes, HistTypes, bufVars, privVars,
     statVars
<1>6. HandsFull' /\ OwnersOK'
  BY <1>1, Contexts, Zenon DEF HandsFull, OwnersOK, CtxTypes, bufVars
<1> QED BY Zenon, <1>3, <1>4, <1>5, <1>6

(* Counting one more call keeps a table of counters one.                   *)
LEMMA CountOneMore ==
    ASSUME NEW S, NEW f \in [S -> Nat], NEW k
    PROVE  [f EXCEPT ![k] = f[k] + 1] \in [S -> Nat]
<1>1. CASE k \in S
  BY <1>1
<1>2. CASE k \notin S
  BY Zenon, <1>2
<1> QED BY Zenon, <1>1, <1>2

(* The part of a handler both modes share.                                 *)
LEMMA TypedTxDone ==
    ASSUME Typed, NEW c \in Ctx, NEW e \in Dev, TxDone(c, e)
    PROVE  /\ status' \in [Dev -> SUBSET {"RX", "TX"}]
           /\ lock' \in [Dev -> Ctx \cup {NoCtx}]
           /\ word' \in [Ctx -> SUBSET {"RX", "TX"}]
           /\ tx_packets' \in [Dev -> Nat]
           /\ frees' \in [Dev -> [1..MaxTx -> Nat]]
<1> USE DEF Typed, TypeOK
<1>1. /\ status' \in [Dev -> SUBSET {"RX", "TX"}]
      /\ lock' \in [Dev -> Ctx \cup {NoCtx}]
      /\ word' \in [Ctx -> SUBSET {"RX", "TX"}]
  BY Zenon DEF TxDone, PrivTypes, CtxTypes
<1>2. tx_packets' \in [Dev -> Nat]
  BY DEF TxDone, StatTypes
<1>3. frees' \in [Dev -> [1..MaxTx -> Nat]]
  <2>1. frees[e] \in [1..MaxTx -> Nat]
    BY Zenon DEF HistTypes
  <2>2. \/ UNCHANGED frees
        \/ frees' = [frees EXCEPT ![e] = [frees[e] EXCEPT ![skb[e]] = frees[e][skb[e]] + 1]]
    BY Zenon DEF TxDone
  <2>3. [frees[e] EXCEPT ![skb[e]] = frees[e][skb[e]] + 1] \in [1..MaxTx -> Nat]
    BY Zenon, <2>1, CountOneMore
  <2> QED BY <2>2, <2>3, Zenon DEF HistTypes
<1> QED BY Zenon, <1>1, <1>2, <1>3

(* The part of receiving a frame both consumers of rx_queue share.         *)
LEMMA TypedRx ==
    ASSUME Typed, NEW d \in Dev, NEW p \in Packet, NEW ok \in BOOLEAN,
           snull_rx(d, p, ok)
    PROVE  /\ delivered' \in [Dev -> Seq(0..MaxTx)]
           /\ rx_dropped' \in [Dev -> Nat]
<1> USE DEF Typed, TypeOK
<1>1. data[p] \in 0..MaxTx
  BY Zenon DEF BufTypes
<1>2. delivered[d] \in Seq(0..MaxTx)
  BY Zenon DEF HistTypes
<1>3. Append(delivered[d], data[p]) \in Seq(0..MaxTx)
  BY <1>1, <1>2
<1>4. \/ /\ delivered' = [delivered EXCEPT ![d] = Append(delivered[d], data[p])]
         /\ UNCHANGED rx_dropped
      \/ /\ rx_dropped' = [rx_dropped EXCEPT ![d] = rx_dropped[d] + 1]
         /\ UNCHANGED delivered
  BY Zenon DEF snull_rx
<1>5. delivered' \in [Dev -> Seq(0..MaxTx)]
  BY <1>3, <1>4, Zenon DEF HistTypes
<1>6. rx_dropped' \in [Dev -> Nat]
  BY <1>4 DEF StatTypes
<1> QED BY Zenon, <1>5, <1>6

(* snull_regular_interrupt keeps the types, whatever the status word.      *)
LEMMA TypedRegular ==
    ASSUME Typed, NEW c \in Ctx, snull_regular_interrupt(c)
    PROVE  Typed'
<1> USE DEF Typed, TypeOK
<1> DEFINE e == irqdev[c]
<1>1. /\ e \in Dev
      /\ TxDone(c, e)
      /\ UNCHANGED <<ppool, nextNull, data, rx_int_enabled, skb, tx_errors,
                     netVars, irqdev, npackets, npool, sent, closes, blind>>
      /\ ReceiveOne(c, e) \/ ReceiveNone(c, e)
  BY Zenon DEF snull_regular_interrupt, CtxTypes
<1> HIDE DEF e
<1>2. /\ status' \in [Dev -> SUBSET {"RX", "TX"}]
      /\ lock' \in [Dev -> Ctx \cup {NoCtx}]
      /\ word' \in [Ctx -> SUBSET {"RX", "TX"}]
      /\ tx_packets' \in [Dev -> Nat]
      /\ frees' \in [Dev -> [1..MaxTx -> Nat]]
  BY Zenon, <1>1, TypedTxDone
<1>3. PrivTypes' /\ NetTypes'
  BY <1>1, <1>2, Zenon DEF PrivTypes, NetTypes, netVars
<1>4. CASE ReceiveOne(c, e)
  <2> DEFINE p == Head(rx_queue[e])
  <2>1. /\ rx_queue[e] \in Seq(Packet) /\ rx_queue[e] # <<>>
        /\ rx_queue' = [rx_queue EXCEPT ![e] = Tail(rx_queue[e])]
        /\ pkt' = [pkt EXCEPT ![c] = p]
        /\ pc' = [pc EXCEPT ![c] = "release"]
    BY <1>1, <1>4, Zenon DEF ReceiveOne, Goto, BufTypes
  <2>2. /\ p \in Packet
        /\ Tail(rx_queue[e]) \in Seq(Packet)
        /\ Range(rx_queue[e]) = Range(Tail(rx_queue[e])) \cup {p}
    BY Zenon, <2>1, PopProperties
  <2> HIDE DEF p
  <2>3. delivered' \in [Dev -> Seq(0..MaxTx)] /\ rx_dropped' \in [Dev -> Nat]
    BY <1>1, <1>4, <2>2, TypedRx, ParamAssumption, Zenon DEF ReceiveOne, p
  <2>4. BufTypes'
    BY <1>1, <2>1, <2>2, Zenon DEF BufTypes
  <2>5. CtxTypes'
    BY <1>1, <1>2, <2>1, <2>2, Zenon DEF CtxTypes, Labels
  <2>6. StatTypes' /\ HistTypes'
    BY <1>1, <1>2, <2>3, Zenon DEF StatTypes, HistTypes
  <2>7. HandsFull'
    BY <2>1, <2>2, Contexts, Zenon DEF HandsFull, CtxTypes
  <2>8. OwnersOK'
    BY <1>1, <2>1, <2>2, Zenon DEF OwnersOK, BufTypes
  <2> QED BY Zenon, <1>3, <2>4, <2>5, <2>6, <2>7, <2>8
<1>5. CASE ReceiveNone(c, e)
  <2>1. /\ pc' = [pc EXCEPT ![c] = AfterIrq(c)]
        /\ AfterIrq(c) \in Labels \ {"enqueue", "release"}
        /\ UNCHANGED <<pkt, rx_queue, delivered, rx_dropped>>
    BY <1>5, Zenon DEF ReceiveNone, AfterIrq, Goto, Labels
  <2>2. CtxTypes'
    BY <1>1, <1>2, <2>1, Zenon DEF CtxTypes
  <2>3. BufTypes' /\ StatTypes' /\ HistTypes'
    BY <1>1, <1>2, <2>1, Zenon DEF BufTypes, StatTypes, HistTypes
  <2>4. HandsFull' /\ OwnersOK'
    BY <1>1, <2>1, Contexts, Zenon DEF HandsFull, OwnersOK, CtxTypes
  <2> QED BY Zenon, <1>3, <2>2, <2>3, <2>4
<1> QED BY Zenon, <1>1, <1>4, <1>5
(* A step that leaves the lists and every local pkt alone, and does not    *)
(* bring its context to a place where it must hold a buffer.               *)
LEMMA HandsFrame ==
    ASSUME Typed, NEW c \in Ctx, NEW l \in Labels \ {"enqueue", "release"},
           pc' = [pc EXCEPT ![c] = l],
           UNCHANGED <<ppool, rx_queue, pkt>>
    PROVE  HandsFull' /\ OwnersOK' /\ pc' \in [Ctx -> Labels]
<1> USE DEF Typed, TypeOK
<1>1. HandsFull' /\ OwnersOK'
  BY Contexts, Zenon DEF HandsFull, OwnersOK, CtxTypes
<1>2. pc' \in [Ctx -> Labels]
  BY Zenon DEF CtxTypes
<1> QED BY Zenon, <1>1, <1>2

(* snull_napi_interrupt keeps the types.                                   *)
LEMMA TypedNapi ==
    ASSUME Typed, NEW c \in Ctx, snull_napi_interrupt(c)
    PROVE  Typed'
<1> USE DEF Typed, TypeOK
<1> DEFINE e == irqdev[c]
<1>1. /\ e \in Dev
      /\ TxDone(c, e)
      /\ UNCHANGED <<bufVars, skb, tx_errors, rx_dropped, link, stopped, pkt,
                     irqdev, npackets, npool, sent, delivered, closes, blind>>
      /\ pc' = [pc EXCEPT ![c] = AfterIrq(c)]
      /\ AfterIrq(c) \in Labels \ {"enqueue", "release"}
  BY Zenon DEF snull_napi_interrupt, CtxTypes, AfterIrq, Goto, Labels
<1>2. /\ rx_int_enabled' \in [Dev -> BOOLEAN]
      /\ napi' \in [Dev -> {"off", "idle", "sched", "missed"}]
  BY Zenon DEF snull_napi_interrupt, snull_rx_ints, napi_schedule, PrivTypes, NetTypes
<1> HIDE DEF e
<1>3. /\ status' \in [Dev -> SUBSET {"RX", "TX"}]
      /\ lock' \in [Dev -> Ctx \cup {NoCtx}]
      /\ word' \in [Ctx -> SUBSET {"RX", "TX"}]
      /\ tx_packets' \in [Dev -> Nat]
      /\ frees' \in [Dev -> [1..MaxTx -> Nat]]
  BY Zenon, <1>1, TypedTxDone
<1>4. HandsFull' /\ OwnersOK' /\ pc' \in [Ctx -> Labels]
  BY <1>1, HandsFrame, Zenon DEF bufVars
<1>5. PrivTypes' /\ NetTypes' /\ StatTypes' /\ HistTypes'
  BY <1>1, <1>2, <1>3, Zenon DEF PrivTypes, NetTypes, StatTypes, HistTypes
<1>6. BufTypes' /\ CtxTypes'
  BY <1>1, <1>3, <1>4, Zenon DEF BufTypes, CtxTypes, bufVars
<1> QED BY Zenon, <1>4, <1>5, <1>6

(* Reading and clearing the status word keeps the types.                   *)
LEMMA TypedIrqEnter ==
    ASSUME Typed, NEW c \in Ctx, IrqEnter(c)
    PROVE  Typed'
<1> USE DEF Typed, TypeOK
<1>1. /\ pc' = [pc EXCEPT ![c] = "irq_body"]
      /\ UNCHANGED <<bufVars, status, rx_int_enabled, skb, statVars, netVars,
                     pkt, irqdev, npackets, histVars>>
  BY Zenon DEF IrqEnter, Step, Goto
<1>2. HandsFull' /\ OwnersOK' /\ pc' \in [Ctx -> Labels]
  BY <1>1, HandsFrame, Zenon DEF bufVars, Labels
<1>3. PrivTypes' /\ word' \in [Ctx -> SUBSET {"RX", "TX"}]
  BY Zenon DEF IrqEnter, PrivTypes, CtxTypes
<1>4. BufTypes' /\ StatTypes' /\ NetTypes' /\ HistTypes'
  BY <1>1, Zenon DEF BufTypes, StatTypes, NetTypes, HistTypes, bufVars, statVars,
     netVars, histVars
<1>5. CtxTypes'
  BY <1>1, <1>2, <1>3, Zenon DEF CtxTypes
<1> QED BY Zenon, <1>2, <1>3, <1>4, <1>5

(* The entry of snull_tx keeps the types.                                  *)
LEMMA TypedTx ==
    ASSUME Typed, NEW d \in Dev, snull_tx(d)
    PROVE  Typed'
<1> USE DEF Typed, TypeOK
<1>1. /\ pc' = [pc EXCEPT ![Xmit(d)] = "get"]
      /\ UNCHANGED <<bufVars, status, rx_int_enabled, lock, statVars, netVars,
                     locals, npool, frees, delivered, closes, blind>>
  BY Zenon DEF snull_tx, Goto
<1>2. HandsFull' /\ OwnersOK' /\ pc' \in [Ctx -> Labels]
  BY <1>1, HandsFrame, Contexts, Zenon DEF bufVars, locals, Labels
<1>3. sent' \in [Dev -> 0..MaxTx] /\ skb' \in [Dev -> 0..MaxTx]
  <2>1. /\ sent \in [Dev -> 0..MaxTx] /\ skb \in [Dev -> 0..MaxTx]
        /\ sent' = [sent EXCEPT ![d] = sent[d] + 1] /\ sent[d] < MaxTx
        /\ skb' = [skb EXCEPT ![d] = sent[d] + 1]
    BY Zenon DEF snull_tx, HistTypes, PrivTypes
  <2> QED BY <2>1, BoundAssumption
<1>4. BufTypes' /\ StatTypes' /\ NetTypes'
  BY <1>1, Zenon DEF BufTypes, StatTypes, NetTypes, bufVars, statVars, netVars
<1>5. PrivTypes' /\ HistTypes' /\ CtxTypes'
  BY <1>1, <1>2, <1>3, Zenon DEF PrivTypes, HistTypes, CtxTypes, locals
<1> QED BY Zenon, <1>2, <1>4, <1>5

(* The steps of snull_hw_tx that touch no list keep the types.             *)
LEMMA TypedHwTx ==
    ASSUME Typed, NEW d \in Dev,
           PoolEmptyOops(d) \/ HwTxRxEnabled(d) \/ HwTxRaise(d) \/ HwTxLockup(d)
    PROVE  Typed'
<1> USE DEF Typed, TypeOK
<1> DEFINE c == Xmit(d)
<1>1. c \in Ctx /\ d \in Dev /\ Twin(d) \in Dev
  BY Zenon, Contexts, Twins
<1>2. /\ UNCHANGED <<bufVars, rx_int_enabled, skb, statVars, link, napi, pkt,
                     npackets, histVars>>
      /\ \E l \in Labels \ {"enqueue", "release"} : pc' = [pc EXCEPT ![c] = l]
  BY Zenon DEF PoolEmptyOops, HwTxRxEnabled, HwTxRaise, HwTxLoad, HwTxStore, HwTxLockup,
     AfterLockup, Step, Goto, Labels, privVars, netVars, locals
<1>3. HandsFull' /\ OwnersOK' /\ pc' \in [Ctx -> Labels]
  BY <1>1, <1>2, HandsFrame, Zenon DEF bufVars
<1>4. lock' \in [Dev -> Ctx \cup {NoCtx}] /\ stopped' \in [Dev -> BOOLEAN]
  <2>1. lock' \in [Dev -> Ctx \cup {NoCtx}]
    BY <1>1, Zenon DEF PoolEmptyOops, HwTxRxEnabled, HwTxRaise, HwTxLoad, HwTxStore,
       HwTxLockup, PrivTypes, privVars
  <2>2. \/ UNCHANGED stopped
        \/ stopped' = [stopped EXCEPT ![d] = stopped[d] \/ SimulateLockup(d)]
    BY Zenon DEF PoolEmptyOops, HwTxRxEnabled, HwTxRaise, HwTxLoad, HwTxStore,
       HwTxLockup, StopQueue, netVars
  <2>3. SimulateLockup(d) \in BOOLEAN
    BY Zenon DEF SimulateLockup
  <2>4. stopped' \in [Dev -> BOOLEAN]
    BY <2>2, <2>3, Zenon DEF NetTypes
  <2> QED BY Zenon, <2>1, <2>4
<1>5. /\ status' \in [Dev -> SUBSET {"RX", "TX"}]
      /\ word' \in [Ctx -> SUBSET {"RX", "TX"}]
      /\ irqdev' \in [Ctx -> Dev]
  <2>1. CASE UNCHANGED <<status, word, irqdev>>
    BY <2>1, Zenon DEF PrivTypes, CtxTypes
  <2>2. CASE HwTxRaise(d)
    <3>1. ASSUME NEW e \in Dev, NEW from, NEW to, HwTxLoad(c, e, from, to)
          PROVE  /\ status' \in [Dev -> SUBSET {"RX", "TX"}]
                 /\ word' \in [Ctx -> SUBSET {"RX", "TX"}]
                 /\ irqdev' \in [Ctx -> Dev]
      BY <1>1, <3>1, Zenon DEF HwTxLoad, PrivTypes, CtxTypes, privVars
    <3>2. ASSUME NEW e \in Dev, NEW bit \in {"RX", "TX"}, NEW from, NEW to,
                 HwTxStore(c, e, bit, from, to)
          PROVE  /\ status' \in [Dev -> SUBSET {"RX", "TX"}]
                 /\ word' \in [Ctx -> SUBSET {"RX", "TX"}]
                 /\ irqdev' \in [Ctx -> Dev]
      <4>1. word[c] \cup {bit} \in SUBSET {"RX", "TX"}
        BY <1>1, Zenon DEF CtxTypes
      <4> QED BY <1>1, <3>2, <4>1, Zenon DEF HwTxStore, PrivTypes, CtxTypes
    <3> QED BY <1>1, <2>2, <3>1, <3>2, Zenon DEF HwTxRaise
  <2> QED BY <2>1, <2>2, Zenon DEF PoolEmptyOops, HwTxRxEnabled, HwTxLockup, privVars, locals
<1>6. BufTypes' /\ StatTypes' /\ HistTypes'
  BY <1>2, Zenon DEF BufTypes, StatTypes, HistTypes, bufVars, statVars, histVars
<1>7. PrivTypes' /\ NetTypes' /\ CtxTypes'
  BY <1>2, <1>3, <1>4, <1>5, Zenon DEF PrivTypes, NetTypes, CtxTypes
<1> QED BY Zenon, <1>3, <1>6, <1>7

(* snull_tx_timeout keeps the types.                                       *)
LEMMA TypedWatchdog ==
    ASSUME Typed, NEW d \in Dev, WatchdogStep(d)
    PROVE  Typed'
<1> USE DEF Typed, TypeOK
<1>1. /\ UNCHANGED <<bufVars, rx_int_enabled, skb, lock, tx_packets, rx_dropped,
                     link, napi, locals, npool, sent, frees, delivered, closes>>
      /\ \E l \in Labels \ {"enqueue", "release"} : pc' = [pc EXCEPT ![Wdog(d)] = l]
  BY Zenon DEF WatchdogStep, snull_tx_timeout, TimeoutEnd, Step, Goto, Labels, privVars,
     statVars, netVars, histVars
<1>2. HandsFull' /\ OwnersOK' /\ pc' \in [Ctx -> Labels]
  BY <1>1, Contexts, HandsFrame, Zenon DEF bufVars, locals
<1>3. status' \in [Dev -> SUBSET {"RX", "TX"}] /\ tx_errors' \in [Dev -> Nat]
  BY DEF WatchdogStep, snull_tx_timeout, TimeoutEnd, PrivTypes, StatTypes,
     privVars, statVars
<1>4. stopped' \in [Dev -> BOOLEAN] /\ blind' \in [Dev -> BOOLEAN]
  BY Zenon DEF WatchdogStep, snull_tx_timeout, TimeoutEnd, StartQueue, NetTypes, netVars,
     HistTypes, histVars
<1>5. BufTypes' /\ HistTypes'
  BY <1>1, <1>4, Zenon DEF BufTypes, HistTypes, bufVars
<1>6. PrivTypes' /\ StatTypes' /\ NetTypes' /\ CtxTypes'
  BY <1>1, <1>2, <1>3, <1>4, Zenon DEF PrivTypes, StatTypes, NetTypes, CtxTypes, locals
<1> QED BY Zenon, <1>2, <1>5, <1>6
(* A turn of snull_poll's loop takes a buffer of the twin off the queue,   *)
(* and stays within the budget.                                            *)
LEMMA TypedDequeue ==
    ASSUME Typed, NEW d \in Dev, snull_dequeue_buf(d)
    PROVE  Typed'
<1> USE DEF Typed, TypeOK
<1> DEFINE c == Poll(d)
           p == Head(rx_queue[d])
<1>1. /\ c \in Ctx /\ Twin(d) \in Dev /\ Twin(d) # d
      /\ \A e \in Dev : Xmit(e) # c /\ Xmit(e) \in Ctx
  BY Contexts, Twins, Zenon DEF Xmit, Poll
<1>2. /\ pc' = [pc EXCEPT ![c] = "release"]
      /\ rx_queue' = [rx_queue EXCEPT ![d] = Tail(@)]
      /\ pkt' = [pkt EXCEPT ![c] = p]
      /\ rx_queue[d] # <<>> /\ npackets[d] < NapiWeight
      /\ UNCHANGED <<ppool, nextNull, data, privVars, tx_packets, tx_errors,
                     netVars, word, irqdev, npool, sent, frees, closes, blind>>
  BY Zenon DEF snull_dequeue_buf, Step, Goto, PollMore
<1>3. PICK ok \in SkbAlloc :
          /\ snull_rx(d, p, ok)
          /\ npackets' = [npackets EXCEPT ![d] = IF ok THEN @ + 1 ELSE @]
  BY Zenon DEF snull_dequeue_buf
<1>4. /\ p \in Packet /\ Tail(rx_queue[d]) \in Seq(Packet)
      /\ Range(rx_queue[d]) = Range(Tail(rx_queue[d])) \cup {p}
  BY <1>2, PopProperties, Zenon DEF BufTypes
<1> HIDE DEF c, p
<1>5. rx_dropped' \in [Dev -> Nat] /\ delivered' \in [Dev -> Seq(0..MaxTx)]
  BY Zenon, <1>3, <1>4, TypedRx, ParamAssumption
<1>6. npackets' \in [Dev -> 0..NapiWeight]
  BY <1>2, <1>3 DEF CtxTypes, NapiWeight
<1>7. HandsFull'
  BY <1>1, <1>2, <1>4, Zenon DEF HandsFull, CtxTypes
<1>8. OwnersOK'
  BY <1>2, <1>4, Zenon DEF OwnersOK, BufTypes
<1>9. BufTypes'
  BY <1>2, <1>4, Zenon DEF BufTypes
<1>10. PrivTypes' /\ NetTypes'
  BY <1>2, Zenon DEF PrivTypes, NetTypes, privVars, netVars
<1>11. StatTypes' /\ HistTypes'
  BY <1>2, <1>5, Zenon DEF StatTypes, HistTypes
<1>12. CtxTypes'
  BY <1>1, <1>2, <1>4, <1>6, Zenon DEF CtxTypes, Labels
<1> QED BY Zenon, <1>7, <1>8, <1>9, <1>10, <1>11, <1>12

(* The other steps of snull_poll keep the types.                           *)
LEMMA TypedPoll ==
    ASSUME Typed, NEW d \in Dev,
           snull_poll(d) \/ PollComplete(d) \/ PollEnableInts(d)
    PROVE  Typed'
<1> USE DEF Typed, TypeOK
<1>1. /\ UNCHANGED <<bufVars, status, skb, lock, statVars, link, stopped, pkt,
                     word, irqdev, histVars>>
      /\ \E l \in Labels \ {"enqueue", "release"} : pc' = [pc EXCEPT ![Poll(d)] = l]
  BY Zenon DEF snull_poll, PollComplete, PollEnableInts, Step, Goto, Labels, privVars,
     netVars, locals
<1>2. HandsFull' /\ OwnersOK' /\ pc' \in [Ctx -> Labels]
  BY <1>1, Contexts, HandsFrame, Zenon DEF bufVars
<1>3. /\ rx_int_enabled' \in [Dev -> BOOLEAN]
      /\ napi' \in [Dev -> {"off", "idle", "sched", "missed"}]
  BY Zenon DEF snull_poll, PollComplete, PollEnableInts, snull_rx_ints, PrivTypes,
     NetTypes, privVars, netVars
<1>4. npackets' \in [Dev -> 0..NapiWeight]
  <2>1. npackets' = npackets \/ npackets' = [npackets EXCEPT ![d] = 0]
    BY Zenon DEF snull_poll, PollComplete, PollEnableInts, locals
  <2> QED BY <2>1 DEF CtxTypes, NapiWeight
<1>5. BufTypes' /\ StatTypes' /\ HistTypes'
  BY <1>1, Zenon DEF BufTypes, StatTypes, HistTypes, bufVars, statVars, histVars
<1>6. PrivTypes' /\ NetTypes' /\ CtxTypes'
  BY <1>1, <1>2, <1>3, <1>4, Zenon DEF PrivTypes, NetTypes, CtxTypes
<1> QED BY Zenon, <1>2, <1>5, <1>6

(* Every step of the driver preserves the types and the owners.            *)
LEMMA TypedNext == Typed /\ [Next]_vars => Typed'
<1> SUFFICES ASSUME Typed, [Next]_vars PROVE Typed'
  BY Zenon
<1>1. ASSUME NEW d \in Dev, snull_open(d) \/ snull_release(d) \/ napi_disable(d)
      PROVE  Typed'
  BY Zenon, <1>1, TypedAdmin
<1>2. ASSUME NEW d \in Dev, snull_tx(d)
      PROVE  Typed'
  BY Zenon, <1>2, TypedTx
<1>3. ASSUME NEW d \in Dev, XmitStep(d)
      PROVE  Typed'
  BY <1>3, TypedGet, TypedEnqueue, TypedHwTx, Zenon DEF XmitStep
<1>4. ASSUME NEW d \in Dev, WatchdogStep(d)
      PROVE  Typed'
  BY <1>4, TypedWatchdog
<1>5. ASSUME NEW d \in Dev, PollStep(d)
      PROVE  Typed'
  BY <1>5, TypedDequeue, TypedPoll, Zenon DEF PollStep
<1>6. ASSUME NEW c \in Ctx, HandlerStep(c)
      PROVE  Typed'
  BY Zenon, <1>6, TypedIrqEnter, TypedRegular, TypedNapi, TypedRelease, TypedTests
     DEF HandlerStep
<1>7. CASE UNCHANGED vars
  BY <1>7, Zenon DEF Typed, TypeOK, HandsFull, OwnersOK, BufTypes, PrivTypes, StatTypes,
     NetTypes, CtxTypes, HistTypes, vars, bufVars, privVars, statVars, netVars,
     locals, histVars
<1> QED BY <1>1, <1>2, <1>3, <1>4, <1>5, <1>6, <1>7, Zenon DEF Next, Rest

(* The driver is type correct whatever its contexts do: no list link, lock *)
(* owner, status word or counter ever leaves its type, and a NAPI poll     *)
(* never handles more frames than its weight.                              *)
THEOREM TypeCorrect == Spec => []TypeOK
<1>1. Init => Typed
  BY Zenon, TypedInit
<1>2. Typed => TypeOK
  BY Zenon DEF Typed
<1> QED BY <1>1, <1>2, TypedNext, PTL DEF Spec
-----------------------------------------------------------------------------
(* Buffer conservation                                                     *)

Holding == {"enqueue", "release"}

(* Only context c moves, and it holds no buffer before or after.           *)
LEMMA ConservedFrame ==
    ASSUME BuffersConserved, NEW c \in Ctx,
           UNCHANGED <<ppool, rx_queue, npool>>,
           pc[c] \notin Holding, pc'[c] \notin Holding,
           \A b \in Ctx \ {c} : pc'[b] = pc[b] /\ pkt'[b] = pkt[b]
    PROVE  BuffersConserved'
<1>1. \A p \in Packet : (InPool(p)' <=> InPool(p)) /\ (InFlight(p)' <=> InFlight(p))
  BY Zenon DEF InPool, InFlight
<1>2. \A b \in Ctx, p \in Packet : Holds(b, p)' <=> Holds(b, p)
  BY Zenon DEF Holds, Holding
<1>3. ListsWellFormed'
  BY Zenon DEF BuffersConserved, ListsWellFormed
<1>4. OnePlace'
  BY <1>1, <1>2, Zenon DEF BuffersConserved, OnePlace
<1>5. NoneLost'
  BY <1>1, <1>2, Zenon DEF BuffersConserved, NoneLost
<1> QED BY <1>3, <1>4, <1>5, Zenon DEF BuffersConserved

(* Context c takes a buffer off the one list it is on.                     *)
LEMMA ConservedTake ==
    ASSUME OnePlace, NoneLost, UNCHANGED npool,
           NEW c \in Ctx, NEW p \in Packet,
           InPool(p) \/ InFlight(p), ~InPool(p)', ~InFlight(p)',
           \A q \in Packet \ {p} : /\ InPool(q)' <=> InPool(q)
                                   /\ InFlight(q)' <=> InFlight(q),
           pc[c] \notin Holding, pc'[c] \in Holding, pkt'[c] = p,
           \A b \in Ctx \ {c} : pc'[b] = pc[b] /\ pkt'[b] = pkt[b]
    PROVE  OnePlace' /\ NoneLost'
<1>1. \A b \in Ctx \ {c}, q \in Packet : Holds(b, q)' <=> Holds(b, q)
  BY Zenon DEF Holds
<1>2. \A q \in Packet : (Holds(c, q)' <=> q = p) /\ ~Holds(c, q)
  BY Zenon DEF Holds, Holding
<1>3. OnePlace'
  BY <1>1, <1>2 DEF OnePlace
<1>4. NoneLost'
  BY <1>1, <1>2, Zenon DEF NoneLost
<1> QED BY Zenon, <1>3, <1>4

(* Context c links the buffer it holds into one list.                      *)
LEMMA ConservedPut ==
    ASSUME OnePlace, NoneLost, UNCHANGED npool,
           NEW c \in Ctx, NEW p \in Packet,
           \/ InPool(p)' /\ ~InFlight(p)'
           \/ InFlight(p)' /\ ~InPool(p)',
           \A q \in Packet \ {p} : /\ InPool(q)' <=> InPool(q)
                                   /\ InFlight(q)' <=> InFlight(q),
           pc[c] \in Holding, pc'[c] \notin Holding, pkt[c] = p,
           \A b \in Ctx \ {c} : pc'[b] = pc[b] /\ pkt'[b] = pkt[b]
    PROVE  OnePlace' /\ NoneLost'
<1>1. \A b \in Ctx \ {c}, q \in Packet : Holds(b, q)' <=> Holds(b, q)
  BY Zenon DEF Holds
<1>2. \A q \in Packet : (Holds(c, q) <=> q = p) /\ ~Holds(c, q)'
  BY Zenon DEF Holds, Holding
<1>3. OnePlace'
  BY <1>1, <1>2, Zenon DEF OnePlace
<1>4. NoneLost'
  BY <1>1, <1>2, Zenon DEF NoneLost
<1> QED BY Zenon, <1>3, <1>4
(* Popping the pool's head into the hands of a context.                    *)
LEMMA ConservedPopPool ==
    ASSUME Typed, BuffersConserved, NEW c \in Ctx, NEW d \in Dev,
           ppool[d] # <<>>,
           ppool' = [ppool EXCEPT ![d] = Tail(@)],
           pkt'[c] = Head(ppool[d]),
           pc[c] \notin Holding, pc'[c] \in Holding,
           \A b \in Ctx \ {c} : pc'[b] = pc[b] /\ pkt'[b] = pkt[b],
           UNCHANGED <<rx_queue, npool>>
    PROVE  BuffersConserved'
<1> USE DEF BuffersConserved
<1>1. ppool \in [Dev -> Seq(Packet)] /\ ppool[d] \in Seq(Packet)
  BY Zenon DEF Typed, TypeOK, BufTypes
<1>2. IsInjective(ppool[d]) /\ \A q \in Range(ppool[d]) : Owner(q) = d
  BY Zenon DEF ListsWellFormed
<1>3. PICK p \in Packet :
      /\ p = Head(ppool[d])
      /\ Range(ppool[d]) = Range(Tail(ppool[d])) \cup {p}
      /\ IsInjective(Tail(ppool[d]))
      /\ p \notin Range(Tail(ppool[d]))
  BY Zenon, <1>1, <1>2, PopProperties
<1>4. Owner(p) = d /\ InPool(p) /\ ~InPool(p)'
  BY <1>1, <1>2, <1>3, Zenon DEF InPool
<1>5. ~InFlight(p)'
  BY <1>3, <1>4, Zenon DEF OnePlace, InFlight
<1>6. \A q \in Packet \ {p} : /\ InPool(q)' <=> InPool(q)
                              /\ InFlight(q)' <=> InFlight(q)
  BY <1>1, <1>3, Owners, Zenon DEF InPool, InFlight
<1>7. OnePlace' /\ NoneLost'
  BY Zenon, <1>3, <1>4, <1>5, <1>6, ConservedTake
<1>8. ListsWellFormed'
  BY <1>1, <1>2, <1>3, Zenon DEF ListsWellFormed
<1> QED BY Zenon, <1>7, <1>8

(* Popping the receive queue's head into the hands of a context.           *)
LEMMA ConservedPopQueue ==
    ASSUME Typed, BuffersConserved, NEW c \in Ctx, NEW d \in Dev,
           rx_queue[d] # <<>>,
           rx_queue' = [rx_queue EXCEPT ![d] = Tail(@)],
           pkt'[c] = Head(rx_queue[d]),
           pc[c] \notin Holding, pc'[c] \in Holding,
           \A b \in Ctx \ {c} : pc'[b] = pc[b] /\ pkt'[b] = pkt[b],
           UNCHANGED <<ppool, npool>>
    PROVE  BuffersConserved'
<1> USE DEF BuffersConserved
<1>1. rx_queue \in [Dev -> Seq(Packet)] /\ rx_queue[d] \in Seq(Packet)
  BY Zenon DEF Typed, TypeOK, BufTypes
<1>2. IsInjective(rx_queue[d]) /\ \A q \in Range(rx_queue[d]) : Owner(q) = Twin(d)
  BY Zenon DEF ListsWellFormed
<1>3. PICK p \in Packet :
      /\ p = Head(rx_queue[d])
      /\ Range(rx_queue[d]) = Range(Tail(rx_queue[d])) \cup {p}
      /\ IsInjective(Tail(rx_queue[d]))
      /\ p \notin Range(Tail(rx_queue[d]))
  BY Zenon, <1>1, <1>2, PopProperties
<1>4. Twin(Owner(p)) = d /\ InFlight(p) /\ ~InFlight(p)'
  BY <1>1, <1>2, <1>3, Twins, Zenon DEF InFlight
<1>5. ~InPool(p)'
  BY <1>3, <1>4, Zenon DEF OnePlace, InPool
<1>6. \A q \in Packet \ {p} : /\ InPool(q)' <=> InPool(q)
                              /\ InFlight(q)' <=> InFlight(q)
  BY <1>1, <1>3, Owners, Zenon DEF InPool, InFlight
<1>7. OnePlace' /\ NoneLost'
  BY Zenon, <1>3, <1>4, <1>5, <1>6, ConservedTake
<1>8. ListsWellFormed'
  BY <1>1, <1>2, <1>3, Zenon DEF ListsWellFormed
<1> QED BY <1>7, <1>8

(* Linking a held buffer at the head of its owner's pool, or of the queue  *)
(* of its owner's twin.                                                    *)
LEMMA ConservedPush ==
    ASSUME Typed, BuffersConserved, NEW c \in Ctx, NEW p \in Packet,
           \/ /\ ppool' = [ppool EXCEPT ![Owner(p)] = <<p>> \o @]
              /\ UNCHANGED rx_queue
           \/ /\ rx_queue' = [rx_queue EXCEPT ![Twin(Owner(p))] = <<p>> \o @]
              /\ UNCHANGED ppool,
           pkt[c] = p, pc[c] \in Holding, pc'[c] \notin Holding,
           \A b \in Ctx \ {c} : pc'[b] = pc[b] /\ pkt'[b] = pkt[b],
           UNCHANGED npool
    PROVE  BuffersConserved'
<1> USE DEF BuffersConserved
<1> DEFINE d == Owner(p)
           e == Twin(d)
<1>1. /\ ppool \in [Dev -> Seq(Packet)] /\ rx_queue \in [Dev -> Seq(Packet)]
      /\ d \in Dev /\ e \in Dev /\ Twin(e) = d
  BY Twins, Zenon DEF Typed, TypeOK, BufTypes, Owner, Packet
<1>2. ~InPool(p) /\ ~InFlight(p)
  BY Zenon DEF OnePlace, Holds, Holding
<1>3. /\ p \notin Range(ppool[d]) /\ IsInjective(ppool[d])
      /\ p \notin Range(rx_queue[e]) /\ IsInjective(rx_queue[e])
      /\ ppool[d] \in Seq(Packet) /\ rx_queue[e] \in Seq(Packet)
  BY <1>1, <1>2, Zenon DEF ListsWellFormed, InPool, InFlight
<1>4. ASSUME NEW q \in Seq(Packet), p \notin Range(q), IsInjective(q)
      PROVE  Range(<<p>> \o q) = Range(q) \cup {p} /\ IsInjective(<<p>> \o q)
  BY SMTT(30), <1>4, PushProperties
<1> DEFINE s == <<p>> \o ppool[d]
           t == <<p>> \o rx_queue[e]
<1>5. \/ ppool' = [ppool EXCEPT ![d] = s] /\ UNCHANGED rx_queue
      \/ rx_queue' = [rx_queue EXCEPT ![e] = t] /\ UNCHANGED ppool
  BY Zenon
<1>6. /\ Range(s) = Range(ppool[d]) \cup {p} /\ IsInjective(s)
      /\ Range(t) = Range(rx_queue[e]) \cup {p} /\ IsInjective(t)
  BY <1>3, <1>4, Zenon
<1> HIDE DEF s, t
<1>7. \/ InPool(p)' /\ ~InFlight(p)'
      \/ InFlight(p)' /\ ~InPool(p)'
  BY <1>1, <1>2, <1>5, <1>6, Zenon DEF InPool, InFlight
<1>8. \A q \in Packet \ {p} : /\ InPool(q)' <=> InPool(q)
                              /\ InFlight(q)' <=> InFlight(q)
  <2>1. CASE ppool' = [ppool EXCEPT ![d] = s] /\ UNCHANGED rx_queue
    BY <1>1, <1>6, <2>1, Owners, Zenon DEF InPool, InFlight
  <2>2. CASE rx_queue' = [rx_queue EXCEPT ![e] = t] /\ UNCHANGED ppool
    BY <1>1, <1>6, <2>2, Owners, Zenon DEF InPool, InFlight
  <2> QED BY Zenon, <1>5, <2>1, <2>2
<1>9. OnePlace' /\ NoneLost'
  BY Zenon, <1>7, <1>8, ConservedPut
<1>10. ListsWellFormed'
  <2>1. CASE ppool' = [ppool EXCEPT ![d] = s] /\ UNCHANGED rx_queue
    BY <1>1, <1>6, <2>1, Zenon DEF ListsWellFormed
  <2>2. CASE rx_queue' = [rx_queue EXCEPT ![e] = t] /\ UNCHANGED ppool
    BY <1>1, <1>6, <2>2, Zenon DEF ListsWellFormed
  <2> QED BY Zenon, <1>5, <2>1, <2>2
<1> QED BY Zenon, <1>9, <1>10

(* The inductive invariant: buffer conservation needs the types and the    *)
(* owners of the buffers on the lists and in the contexts' hands.          *)
Conserved == Typed /\ BuffersConserved

(* snull_setup_pool puts every buffer it allocated in its owner's pool.    *)
LEMMA ConservedInit == Init => BuffersConserved
<1> SUFFICES ASSUME Init PROVE BuffersConserved
  OBVIOUS
<1>1. npool \in [Dev -> 0..PoolSize]
  BY ParamAssumption, Zenon DEF Init
<1>2. \A d \in Dev : /\ IsInjective(ppool[d])
                    /\ Range(ppool[d]) = {d} \X (1..npool[d])
                    /\ rx_queue[d] = <<>>
  <2> SUFFICES ASSUME NEW d \in Dev
               PROVE  /\ IsInjective(ppool[d])
                      /\ Range(ppool[d]) = {d} \X (1..npool[d])
                      /\ rx_queue[d] = <<>>
    BY Zenon
  <2>1. /\ npool[d] \in 0..PoolSize /\ rx_queue[d] = <<>>
        /\ ppool[d] = [i \in 1..npool[d] |-> <<d, npool[d] + 1 - i>>]
    BY <1>1, Zenon DEF Init, snull_setup_pool
  <2> QED BY Zenon, <2>1, SetupPool
<1>3. \A d \in Dev : Range(rx_queue[d]) = {} /\ IsInjective(rx_queue[d])
  BY <1>2 DEF Range, IsInjective
<1>4. \A c \in Ctx, p \in Packet : ~Holds(c, p)
  BY Zenon DEF Init, Holds
<1>5. \A p \in Packet : ~InFlight(p)
  BY <1>3, Owners, Zenon DEF InFlight
<1>6. ListsWellFormed
  BY <1>2, <1>3 DEF ListsWellFormed, Owner
<1>7. OnePlace
  BY <1>4, <1>5, Zenon DEF OnePlace
<1>8. ASSUME NEW p \in Packet, p[2] <= npool[Owner(p)]
      PROVE  InPool(p)
  <2>1. /\ p = <<p[1], p[2]>> /\ p[1] \in Dev /\ p[2] \in 1..PoolSize
        /\ Owner(p) = p[1] /\ npool[p[1]] \in 0..PoolSize
    BY <1>1 DEF Packet, Owner
  <2>2. p[2] \in 1..npool[p[1]]
    BY SMTT(30), <1>8, <2>1, ParamAssumption
  <2> QED BY <1>2, <2>1, <2>2, Zenon DEF InPool
<1> QED BY <1>6, <1>7, <1>8, Zenon DEF BuffersConserved, NoneLost

(* Each step moves at most one buffer, from one place to the next.         *)
LEMMA ConservedNext == Conserved /\ [Next]_vars => BuffersConserved'
<1> SUFFICES ASSUME Typed, BuffersConserved, [Next]_vars
             PROVE  BuffersConserved'
  BY Zenon DEF Conserved
<1>0. DOMAIN pc = Ctx /\ DOMAIN pkt = Ctx
  BY Zenon DEF Typed, TypeOK, CtxTypes
<1>1. ASSUME UNCHANGED <<ppool, rx_queue, npool, pc, pkt>>
      PROVE  BuffersConserved'
  BY <1>1, Zenon DEF BuffersConserved, ListsWellFormed, OnePlace, NoneLost, InPool,
     InFlight, Holds
<1>2. ASSUME NEW c \in Ctx, NEW l \in Labels \ Holding,
             pc[c] \notin Holding, pc' = [pc EXCEPT ![c] = l],
             pkt' = pkt \/ pkt' = [pkt EXCEPT ![c] = <<>>],
             UNCHANGED <<ppool, rx_queue, npool>>
      PROVE  BuffersConserved'
  BY Zenon, <1>0, <1>2, ConservedFrame
<1>3. ASSUME NEW d \in Dev, snull_open(d) \/ snull_release(d) \/ napi_disable(d)
      PROVE  BuffersConserved'
  BY <1>1, <1>3, Zenon DEF snull_open, snull_release, napi_disable, bufVars, locals, histVars
<1>4. ASSUME NEW d \in Dev, snull_tx(d)
      PROVE  BuffersConserved'
  <2>1. pc[Xmit(d)] = "idle"
    BY <1>4, Zenon DEF snull_tx, TxLocked, At
  <2> QED BY <1>2, <1>4, <2>1, Contexts, Zenon DEF snull_tx, Goto, Labels, Holding,
          bufVars, locals
<1>5. ASSUME NEW d \in Dev, snull_get_tx_buffer(d)
      PROVE  BuffersConserved'
  BY <1>0, <1>5, ConservedPopPool, Contexts, Zenon DEF snull_get_tx_buffer, LastBuffer,
     Step, At, Goto, Holding, histVars
<1>6. ASSUME NEW d \in Dev, snull_enqueue_buf(d)
      PROVE  BuffersConserved'
  <2>1. /\ pc[Xmit(d)] = "enqueue"
        /\ pkt[Xmit(d)] \in Packet /\ Owner(pkt[Xmit(d)]) = d
    BY <1>6, Contexts, Zenon DEF snull_enqueue_buf, Step, At, Typed, HandsFull
  <2>2. PICK p \in Packet : p = pkt[Xmit(d)]
    BY Zenon, <2>1
  <2> QED BY <1>0, <1>6, <2>1, <2>2, ConservedPush, Contexts, Zenon DEF snull_enqueue_buf,
          Step, At, Goto, Holding, histVars
<1>7. ASSUME NEW d \in Dev,
             PoolEmptyOops(d) \/ HwTxRxEnabled(d) \/ HwTxRaise(d) \/ HwTxLockup(d)
      PROVE  BuffersConserved'
  <2>1. /\ UNCHANGED <<ppool, rx_queue, npool, pkt>>
        /\ pc[Xmit(d)] \notin Holding
        /\ \E l \in Labels \ Holding : pc' = [pc EXCEPT ![Xmit(d)] = l]
    BY <1>7, Zenon DEF PoolEmptyOops, HwTxRxEnabled, HwTxRaise, HwTxLoad, HwTxStore,
       HwTxLockup, AfterLockup, Step, At, Goto, Labels, Holding, bufVars, locals,
       histVars
  <2> QED BY Zenon, <1>2, <2>1, Contexts
<1>8. ASSUME NEW d \in Dev, WatchdogStep(d)
      PROVE  BuffersConserved'
  <2>1. /\ UNCHANGED <<ppool, rx_queue, npool, pkt>>
        /\ pc[Wdog(d)] \notin Holding
        /\ \E l \in Labels \ Holding : pc' = [pc EXCEPT ![Wdog(d)] = l]
    BY <1>8, Zenon DEF WatchdogStep, snull_tx_timeout, TimeoutEnd, TxLocked, Step, At, Goto,
       Labels, Holding, bufVars, locals, histVars
  <2> QED BY Zenon, <1>2, <2>1, Contexts
<1>9. ASSUME NEW d \in Dev, snull_dequeue_buf(d)
      PROVE  BuffersConserved'
  BY <1>0, <1>9, ConservedPopQueue, Contexts, Zenon DEF snull_dequeue_buf, PollMore, Step,
     At, Goto, Holding
<1>10. ASSUME NEW d \in Dev, snull_poll(d) \/ PollComplete(d) \/ PollEnableInts(d)
       PROVE  BuffersConserved'
  <2>1. /\ UNCHANGED <<ppool, rx_queue, npool, pkt>>
        /\ pc[Poll(d)] \notin Holding
        /\ \E l \in Labels \ Holding : pc' = [pc EXCEPT ![Poll(d)] = l]
    BY <1>10, Zenon DEF snull_poll, PollComplete, PollEnableInts, Step, At, Goto, Labels,
       Holding, bufVars, locals, histVars
  <2> QED BY Zenon, <1>2, <2>1, Contexts
<1>11. ASSUME NEW c \in Ctx,
              \/ IrqEnter(c) \/ snull_napi_interrupt(c)
              \/ ReleaseTests(c) \/ ReleaseReturn(c)
       PROVE  BuffersConserved'
  <2>1. /\ UNCHANGED <<ppool, rx_queue, npool>>
        /\ pkt' = pkt \/ pkt' = [pkt EXCEPT ![c] = <<>>]
        /\ pc[c] \notin Holding
        /\ \E l \in Labels \ Holding : pc' = [pc EXCEPT ![c] = l]
    BY <1>11, Zenon DEF IrqEnter, snull_napi_interrupt, ReleaseTests, ReleaseReturn,
       AfterRelease, AfterIrq, Step, At, Goto, Labels, Holding, bufVars, locals,
       histVars
  <2> QED BY Zenon, <1>2, <2>1
<1>12. ASSUME NEW c \in Ctx, snull_regular_interrupt(c)
       PROVE  BuffersConserved'
  <2>1. /\ UNCHANGED <<ppool, npool>> /\ pc[c] \notin Holding
        /\ irqdev[c] \in Dev
    BY <1>12, Zenon DEF snull_regular_interrupt, At, Holding, Typed, TypeOK, CtxTypes
  <2>2. CASE ReceiveOne(c, irqdev[c])
    BY <1>0, <2>1, <2>2, ConservedPopQueue, Zenon DEF ReceiveOne, Goto, Holding
  <2>3. CASE ReceiveNone(c, irqdev[c])
    BY <1>2, <2>1, <2>3, Zenon DEF ReceiveNone, AfterIrq, Goto, Labels, Holding
  <2> QED BY <1>12, <2>2, <2>3, Zenon DEF snull_regular_interrupt
<1>13. ASSUME NEW c \in Ctx, snull_release_buffer(c)
       PROVE  BuffersConserved'
  <2>1. pc[c] = "release" /\ pkt[c] \in Packet
    BY <1>13, Zenon DEF snull_release_buffer, Step, At, Typed, HandsFull
  <2>2. PICK p \in Packet : p = pkt[c]
    BY Zenon, <2>1
  <2> QED BY <1>0, <1>13, <2>1, <2>2, ConservedPush, Zenon DEF snull_release_buffer,
          ReleasePool, Step, At, Goto, Holding, locals, histVars
<1>14. CASE UNCHANGED vars
  BY <1>1, <1>14, Zenon DEF vars, bufVars, locals, histVars
<1> QED BY Zenon, <1>3, <1>4, <1>5, <1>6, <1>7, <1>8, <1>9, <1>10, <1>11, <1>12, <1>13,
        <1>14 DEF Next, XmitStep, PollStep, HandlerStep, Rest

(* Buffer conservation, for every pool size, lockup period, interrupt mode *)
(* and number of frames: whatever the two transmitters, the two watchdogs, *)
(* the two polls and the nested interrupt handlers do, a buffer is on at   *)
(* most one list, on the right one, in at most one context's hands, and    *)
(* none of those snull_setup_pool allocated is ever lost.                  *)
THEOREM Conservation == Spec => []BuffersConserved
<1>1. Init => Conserved
  BY TypedInit, ConservedInit, Zenon DEF Conserved
<1>2. Conserved /\ [Next]_vars => Conserved'
  BY TypedNext, ConservedNext, Zenon DEF Conserved
<1>3. Conserved => BuffersConserved
  BY Zenon DEF Conserved
<1> QED BY <1>1, <1>2, <1>3, PTL DEF Spec
============================================================================
