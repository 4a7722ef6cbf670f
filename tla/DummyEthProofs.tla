--------------------------- MODULE DummyEthProofs ---------------------------
(***************************************************************************)
(* Proofs about DummyEth, for every set of devices and every number of     *)
(* frames: no frame is lost track of or freed twice, and the simulated     *)
(* hardware is a line that may lose frames but never reorders, doubles or  *)
(* invents one.                                                            *)
(***************************************************************************)
EXTENDS DummyEth, ListFacts

(* Where the thread can be with and without a frame, and what must be gone *)
(* when a module is: only then does loading dummy-hw find an empty queue.  *)
Control ==
    /\ hw = "out" => skb_tx_q = <<>> /\ thread = "none"
    /\ hw # "in" => eth = "out"
    /\ eth = "out" => \A d \in Dev : dev[d] # "up"
    /\ thread \in {"none", "while", "msleep", "empty", "dequeue"} => cur = NoSkb
    /\ thread \in {"irq", "call", "rx", "reinject"} => cur # NoSkb

(* A frame is in one place if it has been transmitted, and else nowhere.   *)
PlaceOf(s) ==
    /\ s \in Range(skb_tx_q) => s # cur /\ freed[s] = 0 /\ s \notin Range(received)
    /\ s = cur => freed[s] = 0 /\ s \notin Range(received)
    /\ s \in Range(received) => freed[s] = 0
    /\ s <= sent <=> \/ s \in Range(skb_tx_q) \/ s = cur
                     \/ freed[s] = 1 \/ s \in Range(received)

Placed ==
    /\ IsInjective(skb_tx_q) /\ IsInjective(received)
    /\ \A s \in Skb : PlaceOf(s)

(* The variables the moves of a frame do not touch have their types.       *)
RestTypes ==
    /\ hw \in {"out", "in", "stopping"}
    /\ eth \in {"out", "in", "flush", "unregister"}
    /\ should_stop \in BOOLEAN /\ dummy_drv_rx \in BOOLEAN
    /\ thread \in {"none", "while", "msleep", "empty", "dequeue", "irq", "call",
                   "rx", "reinject", "oops"}
    /\ dev \in [Dev -> {"none", "down", "up", "gone"}]
    /\ skb_dev \in [1..sent -> Dev] /\ answer \in [1..sent -> BOOLEAN]
    /\ late \in Nat /\ hasty \in BOOLEAN

FrameTypes ==
    /\ skb_tx_q \in Seq(Skb) /\ cur \in Skb \cup {NoSkb} /\ sent \in 0..MaxSkb
    /\ freed \in [Skb -> 0..1] /\ received \in Seq(Skb)

Frames == FrameTypes /\ Placed

Inv == RestTypes /\ Control /\ Frames

(* The line of LossyFifo.                                                  *)
Hand == IF cur = NoSkb THEN <<>> ELSE <<cur>>
Line == Hand \o skb_tx_q

FifoStep == [Fifo!Next]_(Fifo!vars)

-----------------------------------------------------------------------------
(* Facts about the line                                                    *)

(* Without a frame in the thread's hands the line is the queue.            *)
LEMMA LineIdle ==
    ASSUME FrameTypes, cur = NoSkb
    PROVE  Line = skb_tx_q
BY ConcatEmptySeq, Zenon DEF Line, Hand, FrameTypes

(* Else the frame it holds comes first, and the queue after it.            *)
LEMMA LineBusy ==
    ASSUME FrameTypes, cur # NoSkb
    PROVE  /\ Line = <<cur>> \o skb_tx_q
           /\ Line \in Seq(Skb) /\ Line # <<>> /\ Len(Line) = Len(skb_tx_q) + 1
           /\ Head(Line) = cur /\ Tail(Line) = skb_tx_q
           /\ \A i \in 1..Len(skb_tx_q) : Line[i + 1] = skb_tx_q[i]
<1> DEFINE q == skb_tx_q
           l == <<cur>> \o q
<1>1. cur \in Skb /\ q \in Seq(Skb) /\ Line = l
  BY Zenon DEF FrameTypes, Line, Hand
<1>2. /\ l \in Seq(Skb) /\ Len(q) \in Nat /\ Len(l) = Len(q) + 1
      /\ l[1] = cur /\ \A i \in 1..Len(q) : l[i + 1] = q[i]
  BY <1>1
<1> HIDE DEF q, l
<1>3. l # <<>> /\ Head(l) = cur
  BY <1>2
<1>4. /\ Tail(l) \in Seq(Skb) /\ Len(Tail(l)) = Len(q)
      /\ \A i \in 1..Len(q) : Tail(l)[i] = q[i]
  BY <1>2, <1>3, HeadTailProperties
<1>5. Tail(l) = q
  BY Zenon, <1>1, <1>4, SeqEqual
<1> QED BY <1>1, <1>2, <1>3, <1>5, Zenon DEF q, l

(* Taking the head of the queue into the hand leaves the line as it is.    *)
LEMMA SplitHead ==
    ASSUME NEW q \in Seq(Skb), q # <<>>
    PROVE  <<Head(q)>> \o Tail(q) = q
<1> DEFINE h == Head(q)
           t == Tail(q)
           l == <<h>> \o t
<1>1. /\ h \in Skb /\ t \in Seq(Skb) /\ Len(q) \in Nat \ {0}
      /\ h = q[1] /\ Len(t) = Len(q) - 1
      /\ \A i \in 1..Len(q) - 1 : t[i] = q[i + 1]
  BY HeadTailProperties, EmptySeq
<1> HIDE DEF h, t
<1>2. /\ l \in Seq(Skb) /\ Len(l) = Len(t) + 1
      /\ l[1] = h /\ \A i \in 1..Len(t) : l[i + 1] = t[i]
  BY <1>1
<1> HIDE DEF l
<1>3. ASSUME NEW i \in 1..Len(q)
      PROVE  l[i] = q[i]
  <2>1. CASE i = 1
    BY Zenon, <1>1, <1>2, <2>1
  <2>2. CASE i # 1
    <3>1. i - 1 \in 1..Len(t) /\ i - 1 \in 1..Len(q) - 1 /\ (i - 1) + 1 = i
      BY <1>1, <2>2
    <3> QED BY Zenon, <1>1, <1>2, <3>1
  <2> QED BY Zenon, <2>1, <2>2
<1>4. l = q
  BY <1>1, <1>2, <1>3, SeqEqual
<1> QED BY <1>4, Zenon DEF l, h, t

(* One more entry at the end of a table of n entries makes one of n + 1.   *)
LEMMA Grows ==
    ASSUME NEW S, NEW n \in Nat, NEW f \in [1..n -> S], NEW e \in S
    PROVE  Append(f, e) \in [1..n + 1 -> S]
<1>1. f \in Seq(S) /\ Len(f) = n
  OBVIOUS
<1>2. Append(f, e) \in Seq(S) /\ Len(Append(f, e)) = n + 1
  BY Zenon, <1>1, AppendProperties
<1> QED BY Zenon, <1>2, LenProperties

-----------------------------------------------------------------------------
(* The moves of a frame.  Each keeps every frame in one place and is a     *)
(* step of the line.                                                       *)

(* No frame moves.                                                         *)
LEMMA Stays ==
    ASSUME Frames, UNCHANGED <<skb_tx_q, cur, sent, freed, received>>
    PROVE  Frames' /\ FifoStep
<1>1. Frames'
  BY Zenon DEF Frames, FrameTypes, Placed, PlaceOf
<1>2. UNCHANGED Fifo!vars
  BY Zenon DEF Fifo!vars
<1> QED BY <1>1, <1>2, Zenon DEF FifoStep

(* dummy_xmit puts a new frame at the end of the queue.                    *)
LEMMA Put ==
    ASSUME Frames, sent < MaxSkb, sent' = sent + 1,
           skb_tx_q' = Append(skb_tx_q, sent + 1),
           UNCHANGED <<cur, freed, received>>
    PROVE  Frames' /\ FifoStep
<1> DEFINE q == skb_tx_q
           n == sent + 1
<1>1. n \in Skb /\ sent \in Nat /\ sent + 1 \in 0..MaxSkb /\ ~(n <= sent)
  BY SkbAssumption DEF Frames, FrameTypes, Skb
<1>2. n \notin Range(q) /\ n # cur /\ freed[n] = 0 /\ n \notin Range(received)
  BY <1>1 DEF Frames, FrameTypes, Placed, PlaceOf
<1>3. /\ q' \in Seq(Skb) /\ Range(q') = Range(q) \cup {n} /\ IsInjective(q')
  BY <1>1, <1>2, LinkTailProperties DEF Frames, FrameTypes, Placed
<1>4. FrameTypes'
  BY <1>1, <1>3, Zenon DEF Frames, FrameTypes
<1>5. ASSUME NEW s \in Skb
      PROVE  PlaceOf(s)'
  <2>1. s <= sent' <=> s <= sent \/ s = n
    BY <1>1 DEF Skb
  <2> QED BY <1>1, <1>2, <1>3, <2>1, Zenon DEF Frames, Placed, PlaceOf
<1>6. Frames'
  BY <1>3, <1>4, <1>5, Zenon DEF Frames, Placed
<1>7. Line' = Append(Line, n)
  <2>1. Hand \in Seq(Skb) /\ q \in Seq(Skb) /\ <<n>> \in Seq(Skb) /\ Hand' = Hand
    BY <1>1 DEF Frames, FrameTypes, Hand
  <2>2. q' = q \o <<n>> /\ Line \in Seq(Skb)
    BY <1>1, <2>1, AppendIsConcat, ConcatProperties, Zenon DEF Line
  <2>3. Append(Line, n) = Line \o <<n>>
    BY Zenon, <1>1, <2>2, AppendIsConcat
  <2>4. Line \o <<n>> = Hand \o (q \o <<n>>)
    BY <2>1, ConcatAssociative DEF Line
  <2> QED BY <2>1, <2>2, <2>3, <2>4, Zenon DEF Line
<1>8. Fifo!Put
  BY <1>7, Zenon DEF Fifo!Put, Line, Hand
<1> QED BY <1>6, <1>8, Zenon DEF FifoStep, Fifo!Next

(* skb_dequeue takes the first frame of the queue into the hand: the line  *)
(* stays as it is.                                                         *)
LEMMA Dequeue ==
    ASSUME Frames, cur = NoSkb, skb_tx_q # <<>>,
           cur' = Head(skb_tx_q), skb_tx_q' = Tail(skb_tx_q),
           UNCHANGED <<sent, freed, received>>
    PROVE  Frames' /\ cur' # NoSkb /\ FifoStep
<1> DEFINE q == skb_tx_q
<1>1. /\ cur' \in Skb /\ q' \in Seq(Skb) /\ Range(q) = Range(q') \cup {cur'}
      /\ IsInjective(q') /\ cur' \notin Range(q')
  BY PopProperties, Zenon DEF Frames, FrameTypes, Placed
<1>2. NoSkb \notin Skb
  BY DEF NoSkb, Skb
<1>3. FrameTypes' /\ cur' # NoSkb
  BY <1>1, <1>2, Zenon DEF Frames, FrameTypes
<1>4. ASSUME NEW s \in Skb
      PROVE  PlaceOf(s)'
  BY <1>1, <1>2, Zenon DEF Frames, Placed, PlaceOf
<1>5. Frames'
  BY <1>1, <1>3, <1>4, Zenon DEF Frames, Placed
<1>6. Line' = <<Head(q)>> \o Tail(q)
  BY <1>3, Zenon DEF Line, Hand
<1>7. Line' = Line
  BY <1>6, SplitHead, LineIdle, Zenon DEF Frames, FrameTypes
<1>8. UNCHANGED Fifo!vars
  BY <1>7, Zenon DEF Fifo!vars, Line, Hand
<1> QED BY <1>3, <1>5, <1>8, Zenon DEF FifoStep

(* The thread frees the frame it holds: the line loses its head.           *)
LEMMA FreeHand ==
    ASSUME Frames, cur # NoSkb, FreeSkb(cur), cur' = NoSkb,
           UNCHANGED <<skb_tx_q, sent, received>>
    PROVE  Frames' /\ FifoStep
<1>1. cur \in Skb /\ freed[cur] = 0 /\ NoSkb \notin Skb
  BY DEF Frames, FrameTypes, Placed, PlaceOf, NoSkb, Skb
<1>2. freed' = [s \in Skb |-> freed[s] + (IF s = cur THEN 1 ELSE 0)]
  BY Zenon DEF FreeSkb, FreeAll
<1>3. \A s \in Skb : freed'[s] = IF s = cur THEN 1 ELSE freed[s]
  BY <1>1, <1>2 DEF Frames, FrameTypes
<1>4. FrameTypes'
  BY <1>1, <1>2, <1>3 DEF Frames, FrameTypes
<1>5. ASSUME NEW s \in Skb
      PROVE  PlaceOf(s)'
  BY <1>1, <1>3 DEF Frames, Placed, PlaceOf
<1>6. Frames'
  BY <1>4, <1>5, Zenon DEF Frames, Placed
<1>7. Line # <<>> /\ Head(Line) = cur /\ Line' = Tail(Line)
  BY <1>4, LineBusy, LineIdle, ConcatEmptySeq, Zenon DEF Frames, FrameTypes, Line, Hand
<1>8. {s \in Skb : freed'[s] > 0} = {s \in Skb : freed[s] > 0} \cup {cur}
  BY <1>1, <1>3
<1>9. Fifo!Lose
  BY <1>7, <1>8, Zenon DEF Fifo!Lose, Line, Hand
<1> QED BY <1>6, <1>9, Zenon DEF FifoStep, Fifo!Next

(* netif_rx gets the frame the thread holds: the line delivers its head.   *)
LEMMA Deliver ==
    ASSUME Frames, cur # NoSkb, received' = Append(received, cur), cur' = NoSkb,
           UNCHANGED <<skb_tx_q, sent, freed>>
    PROVE  Frames' /\ FifoStep
<1>1. /\ cur \in Skb /\ freed[cur] = 0 /\ cur \notin Range(received) /\ NoSkb \notin Skb
  BY DEF Frames, FrameTypes, Placed, PlaceOf, NoSkb, Skb
<1>2. /\ received' \in Seq(Skb) /\ Range(received') = Range(received) \cup {cur}
      /\ IsInjective(received')
  BY <1>1, LinkTailProperties DEF Frames, FrameTypes, Placed
<1>3. FrameTypes'
  BY <1>2, Zenon DEF Frames, FrameTypes
<1>4. ASSUME NEW s \in Skb
      PROVE  PlaceOf(s)'
  BY <1>1, <1>2, Zenon DEF Frames, Placed, PlaceOf
<1>5. Frames'
  BY <1>2, <1>3, <1>4, Zenon DEF Frames, Placed
<1>6. Line # <<>> /\ Head(Line) = cur /\ Line' = Tail(Line)
  BY <1>3, LineBusy, ConcatEmptySeq, Zenon DEF Frames, FrameTypes, Line, Hand
<1>7. Fifo!Deliver
  BY <1>6, Zenon DEF Fifo!Deliver, Line, Hand
<1> QED BY <1>5, <1>7, Zenon DEF FifoStep, Fifo!Next

(* A purge frees what is queued: the line is cut behind the frame in the   *)
(* thread's hands.                                                         *)
LEMMA Purge ==
    ASSUME Frames, FreeAll(Range(skb_tx_q)), skb_tx_q' = <<>>,
           UNCHANGED <<cur, sent, received>>
    PROVE  Frames' /\ FifoStep
<1> DEFINE q == skb_tx_q
           lost == {s \in Skb : freed[s] > 0}
<1>1. /\ q \in Seq(Skb) /\ Len(q) \in Nat /\ DOMAIN q = 1..Len(q)
      /\ freed \in [Skb -> 0..1]
  BY DEF Frames, FrameTypes
<1>2. \A s \in Skb : freed'[s] = IF s \in Range(q) THEN 1 ELSE freed[s]
  BY <1>1 DEF FreeAll, Frames, Placed, PlaceOf
<1>3. Range(<<>>) = {} /\ IsInjective(<<>>) /\ q' \in Seq(Skb)
  BY DEF Range, IsInjective
<1>4. FrameTypes'
  BY <1>1, <1>2, <1>3 DEF FreeAll, Frames, FrameTypes
<1>5. ASSUME NEW s \in Skb
      PROVE  PlaceOf(s)'
  BY <1>1, <1>2, <1>3, Zenon DEF Frames, Placed, PlaceOf
<1>6. Frames'
  BY <1>3, <1>4, <1>5, Zenon DEF Frames, Placed
<1>7. lost' = lost \cup Range(q)
  BY <1>1, <1>2 DEF Range
<1>8. Len(Hand) \in 0..Len(Line)
  <2>1. CASE cur = NoSkb
    BY <1>1, <2>1, LineIdle DEF Frames, Hand
  <2>2. CASE cur # NoSkb
    BY <1>1, <2>2, LineBusy DEF Frames, Hand
  <2> QED BY Zenon, <2>1, <2>2
<1>9. /\ Line' = SubSeq(Line, 1, Len(Hand))
      /\ Range(q) = {Line[i] : i \in Len(Hand) + 1 .. Len(Line)}
  <2>1. CASE cur = NoSkb
    <3>1. Line = q /\ Line' = <<>> /\ Len(Hand) = 0
      BY <1>4, <2>1, LineIdle DEF Frames, Hand, FrameTypes, Line
    <3>2. SubSeq(q, 1, 0) = <<>>
      BY SubSeqEmpty
    <3>3. Range(q) = {q[i] : i \in 1..Len(q)}
      BY <1>1, Zenon DEF Range
    <3> QED BY <3>1, <3>2, <3>3
  <2>2. CASE cur # NoSkb
    <3>1. /\ Len(Hand) = 1 /\ Len(Line) = Len(q) + 1 /\ cur \in Skb
          /\ Line \in Seq(Skb) /\ Line[1] = cur
          /\ \A i \in 1..Len(q) : Line[i + 1] = q[i]
      BY <2>2, LineBusy DEF Frames, FrameTypes, Hand
    <3>2. Line' = <<cur>>
      BY <1>4, <2>2, <3>1, ConcatEmptySeq DEF Line, Hand
    <3>3. SubSeq(Line, 1, 1) = <<cur>>
      <4>1. 1 \in 1..Len(Line) /\ 1 \in Int /\ 2 \in Int
        BY <1>1, <3>1
      <4>2. SubSeq(Line, 1, 1) = <<Line[1]>> \o SubSeq(Line, 2, 1)
        BY <3>1, <4>1, SubSeqRecursiveFirst
      <4>3. SubSeq(Line, 2, 1) = <<>> /\ <<cur>> \o <<>> = <<cur>>
        BY <3>1, SubSeqEmpty, ConcatEmptySeq
      <4> QED BY Zenon, <3>1, <4>2, <4>3
    <3>4. ASSUME NEW x
          PROVE  x \in Range(q) <=> x \in {Line[i] : i \in 2..Len(q) + 1}
      <4>1. ASSUME NEW i \in 1..Len(q), x = q[i]
            PROVE  \E j \in 2..Len(q) + 1 : x = Line[j]
        <5>1. i + 1 \in 2..Len(q) + 1
          BY <1>1
        <5> QED BY Zenon, <3>1, <4>1, <5>1
      <4>2. ASSUME NEW j \in 2..Len(q) + 1, x = Line[j]
            PROVE  \E i \in 1..Len(q) : x = q[i]
        <5>1. j - 1 \in 1..Len(q) /\ (j - 1) + 1 = j
          BY <1>1
        <5> QED BY Zenon, <3>1, <4>2, <5>1
      <4> QED BY <1>1, <4>1, <4>2, Zenon DEF Range
    <3> QED BY <3>1, <3>2, <3>3, <3>4
  <2> QED BY Zenon, <2>1, <2>2
<1>10. PICK k \in 0..Len(Line) : k = Len(Hand)
  BY Zenon, <1>8
<1>11. Fifo!Cut(k)
  BY <1>7, <1>9, <1>10, Zenon DEF Fifo!Cut, Line, Hand
<1>12. Fifo!Next
  BY <1>11, Zenon DEF Fifo!Next, Line, Hand
<1> QED BY <1>6, <1>12, Zenon DEF FifoStep

-----------------------------------------------------------------------------
(* One step of the two modules                                             *)

(* Whatever the modules, the devices and the thread do, the invariant is   *)
(* kept, and the step is one of the line or moves no frame.                *)
LEMMA StepInv ==
    ASSUME Inv, [Next]_vars
    PROVE  Inv' /\ FifoStep
<1> USE DEF Inv
<1> DEFINE Still == UNCHANGED <<skb_tx_q, cur, sent, freed, received>>
<1>0. ASSUME Still
      PROVE  Frames' /\ FifoStep
  BY Zenon, <1>0, Stays
<1>1. CASE dummy_hw_init
  <2>1. Still
    BY <1>1, Zenon DEF dummy_hw_init, Control, frameVars, fateVars
  <2>2. RestTypes' /\ Control'
    BY <1>1, Zenon DEF dummy_hw_init, Control, RestTypes, frameVars, fateVars
  <2> QED BY Zenon, <1>0, <2>1, <2>2
<1>2. CASE dummy_hw_exit
  <2>1. Still /\ RestTypes' /\ Control'
    BY <1>2, Zenon DEF dummy_hw_exit, Control, RestTypes, hwVars, frameVars, fateVars
  <2> QED BY Zenon, <1>0, <2>1
<1>3. CASE HwExitDone
  <2>1. FreeAll(Range(skb_tx_q)) /\ skb_tx_q' = <<>> /\ UNCHANGED <<cur, sent, received>>
    BY <1>3, Zenon DEF HwExitDone, ExitPurge, frameVars
  <2>2. RestTypes' /\ Control'
    BY <1>3, Zenon DEF HwExitDone, Control, RestTypes, frameVars
  <2> QED BY Zenon, <2>1, <2>2, Purge
<1>4. ASSUME NEW d \in Dev, dummy_init_module(d)
      PROVE  Inv' /\ FifoStep
  <2>1. Still /\ RestTypes' /\ Control'
    BY <1>4, Zenon DEF dummy_init_module, RequestIrq, Control, RestTypes, hwVars, frameVars, fateVars
  <2> QED BY Zenon, <1>0, <2>1
<1>5. CASE dummy_cleanup_module
  <2>1. Still /\ RestTypes' /\ Control'
    BY <1>5, Zenon DEF dummy_cleanup_module, FreeIrq, Hasten, Control, RestTypes, hwVars,
                frameVars, fateVars
  <2> QED BY <1>0, <2>1
<1>6. CASE CleanupFlush
  <2>1. FreeAll(Range(skb_tx_q)) /\ skb_tx_q' = <<>> /\ UNCHANGED <<cur, sent, received>>
    BY <1>6, Zenon DEF CleanupFlush, frameVars
  <2>2. RestTypes' /\ Control'
    BY <1>6, Zenon DEF CleanupFlush, Control, RestTypes, frameVars
  <2> QED BY <2>1, <2>2, Purge
<1>7. CASE CleanupUnregister
  <2>1. Still /\ RestTypes' /\ Control'
    BY <1>7, Zenon DEF CleanupUnregister, Control, RestTypes, hwVars, frameVars, fateVars
  <2> QED BY <1>0, <2>1
<1>8. ASSUME NEW d \in Dev, newlink(d) \/ dellink(d) \/ dummy_open(d) \/ dummy_close(d)
      PROVE  Inv' /\ FifoStep
  <2>1. ASSUME NEW from, NEW to \in {"down", "up", "gone"}, NEW early, SetDev(d, from, to, early)
        PROVE  Still /\ RestTypes' /\ Control'
    BY <2>1, Zenon DEF SetDev, Hasten, Control, RestTypes, modVars, hwVars, frameVars, fateVars
  <2>2. Still /\ RestTypes' /\ Control'
    BY <1>8, <2>1, Zenon DEF newlink, dellink, dummy_open, dummy_close
  <2> QED BY <1>0, <2>2
<1>9. ASSUME NEW d \in Dev, dummy_xmit(d)
      PROVE  Inv' /\ FifoStep
  <2>1. /\ sent < MaxSkb /\ sent' = sent + 1 /\ skb_tx_q' = Append(skb_tx_q, sent + 1)
        /\ UNCHANGED <<cur, freed, received>>
    BY <1>9, Zenon DEF dummy_xmit, lt_hw_tx, fateVars
  <2>2. skb_dev' \in [1..sent' -> Dev] /\ answer' \in [1..sent' -> BOOLEAN]
    BY <1>9, Grows DEF dummy_xmit, RestTypes, Frames, FrameTypes
  <2>3. RestTypes' /\ Control'
    BY <1>9, <2>2, Zenon DEF dummy_xmit, RestTypes, Control, modVars
  <2> QED BY Zenon, <2>1, <2>3, Put
<1>10. CASE dummy_hw_thread
  <2>1. Still /\ RestTypes' /\ Control'
    BY <1>10, Zenon DEF dummy_hw_thread, Thread, ThreadEnds, RestTypes, Control, modVars,
                 frameVars, fateVars
  <2> QED BY <1>0, <2>1
<1>11. CASE skb_dequeue
  <2>1. RestTypes' /\ UNCHANGED <<modVars, dev, sent, freed, received>>
    BY <1>11, Zenon DEF skb_dequeue, Thread, RestTypes, modVars, frameVars, fateVars
  <2>2. CASE skb_tx_q = <<>>
    <3>1. Still /\ Control'
      BY <1>11, <2>1, <2>2, Zenon DEF skb_dequeue, Thread, Control, modVars
    <3> QED BY Zenon, <1>0, <2>1, <3>1
  <2>3. CASE skb_tx_q # <<>>
    <3>1. /\ cur = NoSkb /\ cur' = Head(skb_tx_q) /\ skb_tx_q' = Tail(skb_tx_q)
          /\ thread' = "irq"
      BY <1>11, <2>3, Zenon DEF skb_dequeue, Thread, Control
    <3>2. Frames' /\ cur' # NoSkb /\ FifoStep
      BY Zenon, <2>1, <2>3, <3>1, Dequeue
    <3>3. Control'
      BY <1>11, <2>1, <2>3, <3>1, <3>2, Zenon DEF skb_dequeue, Thread, Control, modVars
    <3> QED BY Zenon, <2>1, <3>2, <3>3
  <2> QED BY Zenon, <2>2, <2>3
<1>12. CASE dummy_hw_send_irq
  <2>1. RestTypes' /\ Control'
    BY <1>12, Zenon DEF dummy_hw_send_irq, Thread, RestTypes, Control, modVars, frameVars
  <2>2. Still \/ (/\ cur # NoSkb /\ FreeSkb(cur) /\ cur' = NoSkb
                  /\ UNCHANGED <<skb_tx_q, sent, received>>)
    BY <1>12, Zenon DEF dummy_hw_send_irq, Thread, Control, frameVars
  <2> QED BY Zenon, <1>0, <2>1, <2>2, FreeHand
<1>13. CASE CallRx
  <2>1. Still /\ RestTypes' /\ Control'
    BY <1>13 DEF CallRx, Thread, RestTypes, Control, modVars, frameVars, fateVars
  <2> QED BY <1>0, <2>1
<1>14. CASE dummy_eth_rx
  <2>1. RestTypes' /\ Control'
    BY <1>14, Zenon DEF dummy_eth_rx, Thread, RestTypes, Control, modVars, frameVars
  <2>2. Still \/ (/\ cur # NoSkb /\ FreeSkb(cur) /\ cur' = NoSkb
                  /\ UNCHANGED <<skb_tx_q, sent, received>>)
    BY <1>14, Zenon DEF dummy_eth_rx, Thread, Control, frameVars
  <2> QED BY <1>0, <2>1, <2>2, FreeHand
<1>15. CASE Reinject
  <2>1. RestTypes' /\ Control'
    BY <1>15, Zenon DEF Reinject, Thread, RestTypes, Control, modVars, frameVars
  <2>2. /\ cur # NoSkb /\ received' = Append(received, cur) /\ cur' = NoSkb
        /\ UNCHANGED <<skb_tx_q, sent, freed>>
    BY <1>15, Zenon DEF Reinject, Thread, Control, frameVars
  <2> QED BY Zenon, <2>1, <2>2, Deliver
<1>16. CASE Crash
  <2>1. Still /\ RestTypes' /\ Control'
    BY <1>16, Zenon DEF Crash, Thread, RestTypes, Control, modVars, frameVars, fateVars
  <2> QED BY <1>0, <2>1
<1>17. CASE UNCHANGED vars
  <2>1. Still /\ RestTypes' /\ Control'
    BY <1>17 DEF vars, RestTypes, Control, modVars, hwVars, frameVars, fateVars
  <2> QED BY <1>0, <2>1
<1> QED
  BY Zenon, <1>1, <1>2, <1>3, <1>4, <1>5, <1>6, <1>7, <1>8, <1>9, <1>10, <1>11, <1>12, <1>13,
     <1>14, <1>15, <1>16, <1>17 DEF Next, ThreadStep, ExitStep, Rest

-----------------------------------------------------------------------------
(* Nothing is transmitted or loaded at first.                              *)
LEMMA InitInv == Init => Inv /\ Fifo!Init
<1> SUFFICES ASSUME Init
             PROVE  Inv /\ Fifo!Init
  BY Zenon
<1>0. <<>> \in [1..0 -> Dev] /\ <<>> \in [1..0 -> BOOLEAN]
  BY Zenon, EmptySeq, LenProperties
<1>1. RestTypes /\ Control
  BY <1>0, Zenon DEF Init, RestTypes, Control
<1>2. FrameTypes /\ Range(<<>>) = {} /\ IsInjective(<<>>)
  BY SkbAssumption DEF Init, FrameTypes, Range, IsInjective
<1>3. ASSUME NEW s \in Skb
      PROVE  PlaceOf(s)
  <2>1. ~(s <= 0) /\ s # NoSkb
    BY DEF Skb, NoSkb
  <2> QED BY <1>2, <2>1 DEF Init, PlaceOf
<1>4. Inv
  BY <1>1, <1>2, <1>3, Zenon DEF Inv, Frames, Placed, Init
<1>5. Line = <<>>
  BY <1>2, LineIdle, Zenon DEF Init
<1>6. {s \in Skb : freed[s] > 0} = {}
  BY DEF Init
<1>7. Fifo!Init
  BY <1>5, <1>6, Zenon DEF Fifo!Init, Init, Line, Hand
<1> QED BY Zenon, <1>4, <1>7

(* The invariant says that every frame is in exactly one place.            *)
LEMMA InvConserves == Inv => TypeOK /\ FramesConserved
<1> SUFFICES ASSUME Inv
             PROVE  TypeOK /\ FramesConserved
  BY Zenon
<1>1. TypeOK
  BY Zenon DEF Inv, RestTypes, Frames, FrameTypes, TypeOK
<1>2. ASSUME NEW s \in Skb
      PROVE  LET places == {p \in {"queue", "thread", "freed", "received"} :
                              \/ p = "queue" /\ s \in Range(skb_tx_q)
                              \/ p = "thread" /\ s = cur
                              \/ p = "freed" /\ freed[s] > 0
                              \/ p = "received" /\ s \in Range(received)}
             IN  IF s <= sent THEN \E p \in places : places = {p} ELSE places = {}
  <2> DEFINE places == {p \in {"queue", "thread", "freed", "received"} :
                          \/ p = "queue" /\ s \in Range(skb_tx_q)
                          \/ p = "thread" /\ s = cur
                          \/ p = "freed" /\ freed[s] > 0
                          \/ p = "received" /\ s \in Range(received)}
  <2>1. PlaceOf(s) /\ freed[s] \in 0..1
    BY Zenon DEF Inv, Frames, FrameTypes, Placed
  <2>2. CASE s \in Range(skb_tx_q)
    <3>1. places = {"queue"} /\ s <= sent
      BY <2>1, <2>2 DEF PlaceOf
    <3> QED BY Zenon, <3>1
  <2>3. CASE s = cur
    <3>1. places = {"thread"} /\ s <= sent
      BY <2>1, <2>3 DEF PlaceOf
    <3> QED BY Zenon, <3>1
  <2>4. CASE freed[s] = 1
    <3>1. places = {"freed"} /\ s <= sent
      BY <2>1, <2>4 DEF PlaceOf
    <3> QED BY Zenon, <3>1
  <2>5. CASE s \in Range(received)
    <3>1. places = {"received"} /\ s <= sent
      BY <2>1, <2>5 DEF PlaceOf
    <3> QED BY Zenon, <3>1
  <2>6. CASE /\ s \notin Range(skb_tx_q) /\ s # cur
             /\ freed[s] # 1 /\ s \notin Range(received)
    <3>1. places = {} /\ ~(s <= sent)
      BY <2>1, <2>6 DEF PlaceOf
    <3> QED BY Zenon, <3>1
  <2> QED BY Zenon, <2>2, <2>3, <2>4, <2>5, <2>6
<1>3. FramesConserved
  BY <1>2, Zenon DEF FramesConserved, Inv, Frames, Placed
<1> QED BY Zenon, <1>1, <1>3

(* Every state of every execution satisfies the invariant.                 *)
LEMMA AlwaysInv == Spec => []Inv
<1>1. Init => Inv
  BY Zenon, InitInv
<1>2. Inv /\ [Next]_vars => Inv'
  BY Zenon, StepInv
<1> QED BY <1>1, <1>2, PTL DEF Spec

(* Whatever the interleaving of transmitters, kernel thread and module     *)
(* exits, every frame given to dummy_xmit is queued, in the thread's hands,*)
(* freed or received, in exactly one of these places and once.             *)
THEOREM Conservation == Spec => []FramesConserved
BY AlwaysInv, InvConserves, PTL

(* Every reachable state has its type; in particular no frame is freed     *)
(* twice.                                                                  *)
THEOREM TypeCorrect == Spec => []TypeOK
BY AlwaysInv, InvConserves, PTL

(* The queue, the thread and the reflector implement the line of LossyFifo:*)
(* what dummy_xmit puts in comes out at netif_rx in the same order, once or*)
(* not at all.                                                             *)
THEOREM Refinement == Spec => ImplementsFifo
<1>1. Init => Fifo!Init
  BY Zenon, InitInv
<1>2. Inv /\ [Next]_vars => [Fifo!Next]_(Fifo!vars)
  BY StepInv, Zenon DEF FifoStep
<1> QED BY <1>1, <1>2, AlwaysInv, PTL DEF Spec, ImplementsFifo, Fifo!Spec

(* When dummy-hw.ko is gone its queue and the thread's hands are empty, so *)
(* that every frame it was given has been freed or received.               *)
THEOREM Emptied == Spec => []NothingLeftBehind
<1>1. Inv => NothingLeftBehind
  <2> SUFFICES ASSUME Inv, hw = "out", NEW s \in 1..sent
               PROVE  freed[s] = 1 \/ s \in Range(received)
    BY Zenon DEF NothingLeftBehind
  <2>1. skb_tx_q = <<>> /\ cur = NoSkb /\ Range(<<>>) = {}
    BY DEF Inv, Control, Range
  <2>2. s \in Skb /\ s <= sent /\ s # NoSkb
    BY SkbAssumption DEF Inv, Frames, FrameTypes, Skb, NoSkb
  <2>3. PlaceOf(s)
    BY <2>2, Zenon DEF Inv, Frames, Placed
  <2> QED BY <2>1, <2>2, <2>3, Zenon DEF PlaceOf
<1> QED BY <1>1, AlwaysInv, PTL

-----------------------------------------------------------------------------
(* The thread gets to the call only by finding the callback registered, and*)
(* from then on until dummy-eth is loaded again it is not.                 *)
Straggler ==
    /\ eth # "in" => ~dummy_drv_rx
    /\ eth = "in" => late = 0
    /\ thread = "call" => late = 0
    /\ late \in 0..1

(* After lt_request_irq(false) has cleared the callback, at most one more  *)
(* frame reaches dummy_eth_rx.                                             *)
THEOREM AtMostOneStraggler == Spec => []OneStraggler
<1>1. Init => Straggler
  BY DEF Init, Straggler
<1>2. ASSUME Straggler, [Next]_vars
      PROVE  Straggler'
  <2> USE <1>2 DEF Straggler, modVars, hwVars
  <2>1. CASE dummy_hw_init
    BY <2>1, Zenon DEF dummy_hw_init
  <2>2. CASE dummy_hw_exit
    BY <2>2, Zenon DEF dummy_hw_exit
  <2>3. CASE HwExitDone
    BY <2>3, Zenon DEF HwExitDone
  <2>4. ASSUME NEW d \in Dev, dummy_init_module(d)
        PROVE  Straggler'
    BY <2>4 DEF dummy_init_module
  <2>5. CASE dummy_cleanup_module
    BY <2>5, Zenon DEF dummy_cleanup_module, FreeIrq
  <2>6. CASE CleanupFlush \/ CleanupUnregister
    BY <2>6 DEF CleanupFlush, CleanupUnregister
  <2>7. ASSUME NEW d \in Dev, newlink(d) \/ dellink(d) \/ dummy_open(d) \/ dummy_close(d)
        PROVE  Straggler'
    BY <2>7 DEF newlink, dellink, dummy_open, dummy_close, SetDev
  <2>8. ASSUME NEW d \in Dev, dummy_xmit(d)
        PROVE  Straggler'
    BY <2>8, Zenon DEF dummy_xmit
  <2>9. CASE dummy_hw_thread \/ skb_dequeue
    BY <2>9 DEF dummy_hw_thread, skb_dequeue, Thread
  <2>10. CASE dummy_hw_send_irq
    BY <2>10, Zenon DEF dummy_hw_send_irq, Thread
  <2>11. CASE CallRx
    BY <2>11 DEF CallRx, Thread
  <2>12. CASE dummy_eth_rx \/ Reinject \/ Crash
    BY <2>12 DEF dummy_eth_rx, Reinject, Crash, Thread
  <2>13. CASE UNCHANGED vars
    BY <2>13, Zenon DEF vars
  <2> QED
    BY Zenon, <2>1, <2>2, <2>3, <2>4, <2>5, <2>6, <2>7, <2>8, <2>9, <2>10, <2>11, <2>12, <2>13
    DEF Next, ThreadStep, ExitStep, Rest
<1>3. Straggler => OneStraggler
  BY DEF Straggler, OneStraggler
<1> QED BY <1>1, <1>2, <1>3, PTL DEF Spec
-----------------------------------------------------------------------------
(* Removal after the traffic has drained                                   *)

(* As long as nothing was removed too early: the callback is registered    *)
(* while dummy-eth is in, nothing is under way once it has begun to leave, *)
(* and a frame under way belongs to a device that still exists.            *)
Drained ==
    /\ eth = "in" => dummy_drv_rx
    /\ ~hasty => /\ eth # "in" => Quiet /\ \A d \in Dev : Idle(d)
                 /\ \A s \in Skb : s \in Range(skb_tx_q) \/ s = cur =>
                                      dev[skb_dev[s]] # "gone"
                 /\ thread # "oops"

(* A frame under way has been transmitted, on some device.                 *)
LEMMA UnderWay ==
    ASSUME Inv, NEW s \in Skb, s \in Range(skb_tx_q) \/ s = cur
    PROVE  s \in 1..sent /\ skb_dev[s] \in Dev
<1>1. s <= sent
  BY Zenon DEF Inv, Frames, Placed, PlaceOf
<1>2. s \in 1..sent
  BY <1>1, SkbAssumption DEF Skb, Inv, Frames, FrameTypes
<1> QED BY <1>2, Zenon DEF Inv, RestTypes

(* When nothing is under way no frame is queued or in the thread's hands.  *)
LEMMA QuietMeansNone ==
    ASSUME Quiet, NEW s \in Skb
    PROVE  s \notin Range(skb_tx_q) /\ s # cur
BY DEF Quiet, Range, Skb, NoSkb

(* The operations on a device: a frame's device is deleted only in haste.  *)
LEMMA DrainedDev ==
    ASSUME Inv, Drained, NEW d \in Dev,
           newlink(d) \/ dellink(d) \/ dummy_open(d) \/ dummy_close(d)
    PROVE  Drained'
<1>1. PICK from \in {"none", "down", "up"}, to \in {"down", "up", "gone"}, early \in BOOLEAN :
         /\ SetDev(d, from, to, early)
         /\ to = "gone" => early \/ Quiet
  BY Zenon DEF newlink, dellink, dummy_open, dummy_close, Quiet
<1>2. /\ dev[d] = from /\ dev' = [dev EXCEPT ![d] = to]
      /\ hasty' = (hasty \/ (early \/ eth # "in"))
      /\ UNCHANGED <<eth, dummy_drv_rx, skb_tx_q, cur, thread, skb_dev>>
  BY <1>1, Zenon DEF SetDev, Hasten, modVars, hwVars, frameVars
<1>3. \A e \in Dev : dev'[e] = IF e = d THEN to ELSE dev[e]
  BY <1>2, Zenon DEF Inv, RestTypes
<1>4. ASSUME ~hasty', NEW s \in Skb, s \in Range(skb_tx_q) \/ s = cur
      PROVE  dev'[skb_dev[s]] # "gone"
  <2>1. ~hasty /\ ~early
    BY Zenon, <1>2, <1>4
  <2>2. ~Quiet
    BY Zenon, <1>4, QuietMeansNone
  <2>3. dev[skb_dev[s]] # "gone" /\ skb_dev[s] \in Dev
    BY <1>4, <2>1, UnderWay, Zenon DEF Drained
  <2> QED BY Zenon, <1>1, <1>3, <2>1, <2>2, <2>3
<1> QED BY <1>2, <1>4, Zenon DEF Drained

(* A frame is transmitted on a device that is up, and so exists.           *)
LEMMA DrainedXmit ==
    ASSUME Inv, Drained, NEW d \in Dev, dummy_xmit(d)
    PROVE  Drained'
<1>1. /\ dev[d] = "up" /\ sent < MaxSkb
      /\ skb_dev' = Append(skb_dev, d)
      /\ skb_tx_q' = Append(skb_tx_q, sent + 1)
      /\ UNCHANGED <<eth, dummy_drv_rx, cur, thread, dev, hasty>>
  BY Zenon DEF dummy_xmit, lt_hw_tx, modVars
<1>2. /\ sent \in Nat /\ sent + 1 \in Skb /\ skb_tx_q \in Seq(Skb)
      /\ skb_dev \in Seq(Dev) /\ Len(skb_dev) = sent
  BY <1>1, SkbAssumption DEF Inv, Frames, FrameTypes, RestTypes, Skb
<1>3. Range(skb_tx_q') = Range(skb_tx_q) \cup {sent + 1}
  BY <1>1, <1>2, LinkTailProperties
<1>4. skb_dev'[sent + 1] = d /\ \A s \in 1..sent : skb_dev'[s] = skb_dev[s]
  BY <1>1, <1>2
<1>5. ASSUME ~hasty', NEW s \in Skb, s \in Range(skb_tx_q') \/ s = cur'
      PROVE  dev'[skb_dev'[s]] # "gone"
  <2>1. CASE s = sent + 1
    BY Zenon, <1>1, <1>4, <2>1
  <2>2. CASE s # sent + 1
    <3>1. s \in Range(skb_tx_q) \/ s = cur
      BY Zenon, <1>1, <1>3, <1>5, <2>2
    <3>2. s \in 1..sent /\ dev[skb_dev[s]] # "gone"
      BY <1>1, <1>5, <3>1, UnderWay, Zenon DEF Drained
    <3> QED BY Zenon, <1>1, <1>4, <3>2
  <2> QED BY Zenon, <2>1, <2>2
<1>6. ~hasty => eth = "in"
  BY <1>1, Zenon DEF Drained, Idle
<1> QED BY <1>1, <1>5, <1>6, Zenon DEF Drained

(* The thread only takes, frees and hands over frames, and calls through   *)
(* the pointer while it has one: the module is in and the callback set.    *)
LEMMA DrainedThread ==
    ASSUME Inv, Drained, ThreadStep
    PROVE  Drained'
<1>1. UNCHANGED <<eth, dummy_drv_rx, dev, skb_dev, hasty>>
  BY Zenon DEF ThreadStep, dummy_hw_thread, skb_dequeue, dummy_hw_send_irq, CallRx,
        dummy_eth_rx, Reinject, Crash, modVars, frameVars
<1>2. /\ cur' \in {cur, NoSkb} /\ skb_tx_q' = skb_tx_q
      \/ /\ skb_tx_q # <<>> /\ cur' = Head(skb_tx_q) /\ skb_tx_q' = Tail(skb_tx_q)
  BY Zenon DEF ThreadStep, dummy_hw_thread, skb_dequeue, dummy_hw_send_irq, CallRx,
        dummy_eth_rx, Reinject, Crash, frameVars
<1>3. skb_tx_q \in Seq(Skb)
  BY Zenon DEF Inv, Frames, FrameTypes
<1>4. ASSUME NEW s \in Skb, s \in Range(skb_tx_q') \/ s = cur'
      PROVE  s \in Range(skb_tx_q) \/ s = cur
  <2>1. s # NoSkb
    BY DEF Skb, NoSkb
  <2>2. CASE cur' \in {cur, NoSkb} /\ skb_tx_q' = skb_tx_q
    BY Zenon, <1>4, <2>1, <2>2
  <2>3. CASE skb_tx_q # <<>> /\ cur' = Head(skb_tx_q) /\ skb_tx_q' = Tail(skb_tx_q)
    BY <1>3, <1>4, <2>3, PopProperties
  <2> QED BY Zenon, <1>2, <2>2, <2>3
<1>5. Quiet => Quiet'
  BY <1>2, Zenon DEF Quiet
<1>6. ASSUME ~hasty
      PROVE  thread' # "oops"
  <2>1. /\ thread \in {"call", "rx", "reinject"} => cur \in Skb /\ cur # NoSkb
        /\ thread # "oops"
    BY <1>6, Zenon DEF Inv, Control, Frames, FrameTypes, Drained
  <2>2. thread \in {"call", "rx", "reinject"} =>
           /\ eth = "in" /\ dummy_drv_rx
           /\ dev[skb_dev[cur]] # "gone"
    BY <1>6, <2>1, Zenon DEF Drained, Quiet
  <2> QED BY <2>1, <2>2, Zenon
          DEF ThreadStep, dummy_hw_thread, skb_dequeue, dummy_hw_send_irq, CallRx,
              dummy_eth_rx, Reinject, Crash, Thread
<1>7. ASSUME ~hasty, NEW s \in Skb, s \in Range(skb_tx_q') \/ s = cur'
      PROVE  dev[skb_dev[s]] # "gone"
  BY <1>4, <1>7, Zenon DEF Drained
<1> QED BY <1>1, <1>5, <1>6, <1>7, Zenon DEF Drained, Idle

(* Loading and unloading: dummy-eth leaves quietly or in haste.            *)
LEMMA DrainedModules ==
    ASSUME Inv, Drained,
           \/ dummy_hw_init \/ dummy_hw_exit \/ ExitStep \/ dummy_cleanup_module
           \/ \E d \in Dev : dummy_init_module(d)
    PROVE  Drained'
<1> USE DEF modVars, hwVars, frameVars, Drained
<1>0. \A s \in Skb : s \notin Range(<<>>)
  BY DEF Range
<1>1. CASE dummy_hw_init
  BY <1>0, <1>1, Zenon DEF dummy_hw_init, Quiet, Idle, Inv, Control
<1>2. CASE dummy_hw_exit
  BY <1>2, Zenon DEF dummy_hw_exit, Quiet, Idle
<1>3. CASE HwExitDone
  BY <1>0, <1>3, Zenon DEF HwExitDone, Quiet, Idle
<1>4. CASE CleanupFlush
  BY <1>0, <1>4, Zenon DEF CleanupFlush, Quiet, Idle
<1>5. CASE CleanupUnregister
  <2>1. /\ eth # "in" /\ eth' # "in"
        /\ \A d \in Dev : dev'[d] \in {"none", "gone"}
        /\ UNCHANGED <<skb_tx_q, cur, thread, dummy_drv_rx, hasty>>
    BY <1>5, Zenon DEF CleanupUnregister
  <2>2. ~hasty => Quiet'
    BY <2>1, Zenon DEF Quiet
  <2>3. ASSUME ~hasty, NEW s \in Skb PROVE s \notin Range(skb_tx_q') /\ s # cur'
    BY Zenon, <2>1, <2>3, QuietMeansNone
  <2> QED BY <2>1, <2>2, <2>3, Zenon DEF Idle
<1>6. CASE dummy_cleanup_module
  BY <1>6, Zenon DEF dummy_cleanup_module, FreeIrq, Hasten, Quiet, Idle
<1>7. ASSUME NEW d \in Dev, dummy_init_module(d)
      PROVE  Drained'
  <2>1. /\ eth' = "in" /\ dummy_drv_rx' /\ eth = "out"
        /\ UNCHANGED <<skb_tx_q, cur, thread, hasty, skb_dev>>
    BY <1>7, Zenon DEF dummy_init_module, RequestIrq
  <2>2. ASSUME ~hasty, NEW s \in Skb PROVE s \notin Range(skb_tx_q') /\ s # cur'
    BY Zenon, <2>1, <2>2, QuietMeansNone
  <2> QED BY Zenon, <2>1, <2>2
<1> QED BY <1>1, <1>2, <1>3, <1>4, <1>5, <1>6, <1>7, Zenon DEF ExitStep

(* dummy_eth_rx, dummy_hw_send_irq and the unload sequence of the README:  *)
(* for every set of devices and number of frames, if nothing is removed    *)
(* before its traffic has drained, no frame meets an unloaded module or a  *)
(* freed device, and the kernel does not oops.                             *)
THEOREM SafeRemoval == Spec => []DrainedRemovalSafe
<1>1. Init => Drained
  BY DEF Init, Drained, Quiet, Idle, Range, Skb, NoSkb
<1>2. ASSUME Inv, Drained, [Next]_vars
      PROVE  Drained'
  <2>1. CASE UNCHANGED vars
    BY <1>2, <2>1, Zenon DEF Drained, Quiet, Idle, vars, modVars, hwVars, frameVars
  <2> QED BY Zenon, <1>2, <2>1, DrainedDev, DrainedXmit, DrainedThread, DrainedModules
          DEF Next, Rest
<1>3. Inv /\ Drained => DrainedRemovalSafe
  BY Zenon DEF Inv, Control, Frames, FrameTypes, Drained, DrainedRemovalSafe, CallbackAlive, Quiet
<1> QED BY <1>1, <1>2, <1>3, AlwaysInv, PTL DEF Spec
=============================================================================
