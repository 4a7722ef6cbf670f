---------------------------- MODULE KernelDemoProofs ----------------------------
(***************************************************************************)
(* Proofs about the small kernel demos: ProcDemo, for every buffer size,   *)
(* every length of the first message and any number of processes; the      *)
(* packet filter, for every number of packets and every socket buffer; and *)
(* the loading and unloading of snull, for every size of its buffer pools. *)
(***************************************************************************)
EXTENDS MCKernelDemos, SequenceTheorems, TLAPS

-----------------------------------------------------------------------------
(* proc_demo.c                                                             *)

Pc == {"idle", "copy", "end", "read", "shown"}

Types ==
    /\ buffer \in [0 .. BUF_SIZE -> Nat]
    /\ file \in BOOLEAN /\ loaded \in BOOLEAN
    /\ pc \in [Writer -> Pc] /\ len \in [Writer -> 0 .. BUF_SIZE - 1]
    /\ k \in [Writer -> Nat] /\ out \in [Writer -> Seq(Nat)]
    /\ alone \in [Writer -> BOOLEAN] /\ last \in Seq(Nat)

(* The last byte of the buffer is never anything but a terminator, because *)
(* no write is longer than the rest; so a read stops there at the latest.  *)
Bounds ==
    /\ buffer[BUF_SIZE] = Beyond /\ buffer[BUF_SIZE - 1] = NUL
    /\ \A p \in Writer : pc[p] = "copy" => k[p] <= len[p]
    /\ \A p \in Writer : pc[p] = "end" => k[p] = len[p]
    /\ \A p \in Writer : pc[p] = "read" => k[p] < BUF_SIZE

BoundsInv == Types /\ Bounds

(* The buffer holds a message.                                             *)
Held(m) ==
    /\ Len(m) < BUF_SIZE /\ buffer[Len(m)] = NUL
    /\ \A j \in 1 .. Len(m) : m[j] # NUL /\ buffer[j - 1] = m[j]

(* A writer that is alone is the only one and has written its bytes.       *)
AloneWriter(p) ==
    pc[p] \in {"copy", "end"} /\ alone[p] =>
        Writing = {p} /\ \A j \in 0 .. k[p] - 1 : buffer[j] = Byte(p)

(* While last names a message no one writes and the buffer holds it.       *)
HoldsLast == last # Mixed => Writing = {} /\ Held(last)

(* A read that is alone has got a part of it, and the whole at the end.    *)
AloneReader(p) ==
    pc[p] \in {"read", "shown"} /\ alone[p] =>
        /\ Writing = {}
        /\ last # Mixed =>
              /\ Len(out[p]) = k[p] /\ k[p] <= Len(last)
              /\ \A j \in 1 .. k[p] : out[p][j] = last[j]
              /\ pc[p] = "shown" => k[p] = Len(last)

ContentsInv ==
    HoldsLast /\ \A p \in Writer : AloneWriter(p) /\ AloneReader(p)

-----------------------------------------------------------------------------
(* What proc_demo_init and proc_write may copy leaves room for the         *)
(* terminator.                                                             *)
LEMMA LenFits ==
    /\ Default \in 0 .. BUF_SIZE - 1
    /\ \A count \in Nat : LenOf(count) \in 0 .. BUF_SIZE - 1
BY SizeAssumption DEF LenOf

(* proc_demo_init counts as a writer of its own; every writer has a byte.  *)
LEMMA Writers == Writer \subseteq Nat /\ \A p \in Writer : Byte(p) \in Nat /\ Byte(p) # NUL
BY ProcAssumption DEF Writer, Init0, Byte, NUL

(* The type invariant and the bounds hold initially.                       *)
LEMMA BoundsInit == Init => BoundsInv
<1> SUFFICES ASSUME Init PROVE BoundsInv
  BY Zenon
<1>1. buffer \in [0 .. BUF_SIZE -> Nat]
  BY SizeAssumption DEF Init, Zeroed, NUL, Beyond
<1>2. buffer[BUF_SIZE] = Beyond /\ buffer[BUF_SIZE - 1] = NUL
  BY SizeAssumption DEF Init, Zeroed
<1>3. 0 \in 0 .. BUF_SIZE - 1 /\ <<>> \in Seq(Nat)
  BY SizeAssumption
<1>4. Types
  BY <1>1, <1>3, Zenon DEF Init, Types, Pc
<1>5. Bounds
  BY <1>2, Zenon DEF Init, Bounds
<1> QED BY <1>4, <1>5, Zenon DEF BoundsInv

(* A message is a sequence of its writer's byte, and never taken for the   *)
(* mark of an overlapped write.                                            *)
LEMMA MessageType ==
    ASSUME NEW p \in Writer, NEW n \in Nat
    PROVE  /\ Message(p, n) \in Seq(Nat) /\ Len(Message(p, n)) = n
           /\ \A j \in 1 .. n : Message(p, n)[j] = Byte(p)
           /\ Message(p, n) # Mixed
<1>1. Message(p, n) \in Seq(Nat) /\ Len(Message(p, n)) = n
  BY Writers DEF Message
<1>2. \A j \in 1 .. n : Message(p, n)[j] = Byte(p)
  BY Zenon DEF Message
<1>3. Message(p, n) # Mixed
  <2> SUFFICES ASSUME Message(p, n) = Mixed PROVE FALSE
    BY Zenon
  <2>1. n = 1
    BY <1>1, Zenon DEF Mixed
  <2>2. Byte(p) = NUL
    BY <1>2, <2>1 DEF Mixed
  <2> QED BY Zenon, <2>2, Writers
<1> QED BY Zenon, <1>1, <1>2, <1>3

-----------------------------------------------------------------------------
(* Preservation of the bounds, one step per action.                        *)
LEMMA BoundsNext == BoundsInv /\ [Next]_vars => BoundsInv'
<1> SUFFICES ASSUME BoundsInv, [Next]_vars PROVE BoundsInv'
  BY Zenon
<1>0. /\ BUF_SIZE \in Nat /\ BUF_SIZE - 1 \in Nat /\ BUF_SIZE - 1 \in 0 .. BUF_SIZE
      /\ BUF_SIZE \in 0 .. BUF_SIZE /\ BUF_SIZE - 1 # BUF_SIZE
      /\ 0 \in 0 .. BUF_SIZE - 1 /\ 0 < BUF_SIZE
      /\ NUL \in Nat /\ Beyond \in Nat /\ <<>> \in Seq(Nat) /\ Mixed \in Seq(Nat)
  BY SizeAssumption DEF NUL, Beyond, Mixed
<1>t. Types /\ Bounds
  BY Zenon DEF BoundsInv
<1>S. ASSUME NEW p \in Writer, NEW n \in 0 .. BUF_SIZE - 1, StartWrite(p, n)
      PROVE  /\ buffer' = buffer
             /\ pc' \in [Writer -> Pc] /\ len' \in [Writer -> 0 .. BUF_SIZE - 1]
             /\ k' \in [Writer -> Nat] /\ out' \in [Writer -> Seq(Nat)]
             /\ alone' \in [Writer -> BOOLEAN] /\ last' \in Seq(Nat)
             /\ pc'[p] = "copy" /\ k'[p] = 0 /\ len'[p] = n
             /\ \A q \in Writer \ {p} : pc'[q] = pc[q] /\ k'[q] = k[q] /\ len'[q] = len[q]
  <2>1. alone' \in [Writer -> BOOLEAN]
    BY <1>S, Zenon DEF StartWrite
  <2> QED BY <1>S, <1>0, <1>t, <2>1, Zenon DEF StartWrite, Start, Types, Pc
<1>W. ASSUME NEW p \in Writer, NEW n \in 0 .. BUF_SIZE - 1, StartWrite(p, n),
             file' \in BOOLEAN, loaded' \in BOOLEAN
      PROVE  BoundsInv'
  <2>1. Types'
    BY <1>S, <1>W, <1>t, Zenon DEF Types
  <2>2. \A q \in Writer : \/ q = p /\ pc'[q] = "copy" /\ k'[q] = 0 /\ len'[q] = n
                          \/ pc'[q] = pc[q] /\ k'[q] = k[q] /\ len'[q] = len[q]
    BY Zenon, <1>S, <1>W
  <2>3. buffer' = buffer /\ 0 <= n /\ "copy" # "end" /\ "copy" # "read"
    BY <1>S, <1>W
  <2>4. Bounds'
    BY <1>t, <2>2, <2>3, Zenon DEF Bounds
  <2> QED BY <2>1, <2>4, Zenon DEF BoundsInv
<1>R. ASSUME NEW p \in Writer, Return(p)
      PROVE  /\ pc' \in [Writer -> Pc] /\ len' \in [Writer -> 0 .. BUF_SIZE - 1]
             /\ k' \in [Writer -> Nat] /\ out' \in [Writer -> Seq(Nat)]
             /\ alone' \in [Writer -> BOOLEAN]
             /\ pc'[p] = "idle"
             /\ \A q \in Writer \ {p} : pc'[q] = pc[q] /\ k'[q] = k[q] /\ len'[q] = len[q]
  BY <1>R, <1>0, <1>t, Zenon DEF Return, Types, Pc
<1>E. ASSUME NEW p \in Writer, NEW n \in Nat, EndWrite(p, Message(p, n))
      PROVE  last' \in Seq(Nat)
  BY <1>E, <1>0, MessageType, Zenon DEF EndWrite
<1>1. CASE proc_demo_init
  <2>1. Init0 \in Writer
    BY Zenon DEF Writer
  <2>2. StartWrite(Init0, Default) /\ file' = TRUE /\ loaded' = loaded
    BY <1>1, Zenon DEF proc_demo_init
  <2> QED BY <1>W, <1>t, <2>1, <2>2, LenFits, Zenon DEF Types
<1>2. CASE proc_demo_exit
  <2>1. buffer' \in [0 .. BUF_SIZE -> Nat] /\ buffer'[BUF_SIZE] = Beyond
           /\ buffer'[BUF_SIZE - 1] = NUL
    BY <1>2, <1>0 DEF proc_demo_exit, Zeroed
  <2> QED BY <1>2, <1>t, <2>1, <1>0, Zenon DEF proc_demo_exit, BoundsInv, Types, Bounds
<1>3. ASSUME NEW p \in Writer, Copy(p) PROVE BoundsInv'
  <2>1. CASE k[p] < len[p]
    <3>0. k[p] \in Nat /\ len[p] \in 0 .. BUF_SIZE - 1 /\ Byte(p) \in Nat
      BY <1>t, Writers, Zenon DEF Types
    <3>1. k[p] \in 0 .. BUF_SIZE /\ k[p] # BUF_SIZE /\ k[p] # BUF_SIZE - 1
             /\ k[p] + 1 \in Nat /\ k[p] + 1 <= len[p]
      BY <2>1, <3>0, <1>0
    <3>2. /\ pc[p] = "copy" /\ pc' = pc /\ buffer' = [buffer EXCEPT ![k[p]] = Byte(p)]
          /\ k' = [k EXCEPT ![p] = @ + 1]
          /\ UNCHANGED <<file, loaded, len, out, alone, last>>
      BY <1>3, <2>1, Zenon DEF Copy
    <3>3. Types'
      BY <3>0, <3>1, <3>2, <1>t, Zenon DEF Types
    <3>4. Bounds'
      BY <3>0, <3>1, <3>2, <1>t, <1>0, Zenon DEF Types, Bounds
    <3> QED BY <3>3, <3>4, Zenon DEF BoundsInv
  <2>2. CASE ~(k[p] < len[p])
    <3>1. /\ pc[p] = "copy" /\ pc' = [pc EXCEPT ![p] = "end"]
          /\ UNCHANGED <<buffer, k, file, loaded, len, out, alone, last>>
      BY <1>3, <2>2, Zenon DEF Copy
    <3>2. k[p] = len[p]
      BY <3>1, <2>2, <1>t, <1>0 DEF Types, Bounds
    <3> QED BY <3>1, <3>2, <1>t, Zenon DEF BoundsInv, Types, Bounds, Pc
  <2> QED BY Zenon, <2>1, <2>2
<1>4. ASSUME NEW p \in Writer, Fault(p) PROVE BoundsInv'
  <2>1. buffer' \in [0 .. BUF_SIZE -> Nat] /\ buffer'[BUF_SIZE] = Beyond
           /\ buffer'[BUF_SIZE - 1] = NUL
    BY <1>4, <1>0, <1>t DEF Fault, Types, Bounds
  <2>2. Return(p) /\ EndWrite(p, Message(p, k[p])) /\ k[p] \in Nat
           /\ UNCHANGED <<file, loaded>>
    BY <1>4, <1>t, Zenon DEF Fault, EndWrite, Types
  <2> QED BY <2>1, <2>2, <1>R, <1>E, <1>t, Zenon DEF BoundsInv, Types, Bounds
<1>5. ASSUME NEW p \in Writer, End(p) PROVE BoundsInv'
  <2>1. len[p] \in 0 .. BUF_SIZE /\ len[p] # BUF_SIZE /\ len[p] \in Nat
    BY <1>t, <1>0 DEF Types
  <2>2. buffer' \in [0 .. BUF_SIZE -> Nat] /\ buffer'[BUF_SIZE] = Beyond
           /\ buffer'[BUF_SIZE - 1] = NUL
    BY <1>5, <1>0, <1>t, <2>1, Zenon DEF End, Terminate, Types, Bounds
  <2>3. Return(p) /\ EndWrite(p, Message(p, len[p])) /\ file' = file
    BY <1>5, Zenon DEF End, EndWrite
  <2>4. loaded' \in BOOLEAN
    BY <1>5, Zenon DEF End
  <2> QED BY <2>1, <2>2, <2>3, <2>4, <1>R, <1>E, <1>t, Zenon DEF BoundsInv, Types, Bounds
<1>6. ASSUME NEW p \in Proc, NEW count \in 0 .. BUF_SIZE + 1, proc_write(p, count)
      PROVE  BoundsInv'
  <2>1. p \in Writer /\ LenOf(count) \in 0 .. BUF_SIZE - 1
    BY LenFits, <1>0, SMTT(30) DEF Writer
  <2>2. StartWrite(p, LenOf(count)) /\ UNCHANGED <<file, loaded>>
    BY <1>6, Zenon DEF proc_write
  <2> QED BY <1>W, <1>t, <2>1, <2>2, Zenon DEF Types
<1>7. ASSUME NEW p \in Proc, proc_show(p) PROVE BoundsInv'
  <2>1. p \in Writer
    BY Zenon DEF Writer
  <2>2. Start(p, "read", 0) /\ UNCHANGED <<buffer, file, loaded, last>>
           /\ alone' = [alone EXCEPT ![p] = Writing = {}]
    BY <1>7, Zenon DEF proc_show
  <2>3. alone' \in [Writer -> BOOLEAN]
    BY <2>2, <1>t, Zenon DEF Types
  <2> QED BY <2>1, <2>2, <2>3, <1>t, <1>0, Zenon DEF Start, BoundsInv, Types, Bounds, Pc
<1>8. ASSUME NEW p \in Proc, Scan(p) PROVE BoundsInv'
  <2>0. p \in Writer /\ pc[p] = "read" /\ k[p] \in 0 .. BUF_SIZE /\ k[p] < BUF_SIZE
           /\ buffer[k[p]] \in Nat /\ out[p] \in Seq(Nat)
    BY <1>8, <1>t, <1>0 DEF Scan, Writer, Types, Bounds
  <2>1. CASE buffer[k[p]] = NUL
    BY <2>0, <2>1, <1>8, <1>t, <1>0, Zenon DEF Scan, BoundsInv, Types, Bounds, Pc
  <2>2. CASE buffer[k[p]] # NUL
    <3>1. k[p] # BUF_SIZE - 1
      BY <2>2, <1>t, Zenon DEF Bounds
    <3>2. k[p] + 1 \in Nat /\ k[p] + 1 < BUF_SIZE
      BY <3>1, <2>0, <1>0
    <3>3. Append(out[p], buffer[k[p]]) \in Seq(Nat)
      BY <2>0
    <3>4. /\ out' = [out EXCEPT ![p] = Append(@, buffer[k[p]])]
          /\ k' = [k EXCEPT ![p] = @ + 1]
          /\ UNCHANGED <<pc, buffer, file, loaded, len, alone, last>>
      BY <1>8, <2>2, Zenon DEF Scan
    <3> QED BY <3>2, <3>3, <3>4, <2>0, <1>t, Zenon DEF BoundsInv, Types, Bounds
  <2> QED BY Zenon, <2>1, <2>2
<1>9. ASSUME NEW p \in Proc, Shown(p) PROVE BoundsInv'
  <2>1. p \in Writer /\ Return(p) /\ UNCHANGED <<buffer, file, loaded, last>>
    BY <1>9, Zenon DEF Shown, Writer
  <2> QED BY <2>1, <1>R, <1>t, Zenon DEF BoundsInv, Types, Bounds
<1>10. CASE UNCHANGED vars
  BY <1>10, <1>t, Zenon DEF vars, BoundsInv, Types, Bounds
<1> QED BY <1>1, <1>2, <1>3, <1>4, <1>5, <1>6, <1>7, <1>8, <1>9, <1>10, Zenon DEF Next

(* Nothing is written behind kernel_buffer and every read stops inside it, *)
(* whatever its size and however many processes use the file at once.      *)
THEOREM InBuffer == Spec => []StaysInBuffer
<1>1. BoundsInv => StaysInBuffer
  BY Zenon DEF BoundsInv, Bounds, StaysInBuffer, Writer
<1> QED BY BoundsInit, BoundsNext, <1>1, PTL DEF Spec

-----------------------------------------------------------------------------
(* The contents invariant holds initially.                                 *)
LEMMA ContentsInit == Init => ContentsInv
<1> SUFFICES ASSUME Init PROVE ContentsInv
  OBVIOUS
<1>1. Writing = {}
  BY Zenon DEF Init, Writing
<1>2. last = <<>> /\ Len(last) = 0 /\ buffer[0] = NUL /\ 0 < BUF_SIZE
  BY SizeAssumption DEF Init, Zeroed
<1>3. HoldsLast
  BY <1>1, <1>2 DEF HoldsLast, Held
<1>4. \A p \in Writer : AloneWriter(p) /\ AloneReader(p)
  BY Zenon DEF Init, AloneWriter, AloneReader
<1> QED BY <1>3, <1>4, Zenon DEF ContentsInv

(* While someone writes, last names no message, no read is alone, and a    *)
(* writer that is alone is that one.                                       *)
LEMMA WhileWriting ==
    ASSUME ContentsInv, NEW p \in Writer, pc[p] \in {"copy", "end"}
    PROVE  /\ p \in Writing /\ last = Mixed
           /\ \A q \in Writer : pc[q] \in {"read", "shown"} => ~alone[q]
           /\ \A q \in Writer : pc[q] \in {"copy", "end"} /\ alone[q] => q = p
<1>1. p \in Writing
  BY Zenon DEF Writing
<1>2. last = Mixed
  BY <1>1, Zenon DEF ContentsInv, HoldsLast
<1>3. \A q \in Writer : pc[q] \in {"read", "shown"} => ~alone[q]
  BY <1>1, Zenon DEF ContentsInv, AloneReader
<1>4. \A q \in Writer : pc[q] \in {"copy", "end"} /\ alone[q] => q = p
  BY <1>1, Zenon DEF ContentsInv, AloneWriter
<1> QED BY Zenon, <1>1, <1>2, <1>3, <1>4

(* A write that begins disturbs everyone and is alone only if it is first. *)
LEMMA ContentsStart ==
    ASSUME BoundsInv, NEW p \in Writer, NEW n \in 0 .. BUF_SIZE - 1, StartWrite(p, n)
    PROVE  ContentsInv'
<1>1. /\ pc' = [pc EXCEPT ![p] = "copy"] /\ k' = [k EXCEPT ![p] = 0]
      /\ alone' = [q \in Writer |-> q = p /\ Writing = {}] /\ last' = Mixed
  BY Zenon DEF StartWrite, Start
<1>2. pc \in [Writer -> Pc] /\ k \in [Writer -> Nat]
  BY Zenon DEF BoundsInv, Types
<1>3. pc'[p] = "copy" /\ k'[p] = 0 /\ \A q \in Writer \ {p} : pc'[q] = pc[q]
  BY Zenon, <1>1, <1>2
<1>4. \A q \in Writer : alone'[q] => q = p /\ Writing = {}
  BY Zenon, <1>1
<1>5. Writing = {} => Writing' = {p}
  BY <1>3, Zenon DEF Writing
<1>6. HoldsLast'
  BY <1>1, Zenon DEF HoldsLast
<1>7. ASSUME NEW q \in Writer PROVE AloneReader(q)'
  BY <1>3, <1>4, Zenon DEF AloneReader
<1>8. ASSUME NEW q \in Writer PROVE AloneWriter(q)'
  BY <1>3, <1>4, <1>5 DEF AloneWriter
<1> QED BY <1>6, <1>7, <1>8, Zenon DEF ContentsInv

(* A write that returns leaves its message, if it was alone.               *)
LEMMA ContentsEnd ==
    ASSUME BoundsInv, ContentsInv, NEW p \in Writer, pc[p] \in {"copy", "end"},
           NEW n \in Nat, n < BUF_SIZE, EndWrite(p, Message(p, n)),
           alone[p] => buffer'[n] = NUL /\ \A j \in 0 .. n - 1 : buffer'[j] = Byte(p)
    PROVE  ContentsInv'
<1>1. /\ pc' = [pc EXCEPT ![p] = "idle"] /\ alone' = [alone EXCEPT ![p] = FALSE]
      /\ last' = IF alone[p] THEN Message(p, n) ELSE Mixed
  BY Zenon DEF EndWrite, Return
<1>2. pc \in [Writer -> Pc] /\ alone \in [Writer -> BOOLEAN]
  BY Zenon DEF BoundsInv, Types
<1>3. pc'[p] = "idle" /\ \A q \in Writer \ {p} : pc'[q] = pc[q] /\ alone'[q] = alone[q]
  BY Zenon, <1>1, <1>2
<1>4. ASSUME NEW q \in Writer PROVE AloneWriter(q)' /\ AloneReader(q)'
  BY <1>3, WhileWriting, Zenon DEF AloneWriter, AloneReader
<1>5. HoldsLast'
  <2> SUFFICES ASSUME last' # Mixed PROVE Writing' = {} /\ Held(last)'
    BY Zenon DEF HoldsLast
  <2>1. alone[p] /\ last' = Message(p, n)
    BY Zenon, <1>1
  <2>2. Writing = {p}
    BY <2>1, Zenon DEF ContentsInv, AloneWriter
  <2>3. Writing' = {}
    BY <2>2, <1>3, Zenon DEF Writing
  <2>4. \A j \in 1 .. n : j - 1 \in 0 .. n - 1
    OBVIOUS
  <2>5. Held(last)'
    BY <2>1, <2>4, MessageType, Writers, ZenonT(30) DEF Held
  <2> QED BY Zenon, <2>3, <2>5
<1> QED BY <1>4, <1>5, Zenon DEF ContentsInv

(* A step of a read leaves everything but the read itself alone.           *)
LEMMA ContentsRead ==
    ASSUME ContentsInv, NEW p \in Writer, UNCHANGED <<buffer, last>>,
           pc[p] \notin {"copy", "end"}, pc'[p] \notin {"copy", "end"},
           \A q \in Writer \ {p} : /\ pc'[q] = pc[q] /\ k'[q] = k[q]
                                   /\ out'[q] = out[q] /\ alone'[q] = alone[q],
           Writing' = Writing => AloneReader(p)'
    PROVE  ContentsInv'
<1>1. Writing' = Writing
  BY Zenon DEF Writing
<1>2. HoldsLast'
  BY <1>1, Zenon DEF ContentsInv, HoldsLast, Held
<1>3. AloneWriter(p)'
  BY Zenon DEF AloneWriter
<1>4. ASSUME NEW q \in Writer \ {p} PROVE AloneWriter(q)'
  BY <1>1, Zenon DEF ContentsInv, AloneWriter
<1>5. ASSUME NEW q \in Writer \ {p} PROVE AloneReader(q)'
  BY <1>1 DEF ContentsInv, AloneReader
<1> QED BY <1>1, <1>2, <1>3, <1>4, <1>5, Zenon DEF ContentsInv

(* Preservation of the contents invariant, one step per action.            *)
LEMMA ContentsNext == BoundsInv /\ ContentsInv /\ [Next]_vars => ContentsInv'
<1> SUFFICES ASSUME BoundsInv, ContentsInv, [Next]_vars PROVE ContentsInv'
  BY Zenon
<1>t. Types /\ Bounds
  BY Zenon DEF BoundsInv
<1>0. BUF_SIZE \in Nat /\ 0 < BUF_SIZE
  BY SizeAssumption
<1>1. CASE proc_demo_init
  BY <1>1, ContentsStart, LenFits, Zenon DEF proc_demo_init, Writer
<1>2. CASE proc_demo_exit
  <2>1. pc' = pc /\ last' = <<>> /\ buffer'[0] = NUL /\ \A p \in Writer : pc[p] = "idle"
    BY <1>2, <1>0 DEF proc_demo_exit, Zeroed
  <2>2. Writing' = {}
    BY <2>1, Zenon DEF Writing
  <2>3. HoldsLast'
    BY <2>1, <2>2, <1>0 DEF HoldsLast, Held
  <2>4. \A p \in Writer : AloneWriter(p)' /\ AloneReader(p)'
    BY <2>1, Zenon DEF AloneWriter, AloneReader
  <2> QED BY <2>3, <2>4, Zenon DEF ContentsInv
<1>3. ASSUME NEW p \in Writer, Copy(p) PROVE ContentsInv'
  <2>0. pc[p] = "copy" /\ last' = last /\ alone' = alone
    BY <1>3, Zenon DEF Copy
  <2>1. /\ pc'[p] \in {"copy", "end"}
        /\ \A q \in Writer \ {p} : pc'[q] = pc[q]
    BY <1>3, <1>t, Zenon DEF Copy, Types
  <2>2. Writing' = Writing
    BY <2>0, <2>1, Zenon DEF Writing
  <2>3. HoldsLast'
    BY <2>0, WhileWriting, Zenon DEF HoldsLast
  <2>4. ASSUME NEW q \in Writer PROVE AloneReader(q)'
    BY <2>0, <2>1, WhileWriting, Zenon DEF AloneReader
  <2>5. alone[p] => \A j \in 0 .. k'[p] - 1 : buffer'[j] = Byte(p)
    <3> SUFFICES ASSUME alone[p], NEW j \in 0 .. k'[p] - 1 PROVE buffer'[j] = Byte(p)
      BY Zenon
    <3>1. \A n \in 0 .. k[p] - 1 : buffer[n] = Byte(p)
      BY <2>0, Zenon DEF ContentsInv, AloneWriter
    <3>2. k[p] \in Nat /\ len[p] \in 0 .. BUF_SIZE - 1
      BY <1>t, Zenon DEF Types
    <3>3. CASE k[p] < len[p]
      <4>1. k[p] \in 0 .. BUF_SIZE /\ k'[p] = k[p] + 1
               /\ buffer' = [buffer EXCEPT ![k[p]] = Byte(p)]
        BY <3>2, <3>3, <1>3, <1>0, <1>t, SMTT(30) DEF Copy, Types
      <4>2. j \in 0 .. BUF_SIZE /\ (j = k[p] \/ j \in 0 .. k[p] - 1)
        BY <4>1, <3>2, <1>0
      <4> QED BY <4>1, <4>2, <3>1, <1>t, Zenon DEF Types
    <3>4. CASE ~(k[p] < len[p])
      BY <3>1, <3>4, <1>3, Zenon DEF Copy
    <3> QED BY Zenon, <3>3, <3>4
  <2>6. ASSUME NEW q \in Writer PROVE AloneWriter(q)'
    <3>1. q = p => AloneWriter(q)'
      BY <2>0, <2>2, <2>5, Zenon DEF ContentsInv, AloneWriter
    <3>2. q # p => AloneWriter(q)'
      BY <2>0, <2>1, WhileWriting, Zenon DEF AloneWriter
    <3> QED BY Zenon, <3>1, <3>2
  <2> QED BY <2>3, <2>4, <2>6, Zenon DEF ContentsInv
<1>4. ASSUME NEW p \in Writer, Fault(p) PROVE ContentsInv'
  <2>1. pc[p] = "copy" /\ k[p] < len[p] /\ EndWrite(p, Message(p, k[p]))
    BY <1>4, Zenon DEF Fault
  <2>2. k[p] \in Nat /\ k[p] < BUF_SIZE /\ len[p] \in 0 .. BUF_SIZE - 1
    BY <2>1, <1>t, <1>0 DEF Types
  <2>3. buffer'[k[p]] = NUL /\ \A j \in 0 .. k[p] - 1 : buffer'[j] = buffer[j]
    BY <1>4, <2>1, <2>2, <1>0 DEF Fault
  <2>4. alone[p] => \A j \in 0 .. k[p] - 1 : buffer[j] = Byte(p)
    BY <2>1, Zenon DEF ContentsInv, AloneWriter
  <2> QED BY Zenon, <2>1, <2>2, <2>3, <2>4, ContentsEnd
<1>5. ASSUME NEW p \in Writer, End(p) PROVE ContentsInv'
  <2>1. pc[p] = "end" /\ EndWrite(p, Message(p, len[p])) /\ k[p] = len[p]
           /\ buffer' = [buffer EXCEPT ![len[p]] = NUL]
    BY <1>5, <1>t, Zenon DEF End, Terminate, Bounds
  <2>2. len[p] \in Nat /\ len[p] < BUF_SIZE
    BY <1>t, <1>0 DEF Types
  <2>3. buffer'[len[p]] = NUL /\ \A j \in 0 .. len[p] - 1 : buffer'[j] = buffer[j]
    BY <2>1, <2>2, <1>t, <1>0 DEF Types
  <2>4. alone[p] => \A j \in 0 .. len[p] - 1 : buffer[j] = Byte(p)
    BY <2>1, Zenon DEF ContentsInv, AloneWriter
  <2> QED BY Zenon, <2>1, <2>2, <2>3, <2>4, ContentsEnd
<1>6. ASSUME NEW p \in Proc, NEW count \in 0 .. BUF_SIZE + 1, proc_write(p, count)
      PROVE  ContentsInv'
  <2>1. p \in Writer /\ LenOf(count) \in 0 .. BUF_SIZE - 1
    BY LenFits, <1>0 DEF Writer
  <2> QED BY <2>1, <1>6, ContentsStart, Zenon DEF proc_write
<1>7. ASSUME NEW p \in Proc, proc_show(p) PROVE ContentsInv'
  <2>0. p \in Writer
    BY Zenon DEF Writer
  <2>1. /\ pc[p] = "idle" /\ pc'[p] = "read" /\ k'[p] = 0 /\ out'[p] = <<>>
        /\ alone'[p] = (Writing = {}) /\ UNCHANGED <<buffer, last>>
        /\ \A q \in Writer \ {p} : /\ pc'[q] = pc[q] /\ k'[q] = k[q]
                                   /\ out'[q] = out[q] /\ alone'[q] = alone[q]
    BY <2>0, <1>7, <1>t, Zenon DEF proc_show, Start, Types
  <2>2. last \in Seq(Nat) /\ Len(last) \in Nat
    BY <1>t DEF Types
  <2>3. Writing' = Writing => AloneReader(p)'
    <3>1. Len(out'[p]) = 0 /\ 0 <= Len(last) /\ last' = last
      BY <2>1, <2>2
    <3>2. \A j \in 1 .. 0 : out'[p][j] = last[j]
      OBVIOUS
    <3>3. pc'[p] = "read" /\ k'[p] = 0 /\ (alone'[p] => Writing = {})
      BY Zenon, <2>1
    <3> QED BY <3>1, <3>2, <3>3, Zenon DEF AloneReader
  <2> QED BY Zenon, <2>0, <2>1, <2>3, ContentsRead
<1>8. ASSUME NEW p \in Proc, Scan(p) PROVE ContentsInv'
  <2>0. p \in Writer
    BY DEF Writer
  <2>1. /\ pc[p] = "read" /\ pc'[p] \in {"read", "shown"}
        /\ UNCHANGED <<buffer, last, alone>>
        /\ \A q \in Writer \ {p} : pc'[q] = pc[q] /\ k'[q] = k[q] /\ out'[q] = out[q]
    BY <2>0, <1>8, <1>t, Zenon DEF Scan, Types
  <2>2. Writing' = Writing => AloneReader(p)'
    <3> SUFFICES ASSUME Writing' = Writing, alone[p]
                 PROVE  AloneReader(p)'
      BY <2>1, Zenon DEF AloneReader
    <3>1. Writing' = {}
      BY <2>0, <2>1, Zenon DEF ContentsInv, AloneReader
    <3> SUFFICES ASSUME last # Mixed
                 PROVE  /\ Len(out'[p]) = k'[p] /\ k'[p] <= Len(last)
                        /\ \A j \in 1 .. k'[p] : out'[p][j] = last[j]
                        /\ pc'[p] = "shown" => k'[p] = Len(last)
      BY <2>1, <3>1, Zenon DEF AloneReader
    <3>2. /\ Len(out[p]) = k[p] /\ k[p] <= Len(last)
          /\ \A j \in 1 .. k[p] : out[p][j] = last[j]
      BY <2>0, <2>1, Zenon DEF ContentsInv, AloneReader
    <3>3. /\ k[p] \in Nat /\ Len(last) \in Nat /\ out[p] \in Seq(Nat)
          /\ k \in [Writer -> Nat] /\ out \in [Writer -> Seq(Nat)] /\ pc \in [Writer -> Pc]
      BY <2>0, <1>t DEF Types
    <3>4. /\ buffer[Len(last)] = NUL
          /\ \A j \in 1 .. Len(last) : last[j] # NUL /\ buffer[j - 1] = last[j]
      BY Zenon DEF ContentsInv, HoldsLast, Held
    <3>5. k[p] < Len(last) => buffer[k[p]] = last[k[p] + 1] /\ buffer[k[p]] # NUL
      <4> SUFFICES ASSUME k[p] < Len(last)
                   PROVE  buffer[k[p]] = last[k[p] + 1] /\ buffer[k[p]] # NUL
        BY Zenon
      <4>1. k[p] + 1 \in 1 .. Len(last) /\ (k[p] + 1) - 1 = k[p]
        BY <3>3
      <4> QED BY Zenon, <4>1, <3>4
    <3>6. CASE buffer[k[p]] = NUL
      <4>1. k[p] = Len(last)
        BY <3>2, <3>3, <3>5, <3>6
      <4>2. k' = k /\ out' = out
        BY <1>8, <3>6, Zenon DEF Scan
      <4> QED BY Zenon, <4>1, <4>2, <3>2
    <3>7. CASE buffer[k[p]] # NUL
      <4>1. k[p] < Len(last)
        BY <3>2, <3>3, <3>4, <3>7
      <4>2. /\ k'[p] = k[p] + 1 /\ out'[p] = Append(out[p], buffer[k[p]])
            /\ pc'[p] = "read"
        BY <1>8, <2>0, <2>1, <3>3, <3>7, Zenon DEF Scan
      <4>4. Len(out'[p]) = k'[p] /\ k'[p] <= Len(last)
        BY <4>1, <4>2, <3>2, <3>3
      <4>5. \A j \in 1 .. k'[p] : j \in 1 .. k[p] \/ j = k[p] + 1
        <5>1. k'[p] = k[p] + 1 /\ k[p] \in Nat
          BY Zenon, <4>2, <3>3
        <5> QED BY <5>1
      <4>6. ASSUME NEW j \in 1 .. k'[p] PROVE out'[p][j] = last[j]
        <5>0. last[k[p] + 1] = buffer[k[p]] /\ k[p] \in 0 .. BUF_SIZE
          BY <2>0, <2>1, <4>1, <3>5, <3>3, <1>t, <1>0 DEF Bounds
        <5>1. out'[p] = Append(out[p], last[k[p] + 1]) /\ last[k[p] + 1] \in Nat
          BY <5>0, <4>2, <1>t, Zenon DEF Types
        <5>2. CASE j \in 1 .. k[p]
          <6>1. Append(out[p], last[k[p] + 1])[j] = out[p][j]
            BY <5>1, <5>2, <3>2, <3>3, AppendProperties
          <6> QED BY Zenon, <6>1, <5>1, <5>2, <3>2
        <5>3. CASE j = k[p] + 1
          <6>1. Append(out[p], last[k[p] + 1])[Len(out[p]) + 1] = last[k[p] + 1]
            BY <5>1, <3>3, AppendProperties
          <6> QED BY Zenon, <6>1, <5>1, <5>3, <3>2
        <5> QED BY Zenon, <5>2, <5>3, <4>5
      <4> QED BY Zenon, <4>2, <4>4, <4>6
    <3> QED BY Zenon, <3>6, <3>7
  <2> QED BY Zenon, <2>0, <2>1, <2>2, ContentsRead
<1>9. ASSUME NEW p \in Proc, Shown(p) PROVE ContentsInv'
  <2>0. p \in Writer
    BY DEF Writer
  <2>1. /\ pc[p] = "shown" /\ pc'[p] = "idle" /\ UNCHANGED <<buffer, last>>
        /\ \A q \in Writer \ {p} : /\ pc'[q] = pc[q] /\ k'[q] = k[q]
                                   /\ out'[q] = out[q] /\ alone'[q] = alone[q]
    BY <2>0, <1>9, <1>t, Zenon DEF Shown, Return, Types
  <2>2. AloneReader(p)'
    BY <2>1, Zenon DEF AloneReader
  <2> QED BY Zenon, <2>0, <2>1, <2>2, ContentsRead
<1>10. CASE UNCHANGED vars
  BY <1>10, Zenon DEF vars, ContentsInv, HoldsLast, Held, AloneWriter, AloneReader, Writing
<1> QED BY <1>1, <1>2, <1>3, <1>4, <1>5, <1>6, <1>7, <1>8, <1>9, <1>10, Zenon DEF Next

(* A read of the file that no write overlapped shows exactly the last      *)
(* message, if that was written with no other writer at work, whatever was *)
(* in the buffer before and even if the write failed half-way.             *)
THEOREM ReadWhole == Spec => []UndisturbedReadWhole
<1>1. BoundsInv /\ ContentsInv => UndisturbedReadWhole
  <2> SUFFICES ASSUME BoundsInv, ContentsInv, NEW p \in Proc,
                      pc[p] = "shown", alone[p], last # Mixed
               PROVE  out[p] = last
    BY Zenon DEF UndisturbedReadWhole
  <2>0. p \in Writer
    BY Zenon DEF Writer
  <2>1. out[p] \in Seq(Nat) /\ last \in Seq(Nat)
    BY <2>0, Zenon DEF BoundsInv, Types
  <2>2. Len(out[p]) = Len(last) /\ \A j \in 1 .. Len(last) : out[p][j] = last[j]
    BY <2>0, Zenon DEF ContentsInv, AloneReader
  <2> QED BY Zenon, <2>1, <2>2, SeqEqual
<1> QED BY BoundsInit, BoundsNext, ContentsInit, ContentsNext, <1>1, PTL DEF Spec

-----------------------------------------------------------------------------
(* nfqueue_userspace.c                                                     *)

(* Once a packet has been handled after the signal, recv is not reached    *)
(* again: the loop has seen that running is FALSE.                         *)
NoSecond ==
    /\ more \in {0, 1}
    /\ more = 1 => ~running /\ listener # "recv"

(* For every number of packets under way and every size of the socket      *)
(* buffer, nfqueue_userspace handles at most one packet after a signal:    *)
(* the one recv was waiting for, or already had, when running was cleared. *)
THEOREM OneMore == Filter!Spec => []OneMorePacket
<1>1. Filter!Init => NoSecond
  BY DEF Filter!Init, NoSecond
<1>2. NoSecond /\ [Filter!Next]_Filter!vars => NoSecond'
  <2> SUFFICES ASSUME NoSecond, [Filter!Next]_Filter!vars PROVE NoSecond'
    BY Zenon
  <2>1. CASE UNCHANGED <<listener, running, more>>
    BY <2>1, Zenon DEF NoSecond
  <2>2. CASE Filter!Setup
    BY <2>2 DEF Filter!Setup, NoSecond
  <2>3. CASE Filter!While
    BY <2>3, Zenon DEF Filter!While, Filter!Goto, Filter!LoopGoesOn, NoSecond
  <2>4. CASE Filter!Recv
    BY <2>4 DEF Filter!Recv, Filter!Goto, NoSecond
  <2>5. CASE Filter!nfq_handle_packet
    BY <2>5, Zenon DEF Filter!nfq_handle_packet, Filter!Goto, NoSecond
  <2>6. CASE Filter!Exit
    BY <2>6, Zenon DEF Filter!Exit, Filter!Goto, NoSecond
  <2>7. CASE Filter!signal_handler
    BY <2>7, Zenon DEF Filter!signal_handler, NoSecond
  <2>8. ASSUME NEW m, Filter!Load(m) \/ Filter!Unload(m) PROVE UNCHANGED <<listener, running, more>>
    BY <2>8, Zenon DEF Filter!Load, Filter!Unload, Filter!userVars
  <2>9. ASSUME NEW n, Filter!SetQueueNum(n) PROVE UNCHANGED <<listener, running, more>>
    BY <2>9, Zenon DEF Filter!SetQueueNum, Filter!userVars
  <2>10. ASSUME NEW p \in Slot, Filter!PacketStep(p) \/ \E pr \in Filter!Packet : Filter!Arrive(p, pr)
         PROVE  UNCHANGED <<listener, running, more>>
    BY <2>10, Zenon DEF Filter!PacketStep, Filter!Accept, Filter!Drop, Filter!Queue, Filter!Reuse, Filter!Arrive,
       Filter!userVars
  <2>11. CASE UNCHANGED Filter!vars
    BY <2>1, <2>11, Zenon DEF Filter!vars, Filter!userVars
  <2> QED BY <2>1, <2>2, <2>3, <2>4, <2>5, <2>6, <2>7, <2>8, <2>9, <2>10, <2>11, ZenonT(30)
          DEF Filter!Next, Filter!ListenerStep, Filter!nf_ipaddr_show_init, Filter!nf_local_out_init,
              Filter!nf_blockpkt_init, Filter!my_nfqueue_init, Filter!nf_ipaddr_show_exit,
              Filter!nf_local_out_exit, Filter!nf_blockpkt_exit, Filter!my_nfqueue_exit
<1>3. NoSecond => OneMorePacket
  BY DEF NoSecond, OneMorePacket, Filter!OneMorePacket
<1> QED BY <1>1, <1>2, <1>3, PTL DEF Filter!Spec

-----------------------------------------------------------------------------
(* Loading and unloading snull.c                                           *)

Stages == {"null", "allocated", "registered", "unregistered", "freed"}

ModuleTypes ==
    /\ i \in 0 .. 2 /\ use_napi \in BOOLEAN
    /\ snDev \in [{0, 1} -> Stages] /\ smUp \in [{0, 1} -> BOOLEAN]
    /\ ppool \in [{0, 1} -> Nat] /\ flight \in [{0, 1} -> Nat]
    /\ quiet \in BOOLEAN /\ busy \in BOOLEAN /\ touched \in BOOLEAN

(* How far each device is, by where snull_init_module or snull_cleanup is. *)
Progress ==
    \/ /\ smPc = "out" /\ i = 0
       /\ \A d \in {0, 1} : snDev[d] \in {"null", "freed"}
    \/ /\ smPc = "alloc" /\ ret = "-ENOMEM"
       /\ \A d \in {0, 1} : snDev[d] \in {"null", "allocated"} /\ (i <= d => snDev[d] = "null")
    \/ /\ smPc = "register"
       /\ \A d \in {0, 1} : snDev[d] \in {"allocated", "registered"}
    \/ /\ smPc = "out:" /\ ret # "0" /\ i = 0
       /\ \A d \in {0, 1} : snDev[d] \in {"null", "allocated"}
    \/ /\ smPc = "in" /\ i = 0
       /\ \A d \in {0, 1} : snDev[d] \in {"allocated", "registered"}
    \/ /\ smPc \in {"unregister", "teardown", "free"} /\ i \in {0, 1}
       /\ i = 1 => snDev[0] \in {"null", "freed"}
       /\ i = 0 => snDev[1] \in {"null", "allocated", "registered"}
       /\ IF smPc = "unregister" THEN snDev[i] \in {"null", "allocated", "registered"}
          ELSE snDev[i] = "unregistered"

(* The traffic: only a registered device is up, only a device that was     *)
(* registered has buffers under way, and a failed load never got that far. *)
Traffic ==
    /\ \A d \in {0, 1} :
          /\ smUp[d] => snDev[d] = "registered"
          /\ snDev[d] = "null" => ppool[d] = 0 /\ flight[d] = 0
          /\ ret # "0" \/ quiet => ~smUp[d] /\ flight[d] = 0
          /\ (ret # "0" \/ quiet) /\ (snDev[d] = "freed" \/ (smPc = "free" /\ d = i)) => ppool[d] = 0
          /\ ret # "0" => snDev[d] # "registered"

(* Uses of a freed device.                                                 *)
Touching ==
    /\ smPc \in {"alloc", "register", "out:", "in"} => ~touched
    /\ smPc \in {"unregister", "teardown", "free"} /\ smUp[1] => busy
    /\ touched => busy

ModuleInv == ModuleTypes /\ Progress /\ Traffic /\ Touching

(* The module has not been loaded.                                         *)
LEMMA ModuleInit == Module!Init => ModuleInv
<1> SUFFICES ASSUME Module!Init PROVE ModuleInv
  BY Zenon
<1>1. ModuleTypes
  <2>1. i \in 0 .. 2 /\ 0 \in Nat
    BY DEF Module!Init, Module!Fresh
  <2> QED BY <2>1, Zenon DEF Module!Init, Module!Fresh, Module!Dev, ModuleTypes, Stages
<1>3. Progress
  BY Zenon DEF Module!Init, Module!Fresh, Module!Dev, Progress
<1>2. Traffic /\ Touching
  BY Zenon DEF Module!Init, Module!Fresh, Module!Dev, Traffic, Touching
<1> QED BY <1>1, <1>2, <1>3, Zenon DEF ModuleInv

(* snull_init_module.                                                      *)
LEMMA ModuleLoad ==
    ASSUME ModuleInv,
           Module!Insmod \/ Module!AllocNetdev \/ Module!Allocated \/ Module!RegisterNetdev \/ Module!Out
    PROVE  ModuleInv'
<1> USE DEF Module!Dev, Module!dataVars, Module!histVars
<1>1. CASE Module!Insmod
  BY <1>1, Zenon DEF Module!Insmod, Module!Goto, ModuleInv, ModuleTypes, Stages, Progress, Traffic, Touching
<1>2. CASE Module!AllocNetdev
  <2>1. ModuleTypes'
    BY <1>2 DEF Module!AllocNetdev, ModuleInv, ModuleTypes, Stages, Progress
  <2>2. Progress'
    BY <1>2 DEF Module!AllocNetdev, ModuleInv, ModuleTypes, Progress
  <2>3. Traffic' /\ Touching'
    BY <1>2, Zenon DEF Module!AllocNetdev, ModuleInv, ModuleTypes, Progress, Traffic, Touching
  <2> QED BY <2>1, <2>2, <2>3, Zenon DEF ModuleInv
<1>3. CASE Module!Allocated
  <2>1. ModuleTypes'
    BY <1>3 DEF Module!Allocated, Module!Goto, ModuleInv, ModuleTypes
  <2>2. Progress'
    BY <1>3, Zenon DEF Module!Allocated, Module!Goto, ModuleInv, ModuleTypes, Progress
  <2>3. Traffic' /\ Touching'
    BY <1>3, Zenon DEF Module!Allocated, Module!Goto, ModuleInv, ModuleTypes, Progress, Traffic, Touching
  <2> QED BY <2>1, <2>2, <2>3 DEF ModuleInv
<1>4. CASE Module!RegisterNetdev
  <2>1. ModuleTypes'
    BY <1>4 DEF Module!RegisterNetdev, ModuleInv, ModuleTypes, Stages
  <2>2. Progress'
    BY <1>4, Zenon DEF Module!RegisterNetdev, ModuleInv, ModuleTypes, Progress
  <2>3. Traffic' /\ Touching'
    BY <1>4 DEF Module!RegisterNetdev, Module!RegisterResult, ModuleInv, ModuleTypes, Progress, Traffic, Touching
  <2> QED BY <2>1, <2>2, <2>3 DEF ModuleInv
<1>5. CASE Module!Out
  <2>1. ModuleTypes'
    BY <1>5 DEF Module!Out, ModuleInv, ModuleTypes
  <2>2. Progress'
    BY <1>5 DEF Module!Out, Module!Goto, ModuleInv, ModuleTypes, Progress, Traffic
  <2>3. Traffic' /\ Touching'
    BY <1>5, Zenon DEF Module!Out, Module!Goto, ModuleInv, ModuleTypes, Progress, Traffic, Touching
  <2> QED BY <2>1, <2>2, <2>3 DEF ModuleInv
<1> QED BY Zenon, <1>1, <1>2, <1>3, <1>4, <1>5

(* snull_cleanup.                                                          *)
LEMMA ModuleUnload ==
    ASSUME ModuleInv,
           Module!rmmod \/ Module!SkipNull \/ Module!Unregister \/ Module!Teardown \/ Module!FreeNetdev
    PROVE  ModuleInv'
<1> USE DEF Module!Dev, Module!dataVars, Module!histVars
<1>1. CASE Module!rmmod
  <2>1. ModuleTypes' /\ Progress'
    BY <1>1 DEF Module!rmmod, Module!Goto, ModuleInv, ModuleTypes, Progress
  <2>2. Traffic' /\ Touching'
    BY <1>1, Zenon DEF Module!rmmod, Module!Goto, ModuleInv, ModuleTypes, Progress, Traffic, Touching
  <2> QED BY <2>1, <2>2, Zenon DEF ModuleInv
<1>2. CASE Module!SkipNull
  <2>1. ModuleTypes' /\ Progress'
    BY <1>2 DEF Module!SkipNull, Module!NextDev, ModuleInv, ModuleTypes, Progress
  <2>2. Traffic' /\ Touching'
    BY <1>2, Zenon DEF Module!SkipNull, Module!NextDev, ModuleInv, ModuleTypes, Progress, Traffic, Touching
  <2> QED BY <2>1, <2>2 DEF ModuleInv
<1>3. CASE Module!Unregister
  <2>1. ModuleTypes'
    BY <1>3, Zenon DEF Module!Unregister, Module!unregister_netdev, Module!Goto, ModuleInv, ModuleTypes, Stages
  <2>2. Progress'
    BY <1>3, Zenon DEF Module!Unregister, Module!unregister_netdev, Module!Goto, ModuleInv, ModuleTypes, Progress
  <2>3. Traffic' /\ Touching'
    BY <1>3, Zenon DEF Module!Unregister, Module!unregister_netdev, Module!Goto, ModuleInv, ModuleTypes, Progress,
       Traffic, Touching
  <2> QED BY <2>1, <2>2, <2>3 DEF ModuleInv
<1>4. CASE Module!Teardown
  <2>1. ModuleTypes' /\ Progress'
    BY <1>4, Zenon DEF Module!Teardown, Module!snull_teardown_pool, Module!Goto, ModuleInv, ModuleTypes, Progress
  <2>2. Traffic' /\ Touching'
    BY <1>4, Zenon DEF Module!Teardown, Module!snull_teardown_pool, Module!Goto, ModuleInv, ModuleTypes, Progress,
       Traffic, Touching
  <2> QED BY <2>1, <2>2 DEF ModuleInv
<1>5. CASE Module!FreeNetdev
  <2>1. ModuleTypes'
    <3>1. i' \in 0 .. 2
      BY <1>5 DEF Module!FreeNetdev, Module!NextDev
    <3> QED BY <1>5, <3>1, Zenon DEF Module!FreeNetdev, ModuleInv, ModuleTypes, Stages
  <2>2. Progress'
    BY <1>5, Zenon DEF Module!FreeNetdev, Module!NextDev, ModuleInv, ModuleTypes, Progress
  <2>3. Traffic' /\ Touching'
    BY <1>5, Zenon DEF Module!FreeNetdev, Module!NextDev, ModuleInv, ModuleTypes, Progress, Traffic, Touching
  <2> QED BY <2>1, <2>2, <2>3 DEF ModuleInv
<1> QED BY <1>1, <1>2, <1>3, <1>4, <1>5

(* The interfaces are opened, closed and used.                             *)
LEMMA ModuleUse ==
    ASSUME ModuleInv, NEW d \in {0, 1},
           Module!snull_open(d) \/ Module!snull_release(d) \/ Module!snull_tx(d) \/ Module!snull_rx(d)
    PROVE  ModuleInv'
<1> USE DEF Module!loadVars, Module!histVars
<1>1. CASE Module!snull_open(d)
  <2>1. ModuleTypes' /\ Progress'
    BY <1>1, Zenon DEF Module!snull_open, Module!Unloading, ModuleInv, ModuleTypes, Progress
  <2>2. Traffic' /\ Touching'
    BY <1>1, Zenon DEF Module!snull_open, Module!Unloading, ModuleInv, ModuleTypes, Progress, Traffic, Touching
  <2> QED BY <2>1, <2>2, Zenon DEF ModuleInv
<1>2. CASE Module!snull_release(d)
  BY <1>2, ZenonT(30) DEF Module!snull_release, ModuleInv, ModuleTypes, Progress, Traffic, Touching
<1>3. CASE Module!snull_tx(d)
  <2>1. ModuleTypes' /\ Progress'
    BY <1>3 DEF Module!snull_tx, Module!Use, ModuleInv, ModuleTypes, Progress
  <2>2. Traffic'
    BY <1>3, Zenon DEF Module!snull_tx, ModuleInv, ModuleTypes, Progress, Traffic
  <2>3. Touching'
    BY <1>3 DEF Module!snull_tx, Module!Use, Module!Twin, ModuleInv, ModuleTypes, Progress, Traffic, Touching
  <2> QED BY <2>1, <2>2, <2>3, Zenon DEF ModuleInv
<1>4. CASE Module!snull_rx(d)
  <2>1. ModuleTypes' /\ Progress'
    BY <1>4 DEF Module!snull_rx, Module!Use, ModuleInv, ModuleTypes, Progress
  <2>2. Traffic'
    BY <1>4 DEF Module!snull_rx, ModuleInv, ModuleTypes, Progress, Traffic
  <2>3. Touching'
    BY <1>4 DEF Module!snull_rx, Module!Use, Module!Twin, Module!Dev, ModuleInv, ModuleTypes, Progress, Traffic,
       Touching
  <2> QED BY <2>1, <2>2, <2>3 DEF ModuleInv
<1> QED BY Zenon, <1>1, <1>2, <1>3, <1>4

(* Every step of snull.c as a module keeps the invariant.                  *)
LEMMA ModuleNext == ModuleInv /\ [Module!Next]_Module!vars => ModuleInv'
<1> SUFFICES ASSUME ModuleInv, [Module!Next]_Module!vars PROVE ModuleInv'
  BY Zenon
<1>1. CASE UNCHANGED Module!vars
  BY <1>1, ZenonT(30) DEF Module!vars, Module!loadVars, Module!dataVars, Module!histVars, ModuleInv, ModuleTypes, Progress,
     Traffic, Touching
<1> QED BY <1>1, ModuleLoad, ModuleUnload, ModuleUse, Zenon DEF Module!Next, Module!Dev

(* For every pool size: a load of snull that fails, at whatever allocation *)
(* or registration, leaves no device, interface or buffer behind, because  *)
(* a failed load never registered a device; nor does an unload of drained  *)
(* interfaces during which none is opened.                                 *)
THEOREM CleanUnload == Module!Spec => []NothingLeftBehind
<1>1. ModuleInv => NothingLeftBehind
  BY Zenon DEF ModuleInv, Progress, Traffic, NothingLeftBehind, Module!NothingLeftBehind, Module!Dev
<1> QED BY <1>1, ModuleInit, ModuleNext, PTL DEF Module!Spec

(* For every pool size: snull_cleanup, which frees the first device while  *)
(* the second is still registered, makes nobody use a freed device unless  *)
(* the second one has been up since rmmod.                                 *)
THEOREM FreedIdle == Module!Spec => []FreedOnlyIdle
<1>1. ModuleInv => FreedOnlyIdle
  BY Zenon DEF ModuleInv, Touching, FreedOnlyIdle, Module!FreedOnlyIdle
<1> QED BY <1>1, ModuleInit, ModuleNext, PTL DEF Module!Spec
=============================================================================
