------------------------------ MODULE ProcDemo ------------------------------
(***************************************************************************)
(* proc_demo.c: one static buffer that processes write and read through    *)
(* /proc/proc_demo/status without any lock, byte by byte, while the module *)
(* is loaded, initialised and unloaded.                                    *)
(***************************************************************************)
EXTENDS Naturals, Sequences

CONSTANTS Proc,         \* positive numbers: processes with the file open
          BUF_SIZE,
          Default       \* length of the message proc_demo_init copies

ASSUME ProcAssumption == Proc \subseteq Nat \ {0}
ASSUME SizeAssumption == BUF_SIZE \in Nat \ {0} /\ Default \in 0 .. BUF_SIZE - 1

Init0 == 0              \* proc_demo_init as a writer
Writer == Proc \cup {Init0}

NUL == 0
Byte(p) == p + 1                            \* what p writes
Beyond == 255                               \* what lies behind the buffer
Message(p, n) == [j \in 1 .. n |-> Byte(p)]
Mixed == <<NUL>>                            \* no message

VARIABLES buffer,       \* kernel_buffer, and the cell after it
          file,         \* the entry exists
          loaded,       \* proc_demo_init has returned
          pc, len,      \* each process: what it does, its local len
          k,            \* and the byte it has come to
          out,          \* what a read has got so far
          alone,        \* no other writer was at work since it began
          last          \* the message of the last write, if it was alone

vars == <<buffer, file, loaded, pc, len, k, out, alone, last>>

Zeroed == [j \in 0 .. BUF_SIZE |-> IF j < BUF_SIZE THEN NUL ELSE Beyond]

Init ==
    /\ buffer = Zeroed /\ file = FALSE /\ loaded = FALSE
    /\ pc = [p \in Writer |-> "idle"] /\ len = [p \in Writer |-> 0]
    /\ k = [p \in Writer |-> 0] /\ out = [p \in Writer |-> <<>>]
    /\ alone = [p \in Writer |-> FALSE] /\ last = <<>>

Writing == {p \in Writer : pc[p] \in {"copy", "end"}}

Start(p, what, n) ==
    /\ pc' = [pc EXCEPT ![p] = what] /\ len' = [len EXCEPT ![p] = n]
    /\ k' = [k EXCEPT ![p] = 0] /\ out' = [out EXCEPT ![p] = <<>>]

(* A write is under way: whoever else is at work is disturbed.             *)
StartWrite(p, n) ==
    /\ Start(p, "copy", n)
    /\ alone' = [q \in Writer |-> q = p /\ Writing = {}]
    /\ last' = Mixed
    /\ UNCHANGED buffer

(* Locals are forgotten on return.                                         *)
Return(p) ==
    /\ pc' = [pc EXCEPT ![p] = "idle"] /\ len' = [len EXCEPT ![p] = 0]
    /\ k' = [k EXCEPT ![p] = 0] /\ out' = [out EXCEPT ![p] = <<>>]
    /\ alone' = [alone EXCEPT ![p] = FALSE]

EndWrite(p, message) ==
    /\ Return(p)
    /\ last' = IF alone[p] THEN message ELSE Mixed

-----------------------------------------------------------------------------
(* proc_demo_init: the file can be used before the message is copied.      *)

proc_demo_init ==
    /\ ~file /\ file' = TRUE
    /\ StartWrite(Init0, Default) /\ UNCHANGED loaded

(* remove_proc_subtree waits for the calls under way; the buffer goes with *)
(* the module.                                                             *)
proc_demo_exit ==
    /\ loaded /\ \A p \in Writer : pc[p] = "idle"
    /\ loaded' = FALSE /\ file' = FALSE
    /\ buffer' = Zeroed /\ last' = <<>>
    /\ UNCHANGED <<pc, len, k, out, alone>>

-----------------------------------------------------------------------------
(* proc_write                                                              *)

(* Fault: the terminator's place is not kept free.                         *)
LenOf_Full(count) == IF count >= BUF_SIZE THEN BUF_SIZE ELSE count

LenOf(count) == IF count >= BUF_SIZE THEN BUF_SIZE - 1 ELSE count

proc_write(p, count) ==
    /\ file /\ pc[p] = "idle"
    /\ StartWrite(p, LenOf(count)) /\ UNCHANGED <<file, loaded>>

(* copy_from_user, or strcpy for proc_demo_init.                           *)
Copy(p) ==
    /\ pc[p] = "copy"
    /\ IF k[p] < len[p]
       THEN /\ buffer' = [buffer EXCEPT ![k[p]] = Byte(p)]
            /\ k' = [k EXCEPT ![p] = @ + 1] /\ UNCHANGED pc
       ELSE pc' = [pc EXCEPT ![p] = "end"] /\ UNCHANGED <<buffer, k>>
    /\ UNCHANGED <<file, loaded, len, out, alone, last>>

(* -EFAULT: copy_from_user zeroes what it could not copy.                  *)
Fault(p) ==
    /\ pc[p] = "copy" /\ p # Init0 /\ k[p] < len[p]
    /\ buffer' = [j \in 0 .. BUF_SIZE |->
                    IF k[p] <= j /\ j < len[p] THEN NUL ELSE buffer[j]]
    /\ EndWrite(p, Message(p, k[p])) /\ UNCHANGED <<file, loaded>>

(* Fault: the old message is not cut off.                                  *)
Terminate_Not(p) == buffer

Terminate(p) == [buffer EXCEPT ![len[p]] = NUL]

End(p) ==
    /\ pc[p] = "end"
    /\ buffer' = Terminate(p)
    /\ loaded' = (loaded \/ p = Init0)
    /\ EndWrite(p, Message(p, len[p])) /\ UNCHANGED file

-----------------------------------------------------------------------------
(* proc_show                                                               *)

proc_show(p) ==
    /\ file /\ pc[p] = "idle"
    /\ Start(p, "read", 0)
    /\ alone' = [alone EXCEPT ![p] = Writing = {}]
    /\ UNCHANGED <<buffer, file, loaded, last>>

(* seq_printf scans for the terminator.                                    *)
Scan(p) ==
    /\ pc[p] = "read"
    /\ IF buffer[k[p]] = NUL
       THEN pc' = [pc EXCEPT ![p] = "shown"] /\ UNCHANGED <<k, out>>
       ELSE /\ out' = [out EXCEPT ![p] = Append(@, buffer[k[p]])]
            /\ k' = [k EXCEPT ![p] = @ + 1] /\ UNCHANGED pc
    /\ UNCHANGED <<buffer, file, loaded, len, alone, last>>

Shown(p) ==
    /\ pc[p] = "shown" /\ Return(p)
    /\ UNCHANGED <<buffer, file, loaded, last>>

Next ==
    \/ proc_demo_init \/ proc_demo_exit
    \/ \E p \in Writer : Copy(p) \/ Fault(p) \/ End(p)
    \/ \E p \in Proc : \/ \E count \in 0 .. BUF_SIZE + 1 : proc_write(p, count)
                       \/ proc_show(p) \/ Scan(p) \/ Shown(p)

Spec == Init /\ [][Next]_vars

-----------------------------------------------------------------------------
(* However the writes, the copy of the first message and the reads         *)
(* interleave, nothing is written behind the buffer, and every read finds  *)
(* a terminator inside it.                                                 *)
StaysInBuffer ==
    /\ buffer[BUF_SIZE] = Beyond
    /\ \A p \in Proc : pc[p] = "read" => k[p] < BUF_SIZE

(* A read that no write overlapped gives all of the last message and       *)
(* nothing else, if that was written with no other writer at work: also    *)
(* after a longer one, and after a write that failed half-way.             *)
UndisturbedReadWhole ==
    \A p \in Proc : pc[p] = "shown" /\ alone[p] /\ last # Mixed => out[p] = last
=============================================================================
