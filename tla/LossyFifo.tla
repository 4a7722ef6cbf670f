----------------------------- MODULE LossyFifo ------------------------------
(***************************************************************************)
(* What the simulated hardware promises its driver: a first-in first-out   *)
(* line of numbered messages that may lose some but never reorders, doubles*)
(* or invents one.                                                         *)
(***************************************************************************)
EXTENDS Naturals, Sequences

VARIABLES put,          \* the number of messages put in so far
          line,         \* the messages in the line, oldest first
          delivered,    \* the messages handed to the receiver
          lost

vars == <<put, line, delivered, lost>>

Init == put = 0 /\ line = <<>> /\ delivered = <<>> /\ lost = {}

Put ==
    /\ put' = put + 1
    /\ line' = Append(line, put + 1)
    /\ UNCHANGED <<delivered, lost>>

Deliver ==
    /\ line # <<>>
    /\ delivered' = Append(delivered, Head(line))
    /\ line' = Tail(line)
    /\ UNCHANGED <<put, lost>>

(* The oldest message is lost.                                             *)
Lose ==
    /\ line # <<>>
    /\ lost' = lost \cup {Head(line)}
    /\ line' = Tail(line)
    /\ UNCHANGED <<put, delivered>>

(* The line is cut after its first k messages.                             *)
Cut(k) ==
    /\ lost' = lost \cup {line[i] : i \in k + 1 .. Len(line)}
    /\ line' = SubSeq(line, 1, k)
    /\ UNCHANGED <<put, delivered>>

Next == Put \/ Deliver \/ Lose \/ \E k \in 0 .. Len(line) : Cut(k)

Spec == Init /\ [][Next]_vars
=============================================================================
