--------------------------- MODULE MCSnullTraffic ---------------------------
(***************************************************************************)
(* Both interrupt handlers of snull under traffic, for TLC: handler says   *)
(* which one the module was loaded with.  With the regular one, given by   *)
(* the constants, both devices transmit at once; with the NAPI one, one of *)
(* them sends a longer run of frames, four while memory lasts or three     *)
(* when the receiver may run out of it.                                    *)
(***************************************************************************)
EXTENDS Snull

VARIABLE handler

Napi(outcomes, frames) ==
    INSTANCE Snull
       WITH UseNapi <- TRUE, Lockup <- 0, SkbAlloc <- outcomes,
            Senders <- {sn0}, WaitForTwin <- TRUE, MaxTx <- frames

(* The devices are interchangeable under the regular handler, and the pool *)
(* of the one that only receives is never used.                            *)
TrafficInit ==
    \/ handler = "regular" /\ Init /\ npool[sn0] >= npool[sn1]
    \/ handler = "napi" /\ Napi({TRUE}, 4)!Init /\ npool[sn0] = npool[sn1]
    \/ /\ handler = "napi, short of memory"
       /\ Napi({TRUE, FALSE}, 3)!Init /\ npool[sn0] = npool[sn1]

TrafficNext ==
    /\ \/ handler = "regular" /\ Next
       \/ handler = "napi" /\ Napi({TRUE}, 4)!Next
       \/ handler = "napi, short of memory" /\ Napi({TRUE, FALSE}, 3)!Next
    /\ UNCHANGED handler

TrafficSpec == TrafficInit /\ [][TrafficNext]_<<handler, vars>>
=============================================================================
