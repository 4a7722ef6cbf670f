------------------------------ MODULE MCStats -------------------------------
(***************************************************************************)
(* The counters of dummy-eth beside other modules.                         *)
(***************************************************************************)
EXTENDS Integers

CONSTANTS Cpus, MaxLen, MaxFrames

ASSUME CpuAssumption == Cpus \in Nat

VARIABLES up, carrier, online, dstats, xmit, skb_tx_q, counting, reader, stats, since, sent

Stats == INSTANCE DummyStats WITH rx <- counting

statVars ==
    <<up, carrier, online, dstats, xmit, skb_tx_q, counting, reader, stats, since, sent>>

-----------------------------------------------------------------------------
(* dummy-eth.c: sums lie between the totals at call and at return.         *)
StatsBetween == Stats!StatsBetween
=============================================================================
