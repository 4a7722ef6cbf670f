----------------------------- MODULE DummyStats -----------------------------
(***************************************************************************)
(* The per-CPU counters of a deth device (dummy-eth.c): dummy_xmit counts  *)
(* on the CPU it runs on, dummy_eth_rx on the CPU its thread runs on or has*)
(* just left, dummy_get_stats64 adds up what it finds on the way.  On a    *)
(* 64-bit build u64_stats_update_begin and u64_stats_fetch_retry are empty,*)
(* so every load and every increment is a step of its own; each counter    *)
(* has one writer at a time (the holder of the transmit lock, the thread). *)
(***************************************************************************)
EXTENDS Sums, Sequences, FiniteSetsExt

CONSTANTS Cpus,         \* possible CPUs, numbered from 1
          MaxLen,       \* bound: length of a frame
          MaxFrames     \* bound: frames transmitted

Cpu == 1 .. Cpus
Field == {"rx_packets", "rx_bytes", "tx_packets", "tx_bytes"}
Zero == [f \in Field |-> 0]

VARIABLES up,           \* between dummy_open and dummy_close
          carrier,
          online,       \* the CPUs that run code
          dstats,       \* struct pcpu_dstats of every possible CPU
          xmit,         \* where dummy_xmit is, on which CPU, with which frame
          skb_tx_q,     \* lengths of the frames the simulated hardware holds
          rx,           \* where dummy_eth_rx is, likewise
          reader,       \* where dummy_get_stats64 is
          stats,        \* what it has added up so far
          since,        \* the true totals when it was called
          sent          \* frames transmitted

devVars == <<up, carrier>>
readVars == <<reader, stats, since>>
vars == <<devVars, online, dstats, xmit, skb_tx_q, rx, readVars, sent>>

Idle == [at |-> "idle"]
Total(f) == Sum([c \in Cpu |-> dstats[c][f]], Cpus)
Count(c, f, n) == dstats' = [dstats EXCEPT ![c][f] = @ + n]

(* dummy_dev_init: netdev_alloc_pcpu_stats gives zeroed counters.          *)
Init ==
    /\ up = FALSE /\ carrier = FALSE /\ online = Cpu
    /\ dstats = [c \in Cpu |-> Zero]
    /\ xmit = Idle /\ skb_tx_q = <<>> /\ rx = Idle /\ sent = 0
    /\ reader = Idle /\ stats = Zero /\ since = Zero

-----------------------------------------------------------------------------
SetDev(u, c) ==
    /\ up' = u /\ carrier' = c
    /\ UNCHANGED <<online, dstats, xmit, skb_tx_q, rx, readVars, sent>>

dummy_open == ~up /\ SetDev(TRUE, TRUE)
dummy_close == up /\ xmit = Idle /\ SetDev(FALSE, FALSE)
dummy_change_carrier == \E c \in BOOLEAN \ {carrier} : SetDev(up, c)

(* The kernel transmits only while the device runs and has a carrier; the  *)
(* transmission stays on its CPU.                                          *)
dummy_xmit ==
    /\ xmit = Idle /\ up /\ carrier /\ sent < MaxFrames
    /\ \E c \in online, n \in 1 .. MaxLen :
          xmit' = [at |-> "packets", cpu |-> c, len |-> n]
    /\ sent' = sent + 1
    /\ UNCHANGED <<devVars, online, dstats, skb_tx_q, rx, readVars>>

XmitTo(at) == xmit' = [xmit EXCEPT !.at = at]

XmitCount ==
    \/ /\ xmit.at = "packets" /\ XmitTo("bytes")
       /\ Count(xmit.cpu, "tx_packets", 1) /\ UNCHANGED skb_tx_q
    \/ /\ xmit.at = "bytes" /\ XmitTo("queue")
       /\ Count(xmit.cpu, "tx_bytes", xmit.len) /\ UNCHANGED skb_tx_q
    \/ /\ xmit.at = "queue" /\ xmit' = Idle
       /\ skb_tx_q' = Append(skb_tx_q, xmit.len) /\ UNCHANGED dstats

XmitStep == XmitCount /\ UNCHANGED <<devVars, online, rx, readVars, sent>>

(* The thread takes the oldest frame: it is freed, or counted on the CPU   *)
(* this_cpu_ptr names, which the thread may leave in between.              *)
dummy_eth_rx ==
    /\ rx = Idle /\ skb_tx_q # <<>>
    /\ skb_tx_q' = Tail(skb_tx_q)
    /\ \/ rx' = Idle
       \/ \E c \in online : rx' = [at |-> "packets", cpu |-> c, len |-> Head(skb_tx_q)]
    /\ UNCHANGED <<devVars, online, dstats, xmit, readVars, sent>>

RxCount ==
    /\ \/ /\ rx.at = "packets" /\ rx' = [rx EXCEPT !.at = "bytes"]
          /\ Count(rx.cpu, "rx_packets", 1)
       \/ /\ rx.at = "bytes" /\ rx' = Idle
          /\ Count(rx.cpu, "rx_bytes", rx.len)
    /\ UNCHANGED <<devVars, online, xmit, skb_tx_q, readVars, sent>>

-----------------------------------------------------------------------------
(* dummy_get_stats64                                                       *)

(* Fault: for_each_online_cpu.                                             *)
CpusFrom_Online(c) == {d \in online : d >= c}

(* for_each_possible_cpu, in ascending order.                              *)
CpusFrom(c) == {d \in Cpu : d >= c}

LoadOrder == <<"rx_packets", "rx_bytes", "tx_packets", "tx_bytes">>

ReadAt(c) == IF CpusFrom(c) = {} THEN [at |-> "end"]
             ELSE [at |-> "load", cpu |-> Min(CpusFrom(c)), n |-> 1]

dummy_get_stats64 ==
    /\ reader = Idle
    /\ reader' = ReadAt(1)
    /\ stats' = Zero /\ since' = [f \in Field |-> Total(f)]
    /\ UNCHANGED <<devVars, online, dstats, xmit, skb_tx_q, rx, sent>>

Load ==
    /\ reader.at = "load"
    /\ LET f == LoadOrder[reader.n]
       IN  stats' = [stats EXCEPT ![f] = @ + dstats[reader.cpu][f]]
    /\ reader' = IF reader.n < Len(LoadOrder) THEN [reader EXCEPT !.n = @ + 1]
                 ELSE ReadAt(reader.cpu + 1)
    /\ UNCHANGED <<devVars, online, dstats, xmit, skb_tx_q, rx, since, sent>>

GetStatsEnd ==
    /\ reader.at = "end"
    /\ reader' = Idle /\ stats' = Zero /\ since' = Zero
    /\ UNCHANGED <<devVars, online, dstats, xmit, skb_tx_q, rx, sent>>

(* A CPU that is not in the middle of a transmission is unplugged, or one  *)
(* is plugged in.                                                          *)
Hotplug(c) ==
    /\ xmit # Idle => xmit.cpu # c
    /\ online' = IF c \in online THEN online \ {c} ELSE online \cup {c}
    /\ online' # {}
    /\ UNCHANGED <<devVars, dstats, xmit, skb_tx_q, rx, readVars, sent>>

Next ==
    \/ dummy_open \/ dummy_close \/ dummy_change_carrier
    \/ dummy_xmit \/ XmitStep \/ dummy_eth_rx \/ RxCount
    \/ dummy_get_stats64 \/ Load \/ GetStatsEnd
    \/ \E c \in Cpu : Hotplug(c)

Spec == Init /\ [][Next]_vars

-----------------------------------------------------------------------------
(* Whatever is counted while dummy_get_stats64 adds up, and wherever, each *)
(* sum it returns lies between the true total when it was called and the   *)
(* true total when it returns; so two calls in a row never show a counter  *)
(* running backwards, and without traffic the sums are exact.              *)
StatsBetween ==
    reader.at = "end" => \A f \in Field : since[f] <= stats[f] /\ stats[f] <= Total(f)
=============================================================================
