------------------------------ MODULE SnullPing -----------------------------
(***************************************************************************)
(* What snull.c makes of the addresses in a frame, against the IP layer of *)
(* the host that owns both interfaces: the third octet of either address   *)
(* is flipped, so that each interface seems to talk to hosts of its own    *)
(* network.  The set-up is that of test.sh with any octets.                *)
(***************************************************************************)
EXTENDS InetChecksum

CONSTANTS Net,          \* third octets of sn0's network
          Host,         \* fourth octets
          Length        \* lengths of frames snull_tx passes on, 60 and more

Dev == {0, 1}
Twin(d) == 1 - d
NoFrame == [kind |-> "none"]
ETH_HLEN == 14
IP_HLEN == 20

VARIABLES ip,           \* the address of each interface
          mac,          \* dev_addr, zero before the first open
          pinged,       \* the address of the echo request sent last
          wire,         \* the frame snull_hw_tx is given
          rx,           \* the frame the twin hands to the stack
          answered      \* the request has been answered

vars == <<ip, mac, pinged, wire, rx, answered>>

(* An octet xor 1.                                                         *)
Xor1(x) == IF x % 2 = 0 THEN x + 1 ELSE x - 1

-----------------------------------------------------------------------------
(* snull.c                                                                 *)

(* "\0SNUL0" and "\0SNUL1".                                                *)
snull_open(d) ==
    /\ wire = NoFrame /\ rx = NoFrame
    /\ mac' = [mac EXCEPT ![d] = <<0, 83, 78, 85, 76, 48 + d>>]
    /\ UNCHANGED <<ip, pinged, wire, rx, answered>>

(* The interface has no ARP: the stack gives the device's own address as   *)
(* the destination's.                                                      *)
snull_header(f, d) ==
    [f EXCEPT !.source = mac[d], !.dest = [mac[d] EXCEPT ![6] = Xor1(@)]]

Rewrite(f) == [f EXCEPT !.saddr[3] = Xor1(@), !.daddr[3] = Xor1(@)]

ip_header_check(f) == Checksum(IpHeader(f, 0))

(* Fault: the comparison is the wrong way round.                           *)
TooShort_Not(f) == f.len > ETH_HLEN + IP_HLEN

(* "I am paranoid": a frame without room for an IP header is not sent.     *)
TooShort(f) == f.len < ETH_HLEN + IP_HLEN

snull_hw_tx ==
    /\ wire # NoFrame /\ wire' = NoFrame
    /\ LET f == Rewrite(wire)
       IN  rx' = IF TooShort(wire) THEN rx
                 ELSE [f EXCEPT !.check = ip_header_check(f), !.dev = Twin(@)]
    /\ UNCHANGED <<ip, mac, pinged, answered>>

-----------------------------------------------------------------------------
(* The IP layer of the host                                                *)

SameNet(a, b) == SubSeq(a, 1, 3) = SubSeq(b, 1, 3)
Local(a) == \E d \in Dev : ip[d] = a

Datagram(kind, from, to, len) ==
    LET d == CHOOSE e \in Dev : SameNet(ip[e], to)
        f == [kind |-> kind, dev |-> d, len |-> len, source |-> <<>>, dest |-> <<>>,
              saddr |-> from, daddr |-> to, check |-> 0]
    IN  snull_header([f EXCEPT !.check = Checksum(IpHeader(f, 0))], d)

Init ==
    /\ \E n \in Net, h, g \in Host :
          h # g /\ ip = [d \in Dev |-> IF d = 0 THEN <<192, 168, n, h>>
                                                ELSE <<192, 168, Xor1(n), g>>]
    /\ mac = [d \in Dev |-> <<0, 0, 0, 0, 0, 0>>]
    /\ pinged = <<>> /\ wire = NoFrame /\ rx = NoFrame /\ answered = FALSE

(* ping of some host of the network of d; both interfaces are up.          *)
Ping(d, h, len) ==
    /\ wire = NoFrame /\ rx = NoFrame /\ \A e \in Dev : mac[e][2] # 0
    /\ LET to == [ip[d] EXCEPT ![4] = h]
       IN  /\ ~Local(to)
           /\ pinged' = to /\ wire' = Datagram("echo", ip[d], to, len)
    /\ answered' = FALSE
    /\ UNCHANGED <<ip, mac, rx>>

Accepts(f) == f.dest = mac[f.dev] /\ Verifies(IpHeader(f, f.check)) /\ Local(f.daddr)

(* An echo request is answered; a reply is matched with the request; what  *)
(* is not for this host is dropped.                                        *)
Receive ==
    /\ rx # NoFrame /\ rx' = NoFrame
    /\ wire' = IF Accepts(rx) /\ rx.kind = "echo"
               THEN Datagram("reply", rx.daddr, rx.saddr, rx.len) ELSE NoFrame
    /\ answered' = (answered \/ (Accepts(rx) /\ rx.kind = "reply" /\ rx.saddr = pinged))
    /\ UNCHANGED <<ip, mac, pinged>>

Transfer == snull_hw_tx \/ Receive
Next == \/ Transfer
        \/ \E d \in Dev : snull_open(d) \/ \E h \in Host, len \in Length : Ping(d, h, len)

Spec == Init /\ [][Next]_vars /\ WF_vars(Transfer)

-----------------------------------------------------------------------------
(* A ping of the twin under its alias in the sender's network comes back   *)
(* as an answer from that alias, both translations undone.                 *)
TwinAnswers ==
    wire # NoFrame /\ wire.kind = "echo" /\ wire.daddr[4] = ip[Twin(wire.dev)][4]
       ~> answered
=============================================================================
