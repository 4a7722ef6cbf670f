----------------------------- MODULE Reflector ------------------------------
(***************************************************************************)
(* What dummy_eth_rx (dummy-eth.c) makes of a frame's bytes, against the   *)
(* kernel's ARP and ICMP at the sending end: a ping of any address through *)
(* the device.                                                             *)
(***************************************************************************)
EXTENDS InetChecksum

CONSTANTS Ip,           \* the addresses of the subnet, four bytes each
          OwnIp,        \* the address of deth0, one of them
          OwnMac,       \* and its hardware address
          Payload       \* bound: the echo payloads, sequences of words

Broadcast == <<255, 255, 255, 255, 255, 255>>
NoMac == <<0, 0, 0, 0, 0, 0>>
NoFrame == [proto |-> "none"]

VARIABLES neigh,    \* the kernel's neighbour table: the MAC of each address
          ping,     \* the echo request sent last
          wire,     \* the frame on its way through the hardware
          rx        \* the frame netif_rx was given last

vars == <<neigh, ping, wire, rx>>

IcmpMessage(f, type, check) == <<type, check>> \o f.payload

-----------------------------------------------------------------------------
(* dummy-eth.c                                                             *)

dummy_fake_mac(ip) == <<2, 222, ip[1], ip[2], ip[3], ip[4]>>

(* Fault: the two lengths are mixed up.                                    *)
IsArpRequest_Lengths(f) ==
    f.proto = "arp" /\ f.op = "request" /\ f.pro = "ip" /\ f.hln = 4 /\ f.pln = 6

IsArpRequest(f) ==
    f.proto = "arp" /\ f.op = "request" /\ f.pro = "ip" /\ f.hln = 6 /\ f.pln = 4

dummy_arp_reply(f) ==
    LET fake == dummy_fake_mac(f.tip)
    IN  [f EXCEPT !.op = "reply", !.sha = fake, !.sip = f.tip,
                  !.tha = f.sha, !.tip = f.sip,
                  !.dest = f.sha, !.source = fake]

ECHO == 8
ECHOREPLY == 0

IsEchoRequest(f) == f.proto = "ip" /\ f.protocol = "icmp" /\ f.type = ECHO

(* Fault: the checksum of the request is kept.                             *)
IcmpCheck_Kept(f) == f.checksum

IcmpCheck(f) == Checksum(IcmpMessage(f, ECHOREPLY, 0))

dummy_icmp_reply(f) ==
    LET swapped == [f EXCEPT !.dest = f.source, !.source = f.dest,
                             !.saddr = f.daddr, !.daddr = f.saddr,
                             !.type = ECHOREPLY]
    IN  [swapped EXCEPT !.check = Checksum(IpHeader(swapped, 0)),
                        !.checksum = IcmpCheck(f)]

(* A frame that is not answered is freed.                                  *)
dummy_eth_rx ==
    /\ wire # NoFrame
    /\ wire' = NoFrame
    /\ rx' = CASE IsArpRequest(wire) -> dummy_arp_reply(wire)
               [] IsEchoRequest(wire) -> dummy_icmp_reply(wire)
               [] OTHER -> rx
    /\ UNCHANGED <<neigh, ping>>
-----------------------------------------------------------------------------
(* The kernel's side                                                       *)

Arp(op, tha, sip, tip) ==
    [proto |-> "arp", op |-> op, pro |-> "ip", hln |-> 6, pln |-> 4,
     dest |-> Broadcast, source |-> OwnMac,
     sha |-> OwnMac, sip |-> sip, tha |-> tha, tip |-> tip]

Icmp(type, ip, payload) ==
    LET f == [proto |-> "ip", protocol |-> "icmp", dest |-> neigh[ip],
              source |-> OwnMac, saddr |-> OwnIp, daddr |-> ip,
              type |-> type, payload |-> payload, check |-> 0, checksum |-> 0]
    IN  [f EXCEPT !.check = Checksum(IpHeader(f, 0)),
                  !.checksum = Checksum(IcmpMessage(f, type, 0))]

Init ==
    /\ neigh = [a \in Ip |-> NoMac]
    /\ ping = NoFrame /\ wire = NoFrame /\ rx = NoFrame

Peers == Ip \ {OwnIp}
Resolved == {a \in Peers : neigh[a] # NoMac}

(* The kernel sends a frame through dummy_xmit: a request, or something    *)
(* the reflector has no answer for.                                        *)
Transmit ==
    /\ wire = NoFrame /\ rx = NoFrame
    /\ \/ \E a \in Peers : wire' = Arp("request", NoMac, OwnIp, a) /\ ping' = NoFrame
       \/ \E a \in Peers : wire' = Arp("reply", NoMac, OwnIp, a) /\ ping' = NoFrame
       \/ \E a \in Resolved, p \in Payload :
             wire' = Icmp(ECHO, a, p) /\ ping' = wire'
       \/ \E a \in Resolved, p \in Payload :
             wire' = Icmp(ECHOREPLY, a, p) /\ ping' = NoFrame
    /\ UNCHANGED <<neigh, rx>>

(* The kernel takes a frame from the device: an ARP reply addressed to it  *)
(* updates the neighbour table.                                            *)
Receive ==
    /\ rx # NoFrame /\ rx' = NoFrame
    /\ neigh' = IF rx.proto = "arp" /\ rx.op = "reply" /\ rx.dest = OwnMac
                   /\ rx.tha = OwnMac /\ rx.tip = OwnIp
                THEN [neigh EXCEPT ![rx.sip] = rx.sha]
                ELSE neigh
    /\ ping' = NoFrame /\ UNCHANGED wire

Next == Transmit \/ dummy_eth_rx \/ Receive

Spec == Init /\ [][Next]_vars /\ WF_vars(Next)

-----------------------------------------------------------------------------
(* The kernel accepts what comes back for a ping: it is addressed to it,   *)
(* comes from the peer it asked for, under the MAC ARP gave for that peer, *)
(* carries the payload of the request and both checksums verify.           *)
EchoAccepted ==
    rx # NoFrame /\ rx.proto = "ip" =>
       /\ ping # NoFrame
       /\ rx.dest = OwnMac /\ rx.daddr = OwnIp
       /\ rx.saddr = ping.daddr /\ rx.source = neigh[rx.saddr]
       /\ rx.type = ECHOREPLY /\ rx.payload = ping.payload
       /\ Verifies(IpHeader(rx, rx.check))
       /\ Verifies(IcmpMessage(rx, rx.type, rx.checksum))

(* Every peer that is asked for is resolved, and every ping that is sent   *)
(* comes back: "you can ping any peer in its subnet and it will answer".   *)
PingsAnswered ==
    /\ \A a \in Peers :
          wire # NoFrame /\ wire = Arp("request", NoMac, OwnIp, a) ~> a \in Resolved
    /\ wire # NoFrame /\ wire = ping ~> rx # NoFrame /\ rx.proto = "ip"
=============================================================================
