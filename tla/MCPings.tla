------------------------------ MODULE MCPings -------------------------------
(***************************************************************************)
(* Pings through the two drivers that rewrite frames, snull and dummy-eth. *)
(***************************************************************************)
EXTENDS Integers, Sequences

CONSTANTS W,                            \* both
          Net, Host, Length,            \* SnullPing
          Ip, OwnIp, OwnMac, Payload    \* Reflector

(* A word holds ICMP's type, addresses are octets, and the sum of a message*)
(* is folded in two rounds, as that of any message that fits into a frame. *)
ASSUME WordAssumption == 2 ^ W \in Nat /\ 2 ^ W > 8
ASSUME AddressAssumption ==
    /\ Net \subseteq 0 .. 255 /\ Host \subseteq 0 .. 255
    /\ Ip \subseteq [1 .. 4 -> 0 .. 255] /\ OwnIp \in Ip
ASSUME PayloadAssumption ==
    \A p \in Payload : p \in Seq(0 .. 2 ^ W - 1) /\ Len(p) + 2 <= 2 ^ W

VARIABLES ip, mac, pinged, hop, arrived, answered,
          neigh, ping, wire, rx

Aliases == INSTANCE SnullPing WITH wire <- hop, rx <- arrived
Reflect == INSTANCE Reflector

aliasVars == <<ip, mac, pinged, hop, arrived, answered>>
reflectVars == <<neigh, ping, wire, rx>>

(* A subnet of three peers, and payloads whose sums carry or do not.       *)
Subnet == {<<10, 0, 0, 1>>, <<10, 0, 0, 2>>, <<10, 0, 0, 3>>, <<10, 0, 1, 2>>}
Own == <<10, 0, 0, 1>>
Hardware == <<86, 1, 2, 3, 4, 5>>
Samples == {0, 1, 32767, 32768, 65527, 65535}
Payloads == {<<>>} \cup [1 .. 1 -> Samples] \cup [1 .. 2 -> Samples]

-----------------------------------------------------------------------------
(* snull.c: a ping of the twin's alias is answered by that alias.          *)
TwinAnswers == Aliases!TwinAnswers

(* dummy-eth.c: the kernel accepts every echo reply it is given.           *)
EchoAccepted == Reflect!EchoAccepted

(* dummy-eth.c: every peer is resolved and every ping is answered.         *)
PingsAnswered == Reflect!PingsAnswered
=============================================================================
