---------------------------- MODULE InetChecksum ----------------------------
(***************************************************************************)
(* The Internet checksum, as the drivers get it from ip_fast_csum and      *)
(* ip_compute_csum.                                                        *)
(***************************************************************************)
EXTENDS Sums, Sequences

CONSTANT W              \* bits in a word, 16 in the kernel

M == 2 ^ W

WordSum(s) == Sum(s, Len(s))

(* csum_fold before its complement: two rounds of end-around carry.        *)
Fold(s) == EndAround(EndAround(WordSum(s), M), M)

Checksum(s) == M - 1 - Fold(s)
Verifies(s) == Fold(s) = M - 1

(* The words of an address.                                                *)
IpWords(a) == <<(a[1] * 256 + a[2]) % M, (a[3] * 256 + a[4]) % M>>

IpHeader(f, check) == IpWords(f.saddr) \o IpWords(f.daddr) \o <<check>>
=============================================================================
