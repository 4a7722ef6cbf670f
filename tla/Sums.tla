-------------------------------- MODULE Sums --------------------------------
(***************************************************************************)
(* The arithmetic of the counters of the CPUs and of checksums.            *)
(***************************************************************************)
EXTENDS Integers

(* f[1] + ... + f[n]                                                       *)
Sum(f, n) ==
    LET upTo[k \in Nat] == IF k = 0 THEN 0 ELSE upTo[k - 1] + f[k]
    IN  upTo[n]

(* The carry out of the low digit of n, to base m, added to that digit.    *)
EndAround(n, m) == (n % m) + (n \div m)
=============================================================================
