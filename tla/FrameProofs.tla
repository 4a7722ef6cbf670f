----------------------------- MODULE FrameProofs ----------------------------
(***************************************************************************)
(* Proofs about what the drivers compute from frames: the sums of          *)
(* dummy-eth's counters, for every number of CPUs, and the checksums and   *)
(* addresses of the frames dummy-eth and snull send back, for every width  *)
(* of words and every payload.                                             *)
(***************************************************************************)
EXTENDS MCPings, MCStats, Sums, SequenceTheorems, WellFoundedInduction, TLAPS

-----------------------------------------------------------------------------
(* Sums                                                                    *)

(* Induction over the natural numbers, for a set: a least number outside   *)
(* would be neither 0 nor a successor.                                     *)
LEMMA SetInduction ==
    ASSUME NEW S, 0 \in S, \A n \in Nat : n \in S => n + 1 \in S
    PROVE  Nat \subseteq S
<1> DEFINE T == Nat \ S
           R == {ss \in Nat \X Nat : ss[1] < ss[2]}
<1>1. IsWellFoundedOn(R, Nat)
  BY NatLessThanWellFounded, Zenon DEF OpToRel
<1>2. SUFFICES ASSUME T # {} PROVE FALSE
  BY Zenon
<1>3. PICK x \in T : \A y \in T : ~(<<y, x>> \in R)
  <2> HIDE DEF R, T
  <2>1. T \subseteq Nat
    BY Zenon DEF T
  <2> QED BY <1>1, <1>2, <2>1, WFMin, Zenon
<1>4. x # 0 /\ x \in Nat
  BY DEF T
<1>5. x - 1 \in Nat /\ x - 1 < x /\ x = (x - 1) + 1
  BY <1>4
<1>6. x - 1 \in T
  BY <1>5 DEF T
<1>7. <<x - 1, x>> \in R
  BY <1>4, <1>5
<1> QED BY <1>3, <1>6, <1>7, Zenon

(* The recursion Sum is defined by has a solution.                         *)
LEMMA SumEquation ==
    ASSUME NEW f
    PROVE  /\ Sum(f, 0) = 0
           /\ \A n \in Nat : Sum(f, n + 1) = Sum(f, n) + f[n + 1]
<1> DEFINE Upto(g, n) == g = [k \in 0 .. n |-> IF k = 0 THEN 0 ELSE g[k - 1] + f[k]]
           Some(n) == CHOOSE g : Upto(g, n)
           Full(g) == g = [k \in Nat |-> IF k = 0 THEN 0 ELSE g[k - 1] + f[k]]
<1>1. ASSUME NEW n \in Nat PROVE \E g : Upto(g, n)
  <2> DEFINE S == {m \in Nat : \E g : Upto(g, m)}
  <2>1. 0 \in S
    <3>1. Upto([k \in 0 .. 0 |-> 0], 0)
      OBVIOUS
    <3> QED BY <3>1, Zenon
  <2>2. ASSUME NEW m \in Nat, m \in S PROVE m + 1 \in S
    <3>1. PICK g : Upto(g, m)
      BY <2>2, Zenon
    <3> DEFINE h == [k \in 0 .. m + 1 |-> IF k = m + 1 THEN g[m] + f[m + 1] ELSE g[k]]
    <3>2. ASSUME NEW k \in 0 .. m + 1 PROVE h[k] = IF k = 0 THEN 0 ELSE h[k - 1] + f[k]
      BY <3>1, <3>2
    <3>3. Upto(h, m + 1)
      BY <3>2
    <3>4. m + 1 \in Nat
      OBVIOUS
    <3> HIDE DEF Upto, h
    <3> QED BY <3>3, <3>4, Zenon
  <2> HIDE DEF S
  <2>3. Nat \subseteq S
    BY <2>1, <2>2, SetInduction, Zenon
  <2> QED BY <2>3, Zenon DEF S
<1>2. ASSUME NEW n \in Nat PROVE Upto(Some(n), n)
  BY <1>1, Zenon
<1>3. ASSUME NEW n \in Nat, NEW k \in 0 .. n
      PROVE  Some(n)[k] = IF k = 0 THEN 0 ELSE Some(n)[k - 1] + f[k]
  <2> DEFINE g == Some(n)
  <2>1. Upto(g, n)
    BY <1>2, Zenon
  <2> HIDE DEF g
  <2> QED BY <2>1, Zenon DEF g
<1> HIDE DEF Upto, Some
<1> DEFINE Same == {k \in Nat : \A n \in Nat : k <= n => Some(n)[k] = Some(k)[k]}
           h == [k \in Nat |-> Some(k)[k]]
<1>4. Nat \subseteq Same
  <2>1. 0 \in Same
    BY <1>3
  <2>2. ASSUME NEW k \in Nat, k \in Same PROVE k + 1 \in Same
    <3> SUFFICES ASSUME NEW n \in Nat, k + 1 <= n
                 PROVE  Some(n)[k + 1] = Some(k + 1)[k + 1]
      OBVIOUS
    <3>1. Some(n)[k + 1] = Some(n)[k] + f[k + 1]
      BY <1>3
    <3>2. Some(k + 1)[k + 1] = Some(k + 1)[k] + f[k + 1]
      BY <1>3
    <3>3. Some(n)[k] = Some(k)[k] /\ Some(k + 1)[k] = Some(k)[k]
      BY <2>2
    <3> QED BY <3>1, <3>2, <3>3, Zenon
  <2> HIDE DEF Same
  <2> QED BY <2>1, <2>2, SetInduction, Zenon
<1>5. Full(h)
  <2>1. ASSUME NEW k \in Nat PROVE h[k] = IF k = 0 THEN 0 ELSE h[k - 1] + f[k]
    <3>1. CASE k = 0
      BY <1>3, <3>1
    <3>2. CASE k # 0
      <4>1. k - 1 \in Nat /\ k - 1 <= k /\ k \in 0 .. k
        BY <3>2
      <4>2. Some(k)[k] = Some(k)[k - 1] + f[k]
        BY <1>3, <3>2, <4>1, Zenon
      <4>3. Some(k)[k - 1] = Some(k - 1)[k - 1]
        BY <1>4, <4>1, Zenon
      <4> QED BY <3>2, <4>1, <4>2, <4>3, Zenon
    <3> QED BY <3>1, <3>2, Zenon
  <2> QED BY <2>1, Zenon
<1> DEFINE s == CHOOSE g : Full(g)
<1>6. Full(s)
  <2> HIDE DEF h, Full
  <2> QED BY <1>5, Zenon
<1>7. \A n : Sum(f, n) = s[n]
  BY Zenon DEF Sum
<1> HIDE DEF s
<1>8. \A k \in Nat : s[k] = IF k = 0 THEN 0 ELSE s[k - 1] + f[k]
  BY <1>6, Zenon
<1>9. \A n \in Nat : n + 1 \in Nat /\ n + 1 # 0 /\ (n + 1) - 1 = n
  OBVIOUS
<1> QED BY <1>7, <1>8, <1>9

(* A sum depends on the entries it adds up only.                           *)
LEMMA SumSame ==
    ASSUME NEW f, NEW g, NEW n \in Nat, \A k \in 1 .. n : f[k] = g[k]
    PROVE  Sum(f, n) = Sum(g, n)
<1> DEFINE S == {m \in Nat : m <= n => Sum(f, m) = Sum(g, m)}
<1>1. 0 \in S
  BY SumEquation
<1>2. ASSUME NEW m \in Nat, m \in S PROVE m + 1 \in S
  <2>1. Sum(f, m + 1) = Sum(f, m) + f[m + 1] /\ Sum(g, m + 1) = Sum(g, m) + g[m + 1]
    BY SumEquation, Zenon
  <2>2. m + 1 <= n => m <= n /\ m + 1 \in 1 .. n
    OBVIOUS
  <2>3. m + 1 <= n => Sum(f, m + 1) = Sum(g, m + 1)
    BY <1>2, <2>1, <2>2, Zenon
  <2> QED BY <2>3
<1> HIDE DEF S
<1>3. n \in S
  BY <1>1, <1>2, SetInduction, Zenon
<1> QED BY <1>3 DEF S

(* A sum of natural numbers is one.                                        *)
LEMMA SumType ==
    ASSUME NEW f, NEW n \in Nat, \A k \in 1 .. n : f[k] \in Nat
    PROVE  Sum(f, n) \in Nat
<1> DEFINE S == {m \in Nat : m <= n => Sum(f, m) \in Nat}
<1>1. 0 \in S
  BY SumEquation
<1>2. ASSUME NEW m \in Nat, m \in S PROVE m + 1 \in S
  <2>1. Sum(f, m + 1) = Sum(f, m) + f[m + 1]
    BY SumEquation, Zenon
  <2> QED BY <1>2, <2>1
<1> HIDE DEF S
<1>3. n \in S
  BY <1>1, <1>2, SetInduction, Zenon
<1> QED BY <1>3 DEF S

(* A sum of n numbers up to B is at most n * B.                            *)
LEMMA SumBound ==
    ASSUME NEW f, NEW n \in Nat, NEW B \in Nat, \A k \in 1 .. n : f[k] \in 0 .. B
    PROVE  Sum(f, n) \in Nat /\ Sum(f, n) <= n * B
<1> DEFINE S == {m \in Nat : m <= n => Sum(f, m) \in Nat /\ Sum(f, m) <= m * B}
<1>1. 0 \in S
  BY SumEquation
<1>2. ASSUME NEW m \in Nat, m \in S PROVE m + 1 \in S
  <2>1. Sum(f, m + 1) = Sum(f, m) + f[m + 1]
    BY SumEquation, Zenon
  <2>2. (m + 1) * B = m * B + B /\ m * B \in Nat
    OBVIOUS
  <2> HIDE DEF S
  <2>3. m + 1 <= n => f[m + 1] \in 0 .. B /\ m <= n
    OBVIOUS
  <2>4. m + 1 <= n => Sum(f, m) \in Nat /\ Sum(f, m) <= m * B
    BY <1>2, <2>3 DEF S
  <2>5. m + 1 <= n => Sum(f, m + 1) \in Nat /\ Sum(f, m + 1) <= (m + 1) * B
    BY <2>1, <2>2, <2>3, <2>4
  <2> QED BY <2>5 DEF S
<1> HIDE DEF S
<1>3. n \in S
  BY <1>1, <1>2, SetInduction, Zenon
<1> QED BY <1>3 DEF S

(* Up to n, g is f with its entry c raised by d.                           *)
Raised(f, g, n, c, d) ==
    /\ n \in Nat /\ c \in 1 .. n /\ d \in Int
    /\ \A k \in 1 .. n : f[k] \in Int /\ g[k] = IF k = c THEN f[k] + d ELSE f[k]

(* Raising one entry by d raises exactly the sums that reach it by d.      *)
LEMMA SumRaise ==
    ASSUME NEW f, NEW g, NEW n, NEW c, NEW d, Raised(f, g, n, c, d)
    PROVE  \A m \in 0 .. n : /\ Sum(f, m) \in Int
                             /\ Sum(g, m) = IF c <= m THEN Sum(f, m) + d ELSE Sum(f, m)
<1> DEFINE S == {m \in Nat : m <= n => /\ Sum(f, m) \in Int
                                       /\ Sum(g, m) = IF c <= m THEN Sum(f, m) + d ELSE Sum(f, m)}
<1>0. n \in Nat /\ c \in 1 .. n /\ d \in Int
  BY Zenon DEF Raised
<1>1. 0 \in S
  BY <1>0, SumEquation
<1>2. ASSUME NEW m \in Nat, m \in S PROVE m + 1 \in S
  <2>1. Sum(f, m + 1) = Sum(f, m) + f[m + 1] /\ Sum(g, m + 1) = Sum(g, m) + g[m + 1]
    BY SumEquation, Zenon
  <2>2. m + 1 <= n => /\ f[m + 1] \in Int /\ m <= n
                      /\ g[m + 1] = IF m + 1 = c THEN f[m + 1] + d ELSE f[m + 1]
    BY <1>0 DEF Raised
  <2>3. m + 1 <= n => /\ Sum(f, m) \in Int
                      /\ Sum(g, m) = IF c <= m THEN Sum(f, m) + d ELSE Sum(f, m)
    BY <1>2, <2>2, Zenon
  <2>4. m + 1 <= n =>
           /\ Sum(f, m + 1) \in Int
           /\ Sum(g, m + 1) = IF c <= m + 1 THEN Sum(f, m + 1) + d ELSE Sum(f, m + 1)
    BY <1>0, <2>1, <2>2, <2>3
  <2> HIDE DEF S
  <2> QED BY <2>4 DEF S
<1> HIDE DEF S
<1>3. Nat \subseteq S
  BY <1>1, <1>2, SetInduction, Zenon
<1> QED BY <1>0, <1>3 DEF S

-----------------------------------------------------------------------------
(* Division by m, with its remainder.                                      *)
LEMMA DivMod ==
    ASSUME NEW m \in Nat, m > 1, NEW q \in Int, NEW r \in 0 .. m - 1
    PROVE  (q * m + r) \div m = q /\ (q * m + r) % m = r
<1>1. m * q + r = q * m + r /\ q * m \in Int
  OBVIOUS
<1> DEFINE n == q * m + r
           p == n \div m
           k == n % m
<1>2. n \in Int /\ p \in Int /\ k \in 0 .. m - 1 /\ n = m * p + k
  BY <1>1
<1>3. ASSUME NEW a \in Int, NEW b \in Int, NEW i \in 0 .. m - 1, NEW j \in 0 .. m - 1,
             m * a + i = m * b + j
      PROVE  a = b /\ i = j
  BY <1>3
<1> HIDE DEF n, p, k
<1>4. m * q + r = m * p + k
  BY <1>1, <1>2 DEF n
<1>5. q = p /\ r = k
  BY <1>2, <1>3, <1>4
<1> QED BY <1>5 DEF p, k, n

(* Adding the carry to the digit it comes from.                            *)
LEMMA OneCarry ==
    ASSUME NEW m \in Nat, m > 1, NEW q \in Int, NEW r \in 0 .. m - 1
    PROVE  EndAround(q * m + r, m) = q + r
BY DivMod DEF EndAround

(* Two rounds of end-around carry fold a number of two digits into one, and*)
(* adding the complement of the outcome makes them end in all ones.        *)
LEMMA Carries ==
    ASSUME NEW m \in Nat, m > 1, NEW n \in 0 .. m * m - 1
    PROVE  /\ EndAround(EndAround(n, m), m) \in 0 .. m - 1
           /\ LET c == m - 1 - EndAround(EndAround(n, m), m)
              IN  EndAround(EndAround(n + c, m), m) = m - 1
<1>1. PICK q \in 0 .. m - 1, r \in 0 .. m - 1 : n = q * m + r
  <2>1. n \in Nat /\ n \div m \in Int /\ n % m \in 0 .. m - 1 /\ n = m * (n \div m) + (n % m)
    BY SMTT(30)
  <2>2. ASSUME NEW a \in Int, NEW b \in 0 .. m - 1, m * a + b \in 0 .. m * m - 1
        PROVE  a \in 0 .. m - 1
    <3>1. a < 0 => m * a + b < 0
      BY <2>2
    <3>2. a >= m => m * a >= m * m
      BY <2>2
    <3>3. m * a \in Int /\ m * m \in Int
      OBVIOUS
    <3> QED BY <2>2, <3>1, <3>2, <3>3
  <2>3. n \div m \in 0 .. m - 1
    BY <2>1, <2>2
  <2>4. n = (n \div m) * m + (n % m)
    BY <2>1
  <2> QED BY <2>1, <2>3, <2>4, Zenon
<1>0. /\ q \in Int /\ q * m \in Int /\ 0 * m = 0 /\ 1 * m = m /\ (q + 1) * m = q * m + m
      /\ 1 \in Int /\ 0 \in Int
  OBVIOUS
<1>2. EndAround(n, m) = q + r
  BY <1>0, <1>1, OneCarry, Zenon
<1>3. CASE q + r < m
  <2>1. EndAround(q + r, m) = q + r
    <3>1. q + r \in 0 .. m - 1 /\ q + r = 0 * m + (q + r)
      BY <1>0, <1>3
    <3>2. EndAround(0 * m + (q + r), m) = 0 + (q + r)
      BY <1>0, <3>1, OneCarry, Zenon
    <3> QED BY <3>1, <3>2
  <2>2. n + (m - 1 - (q + r)) = q * m + (m - 1 - q) /\ m - 1 - q \in 0 .. m - 1
    BY <1>0, <1>1
  <2>3. EndAround(q * m + (m - 1 - q), m) = q + (m - 1 - q)
    BY <1>0, <2>2, OneCarry, Zenon
  <2>4. EndAround(m - 1, m) = m - 1
    <3>1. m - 1 = 0 * m + (m - 1) /\ m - 1 \in 0 .. m - 1
      BY <1>0
    <3> QED BY <3>1, <1>0, OneCarry, Zenon
  <2>5. EndAround(n + (m - 1 - (q + r)), m) = m - 1
    BY <2>2, <2>3
  <2>6. q + r \in 0 .. m - 1
    BY <1>3
  <2> QED BY <1>2, <2>1, <2>4, <2>5, <2>6, Zenon
<1>4. CASE q + r >= m
  <2> DEFINE t == q + r - m + 1
  <2>1. EndAround(q + r, m) = t
    <3>1. q + r - m \in 0 .. m - 1 /\ q + r = 1 * m + (q + r - m)
      BY <1>0, <1>4
    <3>2. EndAround(1 * m + (q + r - m), m) = 1 + (q + r - m)
      BY <1>0, <3>1, OneCarry, Zenon
    <3> QED BY <3>1, <3>2
  <2>2. t \in 0 .. m - 1
    BY <1>4
  <2>3. n + (m - 1 - t) = q * m + (2 * m - 2 - q)
    BY <1>0, <1>1
  <2> HIDE DEF t
  <2>4. CASE q < m - 1
    <3>1. q * m + (2 * m - 2 - q) = (q + 1) * m + (m - 2 - q) /\ m - 2 - q \in 0 .. m - 1
      BY <1>0, <2>4
    <3>2. EndAround((q + 1) * m + (m - 2 - q), m) = (q + 1) + (m - 2 - q)
      <4>1. q + 1 \in Int
        OBVIOUS
      <4> QED BY <4>1, <3>1, OneCarry, Zenon
    <3>3. EndAround(n + (m - 1 - t), m) = m - 1
      BY <2>3, <3>1, <3>2
    <3>4. EndAround(m - 1, m) = m - 1
      <4>1. m - 1 = 0 * m + (m - 1) /\ m - 1 \in 0 .. m - 1
        BY <1>0
      <4> QED BY <4>1, <1>0, OneCarry, Zenon
    <3> QED BY <1>2, <2>1, <2>2, <3>3, <3>4, Zenon
  <2>5. CASE q = m - 1
    <3>1. 2 * m - 2 - q = m - 1 /\ m - 1 \in 0 .. m - 1
      BY <2>5
    <3>2. EndAround(n + (m - 1 - t), m) = q + (m - 1)
      <4>1. n + (m - 1 - t) = q * m + (m - 1)
        BY <2>3, <3>1, Zenon
      <4>2. EndAround(q * m + (m - 1), m) = q + (m - 1)
        BY <1>0, <3>1, OneCarry, Zenon
      <4> QED BY <4>1, <4>2, Zenon
    <3>3. q + (m - 1) = 1 * m + (m - 2) /\ m - 2 \in 0 .. m - 1
      BY <1>0, <2>5
    <3>4. EndAround(1 * m + (m - 2), m) = 1 + (m - 2)
      BY <1>0, <3>3, OneCarry, Zenon
    <3>5. EndAround(q + (m - 1), m) = m - 1
      BY <3>3, <3>4
    <3> QED BY <1>2, <2>1, <2>2, <3>2, <3>5, Zenon
  <2> QED BY <2>4, <2>5
<1> QED BY <1>3, <1>4

-----------------------------------------------------------------------------
(* dummy-eth.c: dummy_get_stats64                                          *)

(* The counts of one field on all CPUs, and the sum over the first k.      *)
Column(f) == [c \in Stats!Cpu |-> dstats[c][f]]
UpTo(f, k) == Sum(Column(f), k)

Counting(pcs) == [at : pcs, cpu : Stats!Cpu, len : Nat]
AtEnd == [at |-> "end"]
AtLoad(c, n) == [at |-> "load", cpu |-> c, n |-> n]

CountTypes ==
    /\ online \subseteq Stats!Cpu
    /\ dstats \in [Stats!Cpu -> [Stats!Field -> Nat]]
    /\ xmit = Stats!Idle \/ xmit \in Counting({"packets", "bytes", "queue"})
    /\ counting = Stats!Idle \/ counting \in Counting({"packets", "bytes"})
    /\ skb_tx_q \in Seq(Nat)

ReadTypes ==
    /\ \/ reader = Stats!Idle \/ reader = AtEnd
       \/ \E c \in Stats!Cpu, n \in 1 .. 4 : reader = AtLoad(c, n)
    /\ stats \in [Stats!Field -> Nat] /\ since \in [Stats!Field -> Nat]

(* The CPUs whose count of field f has been added up.                      *)
Passed(f) ==
    IF reader.at # "load" THEN Cpus
    ELSE IF \E m \in 1 .. reader.n - 1 : Stats!LoadOrder[m] = f THEN reader.cpu
    ELSE reader.cpu - 1

(* What has been added up is no more than what those CPUs count now, and   *)
(* no less than the total at the call without what the others count now:   *)
(* counts only grow, wherever they do.                                     *)
Bracketed(f) ==
    /\ stats[f] <= UpTo(f, Passed(f))
    /\ since[f] <= stats[f] + (UpTo(f, Cpus) - UpTo(f, Passed(f)))

StatsInv ==
    /\ CountTypes /\ ReadTypes
    /\ reader # Stats!Idle => \A f \in Stats!Field : Bracketed(f)

(* The instance of DummyStats adds up as Sum does.                         *)
LEMMA TotalIsSum ==
    \A f : Stats!Total(f) = UpTo(f, Cpus)
BY Zenon DEF Stats!Total, Stats!Sum, Sum, UpTo, Column

(* The sums over the first CPUs, and the last one's share.                 *)
LEMMA ColumnSums ==
    ASSUME CountTypes, NEW f \in Stats!Field
    PROVE  /\ UpTo(f, 0) = 0
           /\ \A k \in 0 .. Cpus : UpTo(f, k) \in Nat
           /\ \A c \in Stats!Cpu : UpTo(f, c) = UpTo(f, c - 1) + dstats[c][f]
<1>1. \A c \in Stats!Cpu : Column(f)[c] = dstats[c][f] /\ dstats[c][f] \in Nat
  BY Zenon DEF Column, CountTypes
<1>2. ASSUME NEW k \in 0 .. Cpus PROVE UpTo(f, k) \in Nat
  <2>1. k \in Nat /\ \A c \in 1 .. k : c \in Stats!Cpu
    BY CpuAssumption DEF Stats!Cpu
  <2> QED BY <1>1, <2>1, SumType, Zenon DEF UpTo
<1>3. ASSUME NEW c \in Stats!Cpu PROVE UpTo(f, c) = UpTo(f, c - 1) + dstats[c][f]
  <2>1. c - 1 \in Nat /\ (c - 1) + 1 = c
    BY CpuAssumption DEF Stats!Cpu
  <2>2. Sum(Column(f), (c - 1) + 1) = Sum(Column(f), c - 1) + Column(f)[(c - 1) + 1]
    BY <2>1, SumEquation, Zenon
  <2> QED BY <1>1, <2>1, <2>2, Zenon DEF UpTo
<1> QED BY <1>2, <1>3, SumEquation, Zenon DEF UpTo

(* Counting on a CPU raises the sums that reach it, and no others.         *)
LEMMA CountRaises ==
    ASSUME CountTypes, NEW c \in Stats!Cpu, NEW g \in Stats!Field, NEW n \in Nat,
           Stats!Count(c, g, n), NEW f \in Stats!Field
    PROVE  /\ dstats' \in [Stats!Cpu -> [Stats!Field -> Nat]]
           /\ \A k \in 0 .. Cpus :
                 UpTo(f, k)' = IF f = g /\ c <= k THEN UpTo(f, k) + n ELSE UpTo(f, k)
<1>1. dstats' = [dstats EXCEPT ![c][g] = @ + n]
  BY Zenon DEF Stats!Count
<1>2. \A b \in Stats!Cpu : dstats[b] \in [Stats!Field -> Nat] /\ dstats[b][f] \in Nat
  BY Zenon DEF CountTypes
<1>3. dstats' \in [Stats!Cpu -> [Stats!Field -> Nat]]
  BY <1>1, <1>2 DEF CountTypes
<1>4. ASSUME NEW b \in Stats!Cpu
      PROVE  dstats'[b][f] = IF b = c /\ f = g THEN dstats[b][f] + n ELSE dstats[b][f]
  BY <1>1, <1>2, Zenon DEF CountTypes
<1> DEFINE old == Column(f)
           new == Column(f)'
<1>5. \A b \in 1 .. Cpus :
         /\ old[b] \in Int
         /\ new[b] = IF b = c /\ f = g THEN old[b] + n ELSE old[b]
  <2>1. \A b \in Stats!Cpu : old[b] = dstats[b][f] /\ new[b] = dstats'[b][f]
    BY Zenon DEF Column
  <2>2. Nat \subseteq Int
    OBVIOUS
  <2> QED BY <1>2, <1>4, <2>1, <2>2, Zenon DEF Stats!Cpu
<1>6. \A k : UpTo(f, k) = Sum(old, k) /\ UpTo(f, k)' = Sum(new, k)
  BY Zenon DEF UpTo
<1> HIDE DEF old, new
<1>7. ASSUME NEW k \in 0 .. Cpus
      PROVE  UpTo(f, k)' = IF f = g /\ c <= k THEN UpTo(f, k) + n ELSE UpTo(f, k)
  <2>1. CASE f = g
    <3>1. c \in 1 .. Cpus /\ n \in Int
      BY DEF Stats!Cpu
    <3>2. Raised(old, new, Cpus, c, n)
      BY <1>5, <2>1, <3>1, CpuAssumption, Zenon DEF Raised
    <3>3. \A m \in 0 .. Cpus :
             /\ Sum(old, m) \in Int
             /\ Sum(new, m) = IF c <= m THEN Sum(old, m) + n ELSE Sum(old, m)
      BY <3>2, SumRaise
    <3> QED BY <1>6, <2>1, <3>3, Zenon
  <2>2. CASE f # g
    <3>1. k \in Nat /\ \A b \in 1 .. k : b \in 1 .. Cpus
      BY CpuAssumption
    <3>2. \A b \in 1 .. k : new[b] = old[b]
      BY <1>5, <2>2, <3>1, Zenon
    <3> QED BY <1>6, <2>2, <3>1, <3>2, SumSame
  <2> QED BY <2>1, <2>2, Zenon
<1> QED BY <1>3, <1>7, Zenon

(* for_each_possible_cpu visits every CPU in turn.                         *)
LEMMA ReadsInTurn ==
    ASSUME NEW c \in 1 .. Cpus + 1
    PROVE  Stats!ReadAt(c) = IF c <= Cpus THEN AtLoad(c, 1) ELSE AtEnd
<1>1. Stats!CpusFrom(c) = c .. Cpus
  BY CpuAssumption DEF Stats!CpusFrom, Stats!Cpu
<1>2. CASE c <= Cpus
  <2> DEFINE S == c .. Cpus
  <2>1. c \in S /\ \A d \in S : c <= d
    BY <1>2, CpuAssumption
  <2>2. ASSUME NEW d \in S, \A e \in S : d <= e PROVE d = c
    BY <2>1, <2>2, CpuAssumption
  <2> HIDE DEF S
  <2>3. Stats!Min(S) = c
    BY <2>1, <2>2, Zenon DEF Stats!Min
  <2>4. S # {}
    BY <2>1, Zenon
  <2> QED BY <1>1, <1>2, <2>3, <2>4, Zenon DEF Stats!ReadAt, AtLoad, S
<1>3. CASE ~(c <= Cpus)
  <2>1. c .. Cpus = {}
    BY <1>3, CpuAssumption
  <2> QED BY <1>1, <1>3, <2>1, Zenon DEF Stats!ReadAt, AtEnd
<1> QED BY <1>2, <1>3, Zenon

(* How far the reader is, for its three kinds of states.                   *)
LEMMA PassedSoFar ==
    ASSUME NEW f \in Stats!Field
    PROVE  /\ reader = AtEnd => Passed(f) = Cpus
           /\ \A c \in Stats!Cpu, n \in 1 .. 4 : reader = AtLoad(c, n) =>
                 Passed(f) = IF \E m \in 1 .. n - 1 : Stats!LoadOrder[m] = f THEN c ELSE c - 1
<1>1. AtEnd.at = "end" /\ "end" # "load"
  BY DEF AtEnd
<1>2. ASSUME NEW c, NEW n, reader = AtLoad(c, n)
      PROVE  reader.at = "load" /\ reader.cpu = c /\ reader.n = n
  BY <1>2 DEF AtLoad
<1>3. ASSUME NEW c, NEW n, reader = AtLoad(c, n)
      PROVE  Passed(f) = IF \E m \in 1 .. n - 1 : Stats!LoadOrder[m] = f THEN c ELSE c - 1
  BY <1>2, <1>3, Zenon DEF Passed
<1>4. reader = AtEnd => Passed(f) = Cpus
  BY <1>1, Zenon DEF Passed
<1> QED BY <1>3, <1>4, Zenon

(* It is a number of CPUs.                                                 *)
LEMMA PassedCpus ==
    ASSUME ReadTypes, reader # Stats!Idle, NEW f \in Stats!Field
    PROVE  Passed(f) \in 0 .. Cpus
<1>1. CASE reader = AtEnd
  <2>1. Cpus \in 0 .. Cpus
    BY CpuAssumption
  <2> QED BY <1>1, <2>1, PassedSoFar, Zenon
<1>2. ASSUME NEW c \in Stats!Cpu, NEW n \in 1 .. 4, reader = AtLoad(c, n)
      PROVE  Passed(f) \in 0 .. Cpus
  <2>1. c \in 0 .. Cpus /\ c - 1 \in 0 .. Cpus
    BY CpuAssumption DEF Stats!Cpu
  <2> QED BY <1>2, <2>1, PassedSoFar, Zenon
<1> QED BY <1>1, <1>2, Zenon DEF ReadTypes

(* A count, anywhere, leaves the reader's sums between the totals.         *)
LEMMA BracketedCount ==
    ASSUME StatsInv, NEW c \in Stats!Cpu, NEW g \in Stats!Field, NEW n \in Nat,
           Stats!Count(c, g, n), UNCHANGED Stats!readVars
    PROVE  (reader # Stats!Idle => \A f \in Stats!Field : Bracketed(f))'
<1> SUFFICES ASSUME reader # Stats!Idle, NEW f \in Stats!Field PROVE Bracketed(f)'
  BY Zenon DEF Stats!readVars, Stats!Idle
<1>1. UNCHANGED <<reader, stats, since>> /\ Passed(f)' = Passed(f)
  BY Zenon DEF Stats!readVars, Passed
<1>2. Bracketed(f) /\ Passed(f) \in 0 .. Cpus /\ Cpus \in 0 .. Cpus
  BY PassedCpus, CpuAssumption DEF StatsInv
<1>3. PICK k \in 0 .. Cpus : k = Passed(f)
  BY <1>2, Zenon
<1>4. /\ UpTo(f, k)' = IF f = g /\ c <= k THEN UpTo(f, k) + n ELSE UpTo(f, k)
      /\ UpTo(f, Cpus)' = IF f = g /\ c <= Cpus THEN UpTo(f, Cpus) + n ELSE UpTo(f, Cpus)
  <2>1. \A j \in 0 .. Cpus :
           UpTo(f, j)' = IF f = g /\ c <= j THEN UpTo(f, j) + n ELSE UpTo(f, j)
    BY CountRaises, Zenon DEF StatsInv
  <2> QED BY <1>2, <2>1, Zenon
<1>5. UpTo(f, k) \in Nat /\ UpTo(f, Cpus) \in Nat /\ stats[f] \in Nat /\ since[f] \in Nat
  BY <1>2, ColumnSums, Zenon DEF StatsInv, ReadTypes
<1>6. c <= Cpus /\ k \in Int /\ k <= Cpus /\ c \in Int
  BY <1>2, CpuAssumption DEF Stats!Cpu
<1>7. UpTo(f, Passed(f))' = UpTo(f, k)'
  BY <1>1, <1>3, Zenon DEF UpTo
<1>8. /\ stats[f] <= UpTo(f, k)
      /\ since[f] <= stats[f] + (UpTo(f, Cpus) - UpTo(f, k))
  BY <1>2, <1>3, Zenon DEF Bracketed
<1>9. /\ stats[f] <= UpTo(f, k)'
      /\ since[f] <= stats[f] + (UpTo(f, Cpus)' - UpTo(f, k)')
  BY <1>4, <1>5, <1>6, <1>8
<1> QED BY <1>1, <1>7, <1>9, Zenon DEF Bracketed

(* A call begins with nothing passed.                                      *)
LEMMA BracketedCall ==
    ASSUME StatsInv, Stats!dummy_get_stats64
    PROVE  ReadTypes' /\ \A f \in Stats!Field : Bracketed(f)'
<1>1. /\ reader' = Stats!ReadAt(1) /\ stats' = Stats!Zero
      /\ since' = [f \in Stats!Field |-> UpTo(f, Cpus)] /\ UNCHANGED dstats
  BY TotalIsSum, Zenon DEF Stats!dummy_get_stats64
<1>2. 1 \in 1 .. Cpus + 1 /\ Cpus \in 0 .. Cpus
  BY CpuAssumption
<1>3. reader' = IF 1 <= Cpus THEN AtLoad(1, 1) ELSE AtEnd
  BY <1>1, <1>2, ReadsInTurn, Zenon
<1>4. ASSUME NEW f \in Stats!Field
      PROVE  stats'[f] = 0 /\ since'[f] = UpTo(f, Cpus) /\ UpTo(f, Cpus) \in Nat
  BY <1>1, <1>2, ColumnSums, Zenon DEF StatsInv, Stats!Zero
<1>5. ReadTypes'
  <2>1. 1 \in 1 .. 4 /\ (1 <= Cpus => 1 \in Stats!Cpu) /\ 0 \in Nat
    BY CpuAssumption DEF Stats!Cpu
  <2>2. stats' \in [Stats!Field -> Nat] /\ since' \in [Stats!Field -> Nat]
    BY <1>1, <1>4, <2>1, Zenon DEF Stats!Zero
  <2> QED BY <1>3, <2>1, <2>2, Zenon DEF ReadTypes
<1>6. ASSUME NEW f \in Stats!Field PROVE Passed(f)' = 0
  <2>1. CASE 1 <= Cpus
    <3>1. reader'.at = "load" /\ reader'.cpu = 1 /\ reader'.n = 1
      BY <1>3, <2>1 DEF AtLoad
    <3>2. 1 .. 1 - 1 = {} /\ 1 - 1 = 0
      OBVIOUS
    <3> QED BY <3>1, <3>2, Zenon DEF Passed
  <2>2. CASE ~(1 <= Cpus)
    <3>1. reader'.at # "load" /\ Cpus = 0
      BY <1>3, <2>2, CpuAssumption DEF AtEnd
    <3> QED BY <3>1, Zenon DEF Passed
  <2> QED BY <2>1, <2>2, Zenon
<1>7. ASSUME NEW f \in Stats!Field PROVE Bracketed(f)'
  <2>1. UpTo(f, 0)' = 0 /\ UpTo(f, Cpus)' = UpTo(f, Cpus)
    BY <1>1, SumEquation, Zenon DEF UpTo, Column
  <2>2. UpTo(f, Passed(f))' = 0
    BY <1>6, <2>1, Zenon DEF UpTo
  <2>3. /\ stats'[f] <= 0
        /\ since'[f] <= stats'[f] + (UpTo(f, Cpus)' - 0)
    BY <1>4, <2>1
  <2> QED BY <2>2, <2>3, Zenon DEF Bracketed
<1> QED BY <1>5, <1>7, Zenon

(* A load passes one CPU for one field.                                    *)
LEMMA PassedLoad ==
    ASSUME StatsInv, NEW c \in Stats!Cpu, NEW n \in 1 .. 4, reader = AtLoad(c, n),
           Stats!Load, NEW f \in Stats!Field
    PROVE  /\ Passed(f)' = IF f = Stats!LoadOrder[n] THEN c ELSE Passed(f)
           /\ f = Stats!LoadOrder[n] => Passed(f) = c - 1
           /\ ReadTypes'
<1>1. reader.at = "load" /\ reader.cpu = c /\ reader.n = n
  BY DEF AtLoad
<1>2. /\ Stats!LoadOrder[1] = "rx_packets" /\ Stats!LoadOrder[2] = "rx_bytes"
      /\ Stats!LoadOrder[3] = "tx_packets" /\ Stats!LoadOrder[4] = "tx_bytes"
      /\ Len(Stats!LoadOrder) = 4
  BY DEF Stats!LoadOrder
<1>3. \A j \in 1 .. 4 : j = 1 \/ j = 2 \/ j = 3 \/ j = 4
  OBVIOUS
<1>4. f \in {"rx_packets", "rx_bytes", "tx_packets", "tx_bytes"}
  BY Zenon DEF Stats!Field
<1>5. Passed(f) = IF \E m \in 1 .. n - 1 : Stats!LoadOrder[m] = f THEN c ELSE c - 1
  BY PassedSoFar, Zenon
<1>6. /\ stats' = [stats EXCEPT ![Stats!LoadOrder[n]] = @ + dstats[c][Stats!LoadOrder[n]]]
      /\ reader' = IF n < 4 THEN [reader EXCEPT !.n = n + 1] ELSE Stats!ReadAt(c + 1)
      /\ UNCHANGED <<dstats, since>>
  BY <1>1, <1>2, Zenon DEF Stats!Load
<1>7. c + 1 \in 1 .. Cpus + 1 /\ c \in Int /\ c <= Cpus /\ n \in Int
  BY CpuAssumption DEF Stats!Cpu
<1>8. n < 4 => reader' = AtLoad(c, n + 1) /\ n + 1 \in 1 .. 4
  BY <1>6, <1>7 DEF AtLoad
<1>9. ~(n < 4) => n = 4 /\ reader' = IF c + 1 <= Cpus THEN AtLoad(c + 1, 1) ELSE AtEnd
  BY <1>6, <1>7, ReadsInTurn
<1>10. ReadTypes'
  <2>1. Stats!LoadOrder[n] \in Stats!Field
    BY <1>2, <1>3, Zenon DEF Stats!Field
  <2>2. dstats[c][Stats!LoadOrder[n]] \in Nat
    BY <2>1, Zenon DEF StatsInv, CountTypes
  <2>3. stats' \in [Stats!Field -> Nat]
    BY <1>6, <2>1, <2>2 DEF StatsInv, ReadTypes
  <2>4. /\ 1 \in 1 .. 4
        /\ c + 1 <= Cpus => c + 1 \in Stats!Cpu
    BY <1>7, CpuAssumption DEF Stats!Cpu
  <2> QED BY <1>6, <1>8, <1>9, <2>3, <2>4, Zenon DEF ReadTypes, StatsInv
<1>11. f = Stats!LoadOrder[n] => ~\E m \in 1 .. n - 1 : Stats!LoadOrder[m] = f
  <2>1. \A j \in 1 .. 4, m \in 1 .. 4 : Stats!LoadOrder[j] = Stats!LoadOrder[m] => j = m
    BY <1>2, <1>3, Zenon
  <2>2. \A m \in 1 .. n - 1 : m \in 1 .. 4 /\ m # n
    BY <1>7
  <2> QED BY <2>1, <2>2, Zenon
<1>12. CASE n < 4
  <2>1. Passed(f)' = IF \E m \in 1 .. (n + 1) - 1 : Stats!LoadOrder[m] = f THEN c ELSE c - 1
    <3>1. reader'.at = "load" /\ reader'.cpu = c /\ reader'.n = n + 1
      BY <1>8, <1>12 DEF AtLoad
    <3> QED BY <3>1, Zenon DEF Passed
  <2>2. (\E m \in 1 .. (n + 1) - 1 : Stats!LoadOrder[m] = f)
           <=> (\E m \in 1 .. n - 1 : Stats!LoadOrder[m] = f) \/ Stats!LoadOrder[n] = f
    <3>1. \A m : m \in 1 .. (n + 1) - 1 <=> m \in 1 .. n - 1 \/ m = n
      BY <1>7
    <3> QED BY <3>1, Zenon
  <2> QED BY <1>5, <1>10, <1>11, <2>1, <2>2, Zenon
<1>13. CASE ~(n < 4)
  <2>1. Passed(f)' = c
    <3>1. CASE c + 1 <= Cpus
      <4>1. reader'.at = "load" /\ reader'.cpu = c + 1 /\ reader'.n = 1
        BY <1>9, <1>13, <3>1 DEF AtLoad
      <4>2. 1 .. 1 - 1 = {} /\ (c + 1) - 1 = c
        BY <1>7
      <4> QED BY <4>1, <4>2, Zenon DEF Passed
    <3>2. CASE ~(c + 1 <= Cpus)
      <4>1. reader'.at # "load" /\ Cpus = c
        BY <1>7, <1>9, <1>13, <3>2, CpuAssumption DEF AtEnd
      <4> QED BY <4>1, Zenon DEF Passed
    <3> QED BY <3>1, <3>2, Zenon
  <2>2. f # Stats!LoadOrder[n] => \E m \in 1 .. n - 1 : Stats!LoadOrder[m] = f
    <3>1. n = 4 /\ 1 \in 1 .. n - 1 /\ 2 \in 1 .. n - 1 /\ 3 \in 1 .. n - 1
      BY <1>9, <1>13
    <3> QED BY <1>2, <1>4, <3>1, Zenon
  <2> QED BY <1>5, <1>10, <1>11, <2>1, <2>2, Zenon
<1> QED BY <1>12, <1>13, Zenon

(* A load leaves every sum between the totals: it adds what the CPU counts *)
(* now, which the sum so far and the rest are both compared with.          *)
LEMMA BracketedLoad ==
    ASSUME StatsInv, Stats!Load
    PROVE  ReadTypes' /\ \A f \in Stats!Field : Bracketed(f)'
<1>1. PICK c \in Stats!Cpu, n \in 1 .. 4 : reader = AtLoad(c, n)
  <2>1. reader.at = "load"
    BY Zenon DEF Stats!Load
  <2>2. reader # Stats!Idle /\ reader # AtEnd
    BY <2>1 DEF Stats!Idle, AtEnd
  <2> QED BY <2>2, Zenon DEF StatsInv, ReadTypes
<1>2. "rx_packets" \in Stats!Field
  BY Zenon DEF Stats!Field
<1>3. ReadTypes'
  BY <1>1, <1>2, PassedLoad, Zenon
<1>4. reader.cpu = c /\ reader.n = n /\ reader # Stats!Idle
  BY <1>1 DEF AtLoad, Stats!Idle
<1>5. /\ stats' = [stats EXCEPT ![Stats!LoadOrder[n]] = @ + dstats[c][Stats!LoadOrder[n]]]
      /\ UNCHANGED <<dstats, since>>
  BY <1>4, Zenon DEF Stats!Load
<1>6. ASSUME NEW f \in Stats!Field PROVE Bracketed(f)'
  <2>1. \A k : UpTo(f, k)' = UpTo(f, k)
    BY <1>5, Zenon DEF UpTo, Column
  <2>2. /\ stats[f] <= UpTo(f, Passed(f))
        /\ since[f] <= stats[f] + (UpTo(f, Cpus) - UpTo(f, Passed(f)))
    BY <1>4, Zenon DEF StatsInv, Bracketed
  <2>3. /\ Passed(f)' = IF f = Stats!LoadOrder[n] THEN c ELSE Passed(f)
        /\ f = Stats!LoadOrder[n] => Passed(f) = c - 1
    BY <1>1, PassedLoad, Zenon
  <2>4. CASE f = Stats!LoadOrder[n]
    <3>1. stats'[f] = stats[f] + dstats[c][f] /\ since'[f] = since[f]
      BY <1>5, <2>4, Zenon DEF StatsInv, ReadTypes
    <3>2. UpTo(f, c) = UpTo(f, c - 1) + dstats[c][f]
      BY ColumnSums, Zenon DEF StatsInv
    <3>3. c - 1 \in 0 .. Cpus /\ c \in 0 .. Cpus /\ Cpus \in 0 .. Cpus
      BY CpuAssumption DEF Stats!Cpu
    <3>4. /\ UpTo(f, c) \in Nat /\ UpTo(f, c - 1) \in Nat /\ UpTo(f, Cpus) \in Nat
          /\ stats[f] \in Nat /\ since[f] \in Nat /\ dstats[c][f] \in Nat
      BY <3>3, ColumnSums, Zenon DEF StatsInv, CountTypes, ReadTypes
    <3>5. stats[f] <= UpTo(f, c - 1) /\ since[f] <= stats[f] + (UpTo(f, Cpus) - UpTo(f, c - 1))
      BY <2>2, <2>3, <2>4, Zenon
    <3>6. /\ stats'[f] <= UpTo(f, c)
          /\ since'[f] <= stats'[f] + (UpTo(f, Cpus) - UpTo(f, c))
      BY <3>1, <3>2, <3>4, <3>5
    <3>7. UpTo(f, Passed(f))' = UpTo(f, c) /\ UpTo(f, Cpus)' = UpTo(f, Cpus)
      BY <2>1, <2>3, <2>4, Zenon DEF UpTo
    <3> QED BY <3>6, <3>7, Zenon DEF Bracketed
  <2>5. CASE f # Stats!LoadOrder[n]
    <3>1. stats'[f] = stats[f] /\ since'[f] = since[f]
      BY <1>5, <2>5, Zenon DEF StatsInv, ReadTypes
    <3>2. UpTo(f, Passed(f))' = UpTo(f, Passed(f)) /\ UpTo(f, Cpus)' = UpTo(f, Cpus)
      BY <2>1, <2>3, <2>5, Zenon DEF UpTo
    <3> QED BY <2>2, <3>1, <3>2, Zenon DEF Bracketed
  <2> QED BY <2>4, <2>5, Zenon
<1> QED BY <1>3, <1>6, Zenon

(* Which counter a step raises, on which CPU and by how much.              *)
LEMMA CountSteps ==
    ASSUME StatsInv, Stats!Next
    PROVE  /\ CountTypes'
           /\ \/ UNCHANGED dstats
              \/ \E c \in Stats!Cpu, g \in Stats!Field, n \in Nat :
                    Stats!Count(c, g, n) /\ UNCHANGED Stats!readVars
<1>0. /\ online \subseteq Stats!Cpu /\ dstats \in [Stats!Cpu -> [Stats!Field -> Nat]]
      /\ xmit = Stats!Idle \/ xmit \in Counting({"packets", "bytes", "queue"})
      /\ counting = Stats!Idle \/ counting \in Counting({"packets", "bytes"})
      /\ skb_tx_q \in Seq(Nat) /\ Stats!Idle.at = "idle" /\ 1 \in Nat
      /\ {"rx_packets", "rx_bytes", "tx_packets", "tx_bytes"} \subseteq Stats!Field
  BY DEF StatsInv, CountTypes, Stats!Idle, Stats!Field
<1>1. ASSUME NEW u, NEW v, Stats!SetDev(u, v)
      PROVE  CountTypes' /\ UNCHANGED dstats
  BY <1>0, <1>1, Zenon DEF Stats!SetDev, CountTypes
<1>2. CASE Stats!dummy_xmit
  <2>1. PICK c \in online, n \in 1 .. MaxLen : xmit' = [at |-> "packets", cpu |-> c, len |-> n]
    BY <1>2, Zenon DEF Stats!dummy_xmit
  <2>2. xmit' \in Counting({"packets", "bytes", "queue"})
    BY <1>0, <2>1, CpuAssumption DEF Counting
  <2> QED BY <1>0, <1>2, <2>2, Zenon DEF Stats!dummy_xmit, CountTypes
<1>3. CASE Stats!XmitStep
  <2>1. xmit # Stats!Idle /\ UNCHANGED <<online, counting, Stats!readVars>>
    BY <1>0, <1>3 DEF Stats!XmitStep, Stats!XmitCount
  <2>2. xmit.cpu \in Stats!Cpu /\ xmit.len \in Nat
    BY <1>0, <2>1 DEF Counting
  <2>3. ASSUME NEW p \in {"bytes", "queue"}, Stats!XmitTo(p)
        PROVE  xmit' \in Counting({"packets", "bytes", "queue"})
    BY <1>0, <2>1, <2>3, Zenon DEF Counting, Stats!XmitTo
  <2>4. ASSUME NEW g \in Stats!Field, NEW n \in Nat, NEW p \in {"bytes", "queue"},
               Stats!Count(xmit.cpu, g, n), Stats!XmitTo(p), UNCHANGED skb_tx_q
        PROVE  /\ CountTypes'
               /\ \E c \in Stats!Cpu, h \in Stats!Field, m \in Nat :
                     Stats!Count(c, h, m) /\ UNCHANGED Stats!readVars
    <3>1. dstats' \in [Stats!Cpu -> [Stats!Field -> Nat]]
      BY <2>2, <2>4, CountRaises, Zenon DEF StatsInv
    <3>2. CountTypes'
      BY <1>0, <2>1, <2>3, <2>4, <3>1, Zenon DEF CountTypes
    <3> QED BY <2>1, <2>2, <2>4, <3>2, Zenon
  <2>5. CASE xmit' = Stats!Idle /\ skb_tx_q' = Append(skb_tx_q, xmit.len) /\ UNCHANGED dstats
    <3>1. skb_tx_q' \in Seq(Nat)
      BY <1>0, <2>2, <2>5
    <3> QED BY <1>0, <2>1, <2>5, <3>1, Zenon DEF CountTypes
  <2> QED BY <1>0, <1>3, <2>2, <2>4, <2>5, Zenon DEF Stats!XmitStep, Stats!XmitCount
<1>4. CASE Stats!dummy_eth_rx
  <2>1. skb_tx_q # <<>> /\ skb_tx_q' = Tail(skb_tx_q) /\ UNCHANGED <<online, dstats, xmit>>
    BY <1>4, Zenon DEF Stats!dummy_eth_rx
  <2>2. Head(skb_tx_q) \in Nat /\ skb_tx_q' \in Seq(Nat)
    BY <1>0, <2>1
  <2>3. ASSUME NEW c \in online,
               counting' = [at |-> "packets", cpu |-> c, len |-> Head(skb_tx_q)]
        PROVE  counting' \in Counting({"packets", "bytes"})
    BY <1>0, <2>2, <2>3 DEF Counting
  <2>4. counting' = Stats!Idle \/ counting' \in Counting({"packets", "bytes"})
    BY <1>4, <2>3, Zenon DEF Stats!dummy_eth_rx
  <2> QED BY <1>0, <2>1, <2>2, <2>4, Zenon DEF CountTypes
<1>5. CASE Stats!RxCount
  <2>1. counting # Stats!Idle /\ UNCHANGED <<online, xmit, skb_tx_q, Stats!readVars>>
    BY <1>0, <1>5 DEF Stats!RxCount
  <2>2. counting.cpu \in Stats!Cpu /\ counting.len \in Nat
    BY <1>0, <2>1 DEF Counting
  <2>3. counting' = Stats!Idle \/ counting' \in Counting({"packets", "bytes"})
    <3>1. [counting EXCEPT !.at = "bytes"] \in Counting({"packets", "bytes"})
      BY <1>0, <2>1, Zenon DEF Counting
    <3> QED BY <1>5, <3>1, Zenon DEF Stats!RxCount
  <2>4. ASSUME NEW g \in Stats!Field, NEW n \in Nat, Stats!Count(counting.cpu, g, n)
        PROVE  /\ CountTypes'
               /\ \E c \in Stats!Cpu, h \in Stats!Field, m \in Nat :
                     Stats!Count(c, h, m) /\ UNCHANGED Stats!readVars
    <3>1. dstats' \in [Stats!Cpu -> [Stats!Field -> Nat]]
      BY <2>2, <2>4, CountRaises, Zenon DEF StatsInv
    <3>2. CountTypes'
      BY <1>0, <2>1, <2>3, <3>1, Zenon DEF CountTypes
    <3> QED BY <2>1, <2>2, <2>4, <3>2, Zenon
  <2> QED BY <1>0, <1>5, <2>2, <2>4, Zenon DEF Stats!RxCount
<1>6. CASE Stats!dummy_get_stats64 \/ Stats!Load \/ Stats!GetStatsEnd
  BY <1>0, <1>6, Zenon
     DEF Stats!dummy_get_stats64, Stats!Load, Stats!GetStatsEnd, CountTypes
<1>7. ASSUME NEW c \in Stats!Cpu, Stats!Hotplug(c)
      PROVE  CountTypes' /\ UNCHANGED dstats
  BY <1>0, <1>7, Zenon DEF Stats!Hotplug, CountTypes
<1> QED BY <1>1, <1>2, <1>3, <1>4, <1>5, <1>6, <1>7, Zenon
        DEF Stats!Next, Stats!dummy_open, Stats!dummy_close, Stats!dummy_change_carrier

(* The reader is moved by its own steps only.                              *)
LEMMA ReadSteps ==
    ASSUME Stats!Next
    PROVE  \/ UNCHANGED Stats!readVars
           \/ Stats!dummy_get_stats64 \/ Stats!Load \/ Stats!GetStatsEnd
BY Zenon DEF Stats!Next, Stats!dummy_open, Stats!dummy_close, Stats!dummy_change_carrier,
             Stats!SetDev, Stats!dummy_xmit, Stats!XmitStep, Stats!dummy_eth_rx,
             Stats!RxCount, Stats!Hotplug

(* Every step of the counters keeps the invariant.                         *)
LEMMA StatsInvNext ==
    ASSUME StatsInv, [Stats!Next]_(Stats!vars)
    PROVE  StatsInv'
<1>1. ASSUME UNCHANGED <<dstats, reader, stats, since>>, CountTypes'
      PROVE  StatsInv'
  <2>1. \A f : UpTo(f, Cpus)' = UpTo(f, Cpus)
    BY <1>1, Zenon DEF UpTo, Column
  <2>2. \A f : UpTo(f, Passed(f))' = UpTo(f, Passed(f))
    BY <1>1, Zenon DEF UpTo, Column, Passed
  <2>3. \A f : Bracketed(f) => Bracketed(f)'
    BY <1>1, <2>1, <2>2, Zenon DEF Bracketed
  <2>4. ReadTypes'
    BY <1>1, Zenon DEF StatsInv, ReadTypes
  <2> QED BY <1>1, <2>3, <2>4, Zenon DEF StatsInv, Stats!Idle
<1>2. CASE UNCHANGED Stats!vars
  <2>1. UNCHANGED <<online, dstats, xmit, counting, skb_tx_q, reader, stats, since>>
    BY <1>2, Zenon DEF Stats!vars, Stats!readVars
  <2>2. CountTypes'
    BY <2>1, Zenon DEF StatsInv, CountTypes
  <2> QED BY <1>1, <2>1, <2>2, Zenon
<1>3. CASE Stats!Next /\ UNCHANGED Stats!readVars
  <2>1. UNCHANGED <<reader, stats, since>>
    BY <1>3, Zenon DEF Stats!readVars
  <2>2. CASE UNCHANGED dstats
    BY <1>1, <1>3, <2>1, <2>2, CountSteps, Zenon
  <2>3. ASSUME NEW c \in Stats!Cpu, NEW g \in Stats!Field, NEW n \in Nat, Stats!Count(c, g, n)
        PROVE  StatsInv'
    <3>1. (reader # Stats!Idle => \A f \in Stats!Field : Bracketed(f))'
      BY <1>3, <2>3, BracketedCount, Zenon
    <3>2. ReadTypes'
      BY <2>1, Zenon DEF StatsInv, ReadTypes
    <3> QED BY <1>3, <3>1, <3>2, CountSteps, Zenon DEF StatsInv
  <2> QED BY <1>3, <2>2, <2>3, CountSteps, Zenon
<1>4. CASE Stats!Next /\ (Stats!dummy_get_stats64 \/ Stats!Load)
  BY <1>4, CountSteps, BracketedCall, BracketedLoad, Zenon DEF StatsInv
<1>5. CASE Stats!Next /\ Stats!GetStatsEnd
  <2>1. reader' = Stats!Idle /\ stats' = Stats!Zero /\ since' = Stats!Zero
    BY <1>5, Zenon DEF Stats!GetStatsEnd
  <2>2. Stats!Zero \in [Stats!Field -> Nat]
    BY DEF Stats!Zero
  <2>3. Stats!Idle' = Stats!Idle
    BY Zenon DEF Stats!Idle
  <2> QED BY <1>5, <2>1, <2>2, <2>3, CountSteps, Zenon DEF StatsInv, ReadTypes
<1> QED BY <1>2, <1>3, <1>4, <1>5, ReadSteps, Zenon

(* All counters are zero and nobody reads.                                 *)
LEMMA StatsInvInit ==
    ASSUME Stats!Init
    PROVE  StatsInv
<1>1. Stats!Zero \in [Stats!Field -> Nat] /\ <<>> \in Seq(Nat)
  BY DEF Stats!Zero
<1> QED BY <1>1, Zenon DEF Stats!Init, StatsInv, CountTypes, ReadTypes

(* dummy_get_stats64, for every number of CPUs and frames: each sum it     *)
(* returns lies between the true totals at its call and at its return,     *)
(* although it adds up counters that change, on CPUs that come and go,     *)
(* without a lock.                                                         *)
THEOREM SumsBetween == Stats!Spec => []StatsBetween
<1>1. Stats!Init => StatsInv
  BY StatsInvInit, Zenon
<1>2. StatsInv /\ [Stats!Next]_(Stats!vars) => StatsInv'
  BY StatsInvNext, Zenon
<1>3. StatsInv => StatsBetween
  <2> SUFFICES ASSUME StatsInv, reader.at = "end", NEW f \in Stats!Field
               PROVE  since[f] <= stats[f] /\ stats[f] <= Stats!Total(f)
    BY Zenon DEF StatsBetween, Stats!StatsBetween
  <2>1. reader # Stats!Idle /\ reader.at # "load"
    BY DEF Stats!Idle
  <2>2. Passed(f) = Cpus /\ Cpus \in 0 .. Cpus
    BY <2>1, CpuAssumption DEF Passed
  <2>3. /\ stats[f] <= UpTo(f, Cpus)
        /\ since[f] <= stats[f] + (UpTo(f, Cpus) - UpTo(f, Cpus))
    BY <2>1, <2>2, Zenon DEF StatsInv, Bracketed
  <2>4. UpTo(f, Cpus) \in Nat /\ stats[f] \in Nat /\ since[f] \in Nat
    BY <2>2, ColumnSums, Zenon DEF StatsInv, ReadTypes
  <2>5. since[f] <= stats[f]
    BY <2>3, <2>4
  <2> QED BY <2>3, <2>5, TotalIsSum, Zenon
<1> QED BY <1>1, <1>2, <1>3, PTL DEF Stats!Spec

(* No step takes back what was counted: the totals never fall.  With the   *)
(* bounds above, a later call never returns less than an earlier one did.  *)
THEOREM TotalsGrow ==
    Stats!Spec => [][\A f \in Stats!Field : Stats!Total(f) <= Stats!Total(f)']_(Stats!vars)
<1> DEFINE Grow == \A f \in Stats!Field : Stats!Total(f) <= Stats!Total(f)'
<1>1. Stats!Init => StatsInv
  BY StatsInvInit, Zenon
<1>2. StatsInv /\ [Stats!Next]_(Stats!vars) => StatsInv'
  BY StatsInvNext, Zenon
<1>3. ASSUME StatsInv, Stats!Next, NEW f \in Stats!Field
      PROVE  Stats!Total(f) <= Stats!Total(f)'
  <2>1. Cpus \in 0 .. Cpus /\ \A c \in Stats!Cpu : c <= Cpus
    BY CpuAssumption DEF Stats!Cpu
  <2>2. UpTo(f, Cpus) \in Nat
    BY <1>3, <2>1, ColumnSums, Zenon DEF StatsInv
  <2>3. Stats!Total(f) = UpTo(f, Cpus) /\ Stats!Total(f)' = UpTo(f, Cpus)'
    <3>1. Stats!Total(f)' = UpTo(f, Cpus)'
      BY Zenon DEF Stats!Total, Stats!Sum, Sum, UpTo, Column
    <3> QED BY <3>1, TotalIsSum, Zenon
  <2>4. CASE UNCHANGED dstats
    <3>1. UpTo(f, Cpus)' = UpTo(f, Cpus)
      BY <2>4, Zenon DEF UpTo, Column
    <3> QED BY <2>2, <2>3, <3>1
  <2>5. ASSUME NEW c \in Stats!Cpu, NEW g \in Stats!Field, NEW n \in Nat, Stats!Count(c, g, n)
        PROVE  Stats!Total(f) <= Stats!Total(f)'
    <3>1. UpTo(f, Cpus)' = IF f = g /\ c <= Cpus THEN UpTo(f, Cpus) + n ELSE UpTo(f, Cpus)
      BY <1>3, <2>1, <2>5, CountRaises DEF StatsInv
    <3> QED BY <2>2, <2>3, <3>1
  <2> QED BY <1>3, <2>4, <2>5, CountSteps, Zenon
<1>4. StatsInv /\ [Stats!Next]_(Stats!vars) => [Grow]_(Stats!vars)
  BY <1>3, Zenon
<1> QED BY <1>1, <1>2, <1>4, PTL DEF Stats!Spec

-----------------------------------------------------------------------------
(* Checksums                                                               *)

Base == 2 ^ W
Word == 0 .. Base - 1
Octet == 0 .. 255
Octets == [1 .. 4 -> Octet]

(* The addresses of the two networks are octets.                           *)
LEMMA AddressTypes ==
    Net \subseteq Octet /\ Host \subseteq Octet /\ Ip \subseteq Octets /\ OwnIp \in Octets
BY AddressAssumption, Zenon DEF Octet, Octets

(* csum_fold of the words of s before its complement.                      *)
Folded(s) == EndAround(EndAround(Sum(s, Len(s)), Base), Base)

(* s with one of its words replaced.                                       *)
Replaced(s, t, i, c) ==
    /\ s \in Seq(Word) /\ t \in Seq(Word) /\ Len(t) = Len(s) /\ i \in 1 .. Len(s)
    /\ \A k \in 1 .. Len(s) : t[k] = IF k = i THEN c ELSE s[k]

(* Both drivers' checksums are these.                                      *)
LEMMA InstanceChecksums ==
    /\ Reflect!M = Base /\ Aliases!M = Base
    /\ \A s : /\ Reflect!Checksum(s) = Base - 1 - Folded(s)
              /\ Aliases!Checksum(s) = Base - 1 - Folded(s)
              /\ Folded(s) = Base - 1 => Reflect!Verifies(s) /\ Aliases!Verifies(s)
<1>1. /\ \A f, n : Reflect!Sum(f, n) = Sum(f, n) /\ Aliases!Sum(f, n) = Sum(f, n)
      /\ \A n, m : Reflect!EndAround(n, m) = EndAround(n, m)
      /\ \A n, m : Aliases!EndAround(n, m) = EndAround(n, m)
      /\ Reflect!M = Base /\ Aliases!M = Base
  BY Zenon DEF Reflect!Sum, Aliases!Sum, Sum, Reflect!EndAround, Aliases!EndAround,
               EndAround, Reflect!M, Aliases!M, Base
<1>2. ASSUME NEW s PROVE Reflect!Fold(s) = Folded(s) /\ Aliases!Fold(s) = Folded(s)
  BY <1>1, Zenon DEF Reflect!Fold, Aliases!Fold, Reflect!WordSum, Aliases!WordSum, Folded
<1>3. ASSUME NEW s
      PROVE  /\ Reflect!Checksum(s) = Base - 1 - Folded(s)
             /\ Aliases!Checksum(s) = Base - 1 - Folded(s)
  BY <1>1, <1>2, Zenon DEF Reflect!Checksum, Aliases!Checksum
<1>4. ASSUME NEW s, Folded(s) = Base - 1
      PROVE  Reflect!Verifies(s) /\ Aliases!Verifies(s)
  BY <1>1, <1>2, <1>4, Zenon DEF Reflect!Verifies, Aliases!Verifies
<1> QED BY <1>1, <1>3, <1>4, Zenon

(* A word holds a checksum, and a message short enough for two rounds of   *)
(* carries verifies once its checksum stands where a zero stood.           *)
LEMMA ChecksumVerifies ==
    ASSUME NEW s \in Seq(Word), Len(s) <= Base
    PROVE  /\ Base - 1 - Folded(s) \in Word
           /\ \A t, i : Replaced(s, t, i, Base - 1 - Folded(s)) /\ s[i] = 0
                 => Folded(t) = Base - 1
<1>1. Base \in Nat /\ Base > 8 /\ Base - 1 \in Nat
  BY WordAssumption DEF Base
<1>2. Len(s) \in Nat /\ \A k \in 1 .. Len(s) : s[k] \in 0 .. Base - 1
  <2>1. Len(s) \in Nat /\ \A k \in 1 .. Len(s) : s[k] \in Word
    OBVIOUS
  <2> QED BY <2>1, Zenon DEF Word
<1> DEFINE n == Sum(s, Len(s))
<1>3. n \in Nat /\ n <= Len(s) * (Base - 1)
  BY <1>1, <1>2, SumBound, Zenon
<1>4. n \in 0 .. Base * Base - 1
  <2>1. ASSUME NEW l \in Nat, NEW b \in Nat, l <= b, b > 0
        PROVE  l * (b - 1) <= b * b - 1 /\ l * (b - 1) \in Int /\ b * b \in Int
    <3>1. l * (b - 1) <= b * (b - 1)
      BY <2>1
    <3>2. b * (b - 1) = b * b - b /\ b * b \in Int /\ l * (b - 1) \in Int
      BY <2>1
    <3> QED BY <2>1, <3>1, <3>2
  <2>2. /\ Len(s) * (Base - 1) <= Base * Base - 1
        /\ Len(s) * (Base - 1) \in Int /\ Base * Base \in Int
    BY <1>1, <1>2, <2>1
  <2> QED BY <1>3, <2>2
<1> HIDE DEF n
<1>5. Folded(s) = EndAround(EndAround(n, Base), Base)
  BY Zenon DEF Folded, n
<1>6. /\ Folded(s) \in 0 .. Base - 1
      /\ EndAround(EndAround(n + (Base - 1 - Folded(s)), Base), Base) = Base - 1
  <2>1. Base > 1
    BY <1>1
  <2> QED BY <1>1, <1>4, <1>5, <2>1, Carries
<1>7. Base - 1 - Folded(s) \in Word
  BY <1>1, <1>6 DEF Word
<1>8. ASSUME NEW t, NEW i, Replaced(s, t, i, Base - 1 - Folded(s)), s[i] = 0
      PROVE  Folded(t) = Base - 1
  <2> DEFINE d == Base - 1 - Folded(s)
  <2>1. Raised(s, t, Len(s), i, d)
    <3>1. /\ d \in Int /\ i \in 1 .. Len(s)
          /\ \A k \in 1 .. Len(s) : s[k] \in Int
      BY <1>1, <1>2, <1>6, <1>8 DEF Replaced
    <3>2. \A k \in 1 .. Len(s) : t[k] = IF k = i THEN d ELSE s[k]
      BY <1>8, Zenon DEF Replaced
    <3>3. s[i] + d = d
      BY <1>8, <3>1
    <3> HIDE DEF d
    <3> QED BY <1>2, <1>8, <3>1, <3>2, <3>3, Zenon DEF Raised
  <2> HIDE DEF d
  <2>2. Len(s) \in 0 .. Len(s) /\ i <= Len(s)
    BY <1>2, <1>8 DEF Replaced
  <2>3. Sum(t, Len(s)) = Sum(s, Len(s)) + d
    BY <2>1, <2>2, SumRaise
  <2>4. Len(t) = Len(s)
    BY <1>8, Zenon DEF Replaced
  <2> QED BY <1>6, <2>3, <2>4, Zenon DEF Folded, n, d
<1> QED BY <1>7, <1>8, Zenon

(* The addresses' words of an IP header, and the checksum.                 *)
OctetPair(x, y) == (x * 256 + y) % Base
AddressWords(a) == <<OctetPair(a[1], a[2]), OctetPair(a[3], a[4])>>
Header(a, b, c) == AddressWords(a) \o AddressWords(b) \o <<c>>

(* ip_fast_csum stored into a header with a zeroed checksum makes it       *)
(* verify, whatever the addresses.                                         *)
LEMMA HeaderVerifies ==
    ASSUME NEW a \in Octets, NEW b \in Octets
    PROVE  Folded(Header(a, b, Base - 1 - Folded(Header(a, b, 0)))) = Base - 1
<1>1. Base \in Nat /\ Base > 8
  BY WordAssumption DEF Base
<1>2. ASSUME NEW x \in Octet, NEW y \in Octet PROVE OctetPair(x, y) \in Word
  BY <1>1, <1>2 DEF OctetPair, Octet, Word
<1>3. ASSUME NEW o \in Octets
      PROVE  AddressWords(o) \in Seq(Word) /\ Len(AddressWords(o)) = 2
  <2>1. 1 \in 1 .. 4 /\ 2 \in 1 .. 4 /\ 3 \in 1 .. 4 /\ 4 \in 1 .. 4
    OBVIOUS
  <2>2. o[1] \in Octet /\ o[2] \in Octet /\ o[3] \in Octet /\ o[4] \in Octet
    BY <2>1, Zenon DEF Octets
  <2> DEFINE x == OctetPair(o[1], o[2])
             y == OctetPair(o[3], o[4])
  <2>3. x \in Word /\ y \in Word
    BY <1>2, <2>2, Zenon
  <2> HIDE DEF x, y
  <2>4. <<x, y>> \in Seq(Word) /\ Len(<<x, y>>) = 2
    BY <2>3
  <2> QED BY <2>4, Zenon DEF AddressWords, x, y
<1> DEFINE w == AddressWords(a) \o AddressWords(b)
<1>4. w \in Seq(Word) /\ Len(w) = 4
  <2> DEFINE u == AddressWords(a)
             v == AddressWords(b)
  <2>1. u \in Seq(Word) /\ Len(u) = 2 /\ v \in Seq(Word) /\ Len(v) = 2
    BY <1>3, Zenon
  <2> HIDE DEF u, v
  <2>2. u \o v \in Seq(Word) /\ Len(u \o v) = 4
    <3>1. u \o v \in Seq(Word) /\ Len(u \o v) = Len(u) + Len(v)
      BY <2>1, ConcatProperties, Zenon
    <3>2. Len(u) + Len(v) = 4
      BY <2>1
    <3> QED BY <3>1, <3>2, Zenon
  <2> QED BY <2>2, Zenon DEF u, v
<1> HIDE DEF w
<1>5. ASSUME NEW x \in Word
      PROVE  /\ w \o <<x>> \in Seq(Word) /\ Len(w \o <<x>>) = 5 /\ (w \o <<x>>)[5] = x
             /\ \A i \in 1 .. 4 : (w \o <<x>>)[i] = w[i]
  <2> DEFINE u == <<x>>
  <2>1. u \in Seq(Word) /\ Len(u) = 1 /\ u[1] = x
    BY <1>5
  <2> HIDE DEF u
  <2>2. /\ w \o u \in Seq(Word) /\ Len(w \o u) = Len(w) + Len(u)
        /\ \A i \in 1 .. Len(w) + Len(u) :
              (w \o u)[i] = IF i <= Len(w) THEN w[i] ELSE u[i - Len(w)]
    BY <1>4, <2>1, ConcatProperties, Zenon
  <2> DEFINE t == w \o u
  <2> HIDE DEF t
  <2>3. /\ t \in Seq(Word) /\ Len(t) = Len(w) + Len(u)
        /\ \A i \in 1 .. Len(w) + Len(u) : t[i] = IF i <= Len(w) THEN w[i] ELSE u[i - Len(w)]
    BY <2>2, Zenon DEF t
  <2>4. Len(t) = 5 /\ t[5] = x /\ \A i \in 1 .. 4 : t[i] = w[i]
    BY <1>4, <2>1, <2>3
  <2> QED BY <2>3, <2>4, Zenon DEF t, u
<1> DEFINE s == w \o <<0>>
           c == Base - 1 - Folded(s)
           t == w \o <<c>>
<1>6. /\ s \in Seq(Word) /\ Len(s) = 5 /\ s[5] = 0 /\ Len(s) <= Base
      /\ \A i \in 1 .. 4 : s[i] = w[i]
  <2>1. 0 \in Word /\ 5 <= Base
    BY <1>1 DEF Word
  <2> QED BY <1>5, <2>1, Zenon
<1> HIDE DEF c
<1>7. c \in Word /\ \A u, v : Replaced(s, u, v, c) /\ s[v] = 0 => Folded(u) = Base - 1
  <2> HIDE DEF s
  <2> QED BY <1>6, ChecksumVerifies, Zenon DEF c
<1>8. Replaced(s, t, 5, c)
  <2>1. t \in Seq(Word) /\ Len(t) = 5 /\ t[5] = c /\ \A i \in 1 .. 4 : t[i] = w[i]
    BY <1>5, <1>7, Zenon
  <2>2. 5 \in 1 .. 5 /\ \A i \in 1 .. 5 : i = 5 \/ i \in 1 .. 4
    OBVIOUS
  <2> HIDE DEF s, t
  <2> QED BY <1>6, <2>1, <2>2, Zenon DEF Replaced
<1>9. s = Header(a, b, 0) /\ t = Header(a, b, c)
  BY Zenon DEF Header, w
<1> HIDE DEF s, t
<1>10. Folded(t) = Base - 1
  BY <1>6, <1>7, <1>8, Zenon
<1> QED BY <1>9, <1>10, Zenon DEF c

(* ip_compute_csum stored into an ICMP message with a zeroed checksum makes*)
(* it verify, whatever the payload.                                        *)
LEMMA MessageVerifies ==
    ASSUME NEW type \in Word, NEW p \in Payload
    PROVE  Folded(<<type, Base - 1 - Folded(<<type, 0>> \o p)>> \o p) = Base - 1
<1>1. Base \in Nat /\ Base > 8 /\ p \in Seq(Word) /\ Len(p) + 2 <= Base
  BY WordAssumption, PayloadAssumption, Zenon DEF Base, Word
<1>2. 0 \in Word
  BY <1>1 DEF Word
<1> DEFINE s == <<type, 0>> \o p
           c == Base - 1 - Folded(s)
           t == <<type, c>> \o p
<1>3. ASSUME NEW x \in Word
      PROVE  LET u == <<type, x>> \o p
             IN  /\ u \in Seq(Word) /\ Len(u) = Len(p) + 2 /\ u[1] = type /\ u[2] = x
                 /\ \A k \in 3 .. Len(p) + 2 : u[k] = p[k - 2]
  BY <1>1, <1>3
<1>4. /\ s \in Seq(Word) /\ Len(s) = Len(p) + 2 /\ s[2] = 0 /\ Len(s) <= Base
      /\ s[1] = type /\ \A k \in 3 .. Len(p) + 2 : s[k] = p[k - 2]
  BY <1>1, <1>2, <1>3, Zenon
<1> HIDE DEF c
<1>5. c \in Word /\ \A u, v : Replaced(s, u, v, c) /\ s[v] = 0 => Folded(u) = Base - 1
  <2> HIDE DEF s
  <2> QED BY <1>4, ChecksumVerifies, Zenon DEF c
<1>6. Replaced(s, t, 2, c)
  <2>1. /\ t \in Seq(Word) /\ Len(t) = Len(s) /\ t[2] = c
        /\ t[1] = type /\ \A k \in 3 .. Len(p) + 2 : t[k] = p[k - 2]
    BY <1>3, <1>4, <1>5, Zenon
  <2>2. 2 \in 1 .. Len(s)
    BY <1>1, <1>4
  <2>3. ASSUME NEW k \in 1 .. Len(s), k # 2 PROVE t[k] = s[k]
    <3>1. k = 1 \/ k \in 3 .. Len(p) + 2
      BY <1>1, <1>4, <2>3
    <3> HIDE DEF s, t
    <3> QED BY <1>4, <2>1, <3>1, Zenon
  <2> HIDE DEF s, t
  <2> QED BY <1>4, <2>1, <2>2, <2>3, Zenon DEF Replaced
<1> HIDE DEF s, t
<1>7. Folded(t) = Base - 1
  BY <1>4, <1>5, <1>6, Zenon
<1> QED BY <1>7, Zenon DEF c, s, t

-----------------------------------------------------------------------------
(* dummy-eth.c: dummy_icmp_reply                                           *)

EchoRequest(a, p) == Reflect!Icmp(Reflect!ECHO, a, p)

(* One frame is in flight, request or answer; an echo request is the ping  *)
(* that was sent last, to a peer and with the MAC ARP gave for it, and an  *)
(* answer that is an IP frame was made from it.                            *)
ReflectInv ==
    /\ wire = Reflect!NoFrame \/ rx = Reflect!NoFrame
    /\ \/ wire = Reflect!NoFrame
       \/ \E op, a : wire = Reflect!Arp(op, Reflect!NoMac, OwnIp, a)
       \/ \E a, p : wire = Reflect!Icmp(Reflect!ECHOREPLY, a, p)
       \/ \E a \in Ip, p \in Payload : wire = EchoRequest(a, p) /\ ping = wire
    /\ rx # Reflect!NoFrame /\ rx.proto = "ip" =>
          \E a \in Ip, p \in Payload :
             ping = EchoRequest(a, p) /\ rx = Reflect!dummy_icmp_reply(ping)

(* The fields of a request.                                                *)
LEMMA RequestFields ==
    ASSUME NEW a, NEW p
    PROVE  LET f == EchoRequest(a, p)
           IN  /\ f.proto = "ip" /\ f.protocol = "icmp" /\ f.type = Reflect!ECHO
               /\ f.dest = neigh[a] /\ f.source = OwnMac
               /\ f.saddr = OwnIp /\ f.daddr = a /\ f.payload = p
               /\ DOMAIN f = {"proto", "protocol", "dest", "source", "saddr", "daddr",
                              "type", "payload", "check", "checksum"}
BY DEF EchoRequest, Reflect!Icmp

(* The words of an IP header.                                              *)
LEMMA ReflectHeader ==
    ASSUME NEW f, NEW c
    PROVE  Reflect!IpHeader(f, c) = Header(f.saddr, f.daddr, c)
BY InstanceChecksums, Zenon DEF Reflect!IpHeader, Reflect!IpWords, Header, AddressWords, OctetPair

(* The fields of the answer to it.                                         *)
LEMMA AnswerFields ==
    ASSUME NEW a, NEW p
    PROVE  LET r == Reflect!dummy_icmp_reply(EchoRequest(a, p))
           IN  /\ r.proto = "ip" /\ r.type = Reflect!ECHOREPLY
               /\ r.dest = OwnMac /\ r.source = neigh[a]
               /\ r.saddr = a /\ r.daddr = OwnIp /\ r.payload = p
               /\ r.check = Base - 1 - Folded(Header(a, OwnIp, 0))
               /\ r.checksum = Base - 1 - Folded(<<Reflect!ECHOREPLY, 0>> \o p)
<1> DEFINE f == EchoRequest(a, p)
           r == Reflect!dummy_icmp_reply(f)
<1>1. /\ f.proto = "ip" /\ f.dest = neigh[a] /\ f.source = OwnMac
      /\ f.saddr = OwnIp /\ f.daddr = a /\ f.payload = p
      /\ DOMAIN f = {"proto", "protocol", "dest", "source", "saddr", "daddr",
                     "type", "payload", "check", "checksum"}
  BY RequestFields
<1> HIDE DEF f
<1> DEFINE g == [f EXCEPT !.dest = f.source, !.source = f.dest,
                          !.saddr = f.daddr, !.daddr = f.saddr,
                          !.type = Reflect!ECHOREPLY]
<1>2. /\ g.proto = "ip" /\ g.dest = OwnMac /\ g.source = neigh[a]
      /\ g.saddr = a /\ g.daddr = OwnIp /\ g.type = Reflect!ECHOREPLY /\ g.payload = p
      /\ DOMAIN g = DOMAIN f
  BY <1>1
<1> HIDE DEF g
<1>3. Reflect!Checksum(Reflect!IpHeader(g, 0)) = Base - 1 - Folded(Header(a, OwnIp, 0))
  BY <1>2, ReflectHeader, InstanceChecksums, Zenon
<1>4. Reflect!IcmpCheck(f) = Base - 1 - Folded(<<Reflect!ECHOREPLY, 0>> \o p)
  BY <1>1, InstanceChecksums, Zenon DEF Reflect!IcmpCheck, Reflect!IcmpMessage
<1>5. r = [g EXCEPT !.check = Reflect!Checksum(Reflect!IpHeader(g, 0)),
                    !.checksum = Reflect!IcmpCheck(f)]
  BY Zenon DEF Reflect!dummy_icmp_reply, g
<1> HIDE DEF r
<1>6. /\ r.proto = "ip" /\ r.type = Reflect!ECHOREPLY
      /\ r.dest = OwnMac /\ r.source = neigh[a]
      /\ r.saddr = a /\ r.daddr = OwnIp /\ r.payload = p
      /\ r.check = Base - 1 - Folded(Header(a, OwnIp, 0))
      /\ r.checksum = Base - 1 - Folded(<<Reflect!ECHOREPLY, 0>> \o p)
  BY <1>1, <1>2, <1>3, <1>4, <1>5
<1> QED BY <1>6, Zenon DEF r, f

(* What the kernel finds in the answer.                                    *)
LEMMA AnswerAccepted ==
    ASSUME ReflectInv
    PROVE  EchoAccepted
<1> SUFFICES ASSUME rx # Reflect!NoFrame, rx.proto = "ip"
             PROVE  /\ ping # Reflect!NoFrame
                    /\ rx.dest = OwnMac /\ rx.daddr = OwnIp
                    /\ rx.saddr = ping.daddr /\ rx.source = neigh[rx.saddr]
                    /\ rx.type = Reflect!ECHOREPLY /\ rx.payload = ping.payload
                    /\ Reflect!Verifies(Reflect!IpHeader(rx, rx.check))
                    /\ Reflect!Verifies(Reflect!IcmpMessage(rx, rx.type, rx.checksum))
  BY Zenon DEF EchoAccepted, Reflect!EchoAccepted
<1>1. PICK a \in Ip, p \in Payload :
         ping = EchoRequest(a, p) /\ rx = Reflect!dummy_icmp_reply(ping)
  BY Zenon DEF ReflectInv
<1>2. /\ rx.type = Reflect!ECHOREPLY /\ rx.dest = OwnMac /\ rx.source = neigh[a]
      /\ rx.saddr = a /\ rx.daddr = OwnIp /\ rx.payload = p
      /\ rx.check = Base - 1 - Folded(Header(a, OwnIp, 0))
      /\ rx.checksum = Base - 1 - Folded(<<Reflect!ECHOREPLY, 0>> \o p)
  BY <1>1, AnswerFields
<1>3. ping.daddr = a /\ ping.payload = p /\ ping.proto = "ip"
  BY <1>1, RequestFields
<1>4. ping # Reflect!NoFrame
  BY <1>3 DEF Reflect!NoFrame
<1>5. Reflect!Verifies(Reflect!IpHeader(rx, rx.check))
  <2>1. Reflect!IpHeader(rx, rx.check) = Header(a, OwnIp, rx.check)
    BY <1>2, ReflectHeader, Zenon
  <2>2. a \in Octets /\ OwnIp \in Octets
    BY AddressTypes, Zenon
  <2> QED BY <1>2, <2>1, <2>2, HeaderVerifies, InstanceChecksums
<1>6. Reflect!Verifies(Reflect!IcmpMessage(rx, rx.type, rx.checksum))
  <2>1. Reflect!IcmpMessage(rx, rx.type, rx.checksum)
           = <<Reflect!ECHOREPLY, rx.checksum>> \o p
    BY <1>2, Zenon DEF Reflect!IcmpMessage
  <2>2. Reflect!ECHOREPLY \in Word
    BY WordAssumption DEF Reflect!ECHOREPLY, Word, Base
  <2> QED BY <1>2, <2>1, <2>2, MessageVerifies, InstanceChecksums, Zenon
<1> QED BY <1>2, <1>3, <1>4, <1>5, <1>6, Zenon

(* Every step of kernel and reflector keeps the invariant.                 *)
LEMMA ReflectInvNext ==
    ASSUME ReflectInv, [Reflect!Next]_(Reflect!vars)
    PROVE  ReflectInv'
<1>1. ASSUME UNCHANGED neigh
      PROVE  /\ \A a, p : EchoRequest(a, p)' = EchoRequest(a, p)
             /\ \A type, a, p : Reflect!Icmp(type, a, p)' = Reflect!Icmp(type, a, p)
  BY <1>1 DEF EchoRequest, Reflect!Icmp
<1>2. CASE UNCHANGED Reflect!vars
  <2>1. UNCHANGED <<neigh, ping, wire, rx>>
    BY <1>2, Zenon DEF Reflect!vars
  <2> QED BY <1>1, <2>1, Zenon DEF ReflectInv
<1>3. CASE Reflect!Transmit
  <2>1. UNCHANGED <<neigh, rx>> /\ rx = Reflect!NoFrame
    BY <1>3, Zenon DEF Reflect!Transmit
  <2>2. \/ \E op, a : wire' = Reflect!Arp(op, Reflect!NoMac, OwnIp, a)
        \/ \E a, p : wire' = Reflect!Icmp(Reflect!ECHOREPLY, a, p)
        \/ \E a \in Ip, p \in Payload : wire' = EchoRequest(a, p) /\ ping' = wire'
    BY <1>3, Zenon DEF Reflect!Transmit, Reflect!Peers, Reflect!Resolved, EchoRequest
  <2> QED BY <1>1, <2>1, <2>2, Zenon DEF ReflectInv
<1>4. CASE Reflect!Receive
  <2>1. rx' = Reflect!NoFrame /\ wire' = Reflect!NoFrame
    BY <1>4, Zenon DEF Reflect!Receive, ReflectInv
  <2> QED BY <2>1, Zenon DEF ReflectInv
<1>5. CASE Reflect!dummy_eth_rx
  <2>1. wire # Reflect!NoFrame /\ wire' = Reflect!NoFrame /\ UNCHANGED <<neigh, ping>>
    BY <1>5, Zenon DEF Reflect!dummy_eth_rx
  <2>2. rx = Reflect!NoFrame
    BY <2>1, Zenon DEF ReflectInv
  <2>3. rx' = CASE Reflect!IsArpRequest(wire) -> Reflect!dummy_arp_reply(wire)
                [] Reflect!IsEchoRequest(wire) -> Reflect!dummy_icmp_reply(wire)
                [] OTHER -> rx
    BY <1>5, Zenon DEF Reflect!dummy_eth_rx
  <2>4. ASSUME rx' # Reflect!NoFrame, rx'.proto = "ip"
        PROVE  \E a \in Ip, p \in Payload :
                  ping = EchoRequest(a, p) /\ rx' = Reflect!dummy_icmp_reply(ping)
    <3>1. ASSUME NEW op, NEW a, wire = Reflect!Arp(op, Reflect!NoMac, OwnIp, a)
          PROVE  FALSE
      <4>1. wire.proto = "arp" /\ "proto" \in DOMAIN wire
        BY <3>1 DEF Reflect!Arp
      <4>2. ~Reflect!IsEchoRequest(wire)
        BY <4>1, Zenon DEF Reflect!IsEchoRequest
      <4>3. Reflect!dummy_arp_reply(wire).proto = "arp"
        BY <4>1 DEF Reflect!dummy_arp_reply
      <4>4. rx' = Reflect!dummy_arp_reply(wire) \/ rx' = rx
        BY <2>3, <4>2
      <4> QED BY <2>2, <2>4, <4>3, <4>4
    <3>2. ASSUME NEW a, NEW p, wire = Reflect!Icmp(Reflect!ECHOREPLY, a, p)
          PROVE  FALSE
      <4>1. wire.proto = "ip" /\ wire.type = Reflect!ECHOREPLY
        BY <3>2 DEF Reflect!Icmp
      <4>2. ~Reflect!IsEchoRequest(wire) /\ ~Reflect!IsArpRequest(wire)
        BY <4>1 DEF Reflect!IsEchoRequest, Reflect!IsArpRequest, Reflect!ECHO, Reflect!ECHOREPLY
      <4>3. rx' = rx
        BY <2>3, <4>2
      <4> QED BY <2>2, <2>4, <4>3
    <3>3. ASSUME NEW a \in Ip, NEW p \in Payload, wire = EchoRequest(a, p), ping = wire
          PROVE  rx' = Reflect!dummy_icmp_reply(ping)
      <4>1. wire.proto = "ip" /\ wire.protocol = "icmp" /\ wire.type = Reflect!ECHO
        BY <3>3, RequestFields
      <4>2. Reflect!IsEchoRequest(wire) /\ ~Reflect!IsArpRequest(wire)
        BY <4>1 DEF Reflect!IsEchoRequest, Reflect!IsArpRequest
      <4> QED BY <2>3, <3>3, <4>2
    <3> QED BY <2>1, <3>1, <3>2, <3>3, Zenon DEF ReflectInv
  <2>5. ASSUME NEW a, NEW p, ping = EchoRequest(a, p), rx' = Reflect!dummy_icmp_reply(ping)
        PROVE  ping' = EchoRequest(a, p)' /\ rx' = Reflect!dummy_icmp_reply(ping)'
    BY <1>1, <2>1, <2>5, Zenon
  <2> QED BY <2>1, <2>4, <2>5, Zenon DEF ReflectInv
<1> QED BY <1>2, <1>3, <1>4, <1>5, Zenon DEF Reflect!Next

(* dummy_icmp_reply, for every address, payload and width of words: the    *)
(* kernel accepts whatever answer it is given to a ping.                   *)
THEOREM RepliesAccepted == Reflect!Spec => []EchoAccepted
<1>1. Reflect!Init => ReflectInv
  BY Zenon DEF Reflect!Init, ReflectInv
<1>2. ReflectInv /\ [Reflect!Next]_(Reflect!vars) => ReflectInv'
  BY ReflectInvNext, Zenon
<1>3. ReflectInv => EchoAccepted
  BY AnswerAccepted, Zenon
<1> QED BY <1>1, <1>2, <1>3, PTL DEF Reflect!Spec
-----------------------------------------------------------------------------
(* snull.c: snull_hw_tx and the addresses                                  *)

(* An address with its third octet flipped, the hardware address snull_open*)
(* gives an interface, and an address of test.sh.                          *)
Alias(a) == [a EXCEPT ![3] = Aliases!Xor1(@)]
SnulMac(d) == <<0, 83, 78, 85, 76, 48 + d>>

Private(n, h) == <<192, 168, n, h>>

FrameFields == {"kind", "dev", "len", "source", "dest", "saddr", "daddr", "check"}

(* The frame f is on its way from one address to the other, at interface d *)
(* and with the hardware addresses s and t.                                *)
Framed(f, kind, d, s, t, from, to) ==
    /\ DOMAIN f = FrameFields
    /\ f.kind = kind /\ f.dev = d /\ f.source = s /\ f.dest = t
    /\ f.saddr = from /\ f.daddr = to

(* The two interfaces are in networks that are each other's alias, with    *)
(* different fourth octets, as test.sh sets them up.                       *)
Addressed ==
    \E n \in Net, h, g \in Host :
       h # g /\ ip = [d \in {0, 1} |-> IF d = 0 THEN Private(n, h)
                                       ELSE Private(Aliases!Xor1(n), g)]

(* A request goes from an interface to the address pinged, a reply from an *)
(* interface to its twin's alias.                                          *)
OnHop ==
    \E d \in {0, 1} :
       \/ /\ \E h \in Host : pinged = [ip[d] EXCEPT ![4] = h]
          /\ Framed(hop, "echo", d, SnulMac(d), SnulMac(1 - d), ip[d], pinged)
       \/ /\ pinged = Alias(ip[d])
          /\ Framed(hop, "reply", d, SnulMac(d), SnulMac(1 - d), ip[d], Alias(ip[1 - d]))

(* Across the wire: seen from interface d, either comes from its twin's    *)
(* alias, and a reply goes to the interface that pinged.                   *)
Across ==
    \E d \in {0, 1} :
       \/ /\ \E h \in Host : pinged = [ip[1 - d] EXCEPT ![4] = h]
          /\ Framed(arrived, "echo", d, SnulMac(1 - d), SnulMac(d),
                    Alias(ip[1 - d]), Alias(pinged))
       \/ /\ pinged = Alias(ip[1 - d])
          /\ Framed(arrived, "reply", d, SnulMac(1 - d), SnulMac(d), pinged, ip[d])

AliasInv ==
    /\ Addressed
    /\ DOMAIN mac = {0, 1}
    /\ hop = Aliases!NoFrame \/ arrived = Aliases!NoFrame
    /\ \A d \in {0, 1} :
          \/ mac[d] = SnulMac(d)
          \/ mac[d] = <<0, 0, 0, 0, 0, 0>> /\ hop = Aliases!NoFrame /\ arrived = Aliases!NoFrame
    /\ hop # Aliases!NoFrame => OnHop
    /\ arrived # Aliases!NoFrame =>
          Across /\ arrived.check = Aliases!Checksum(Aliases!IpHeader(arrived, 0))

(* What snull_hw_tx hands to the twin is for the twin's hardware address,  *)
(* its header verifies, it seems to come from a host of the twin's own     *)
(* network that is neither interface, and it is for the twin whenever the  *)
(* twin's alias was pinged; a reply is for the twin and comes from the     *)
(* address that was pinged.                                                *)
HandedOver ==
    arrived # Aliases!NoFrame =>
       LET d == arrived.dev
       IN  /\ arrived.dest = mac[d]
           /\ Aliases!Verifies(Aliases!IpHeader(arrived, arrived.check))
           /\ Aliases!SameNet(arrived.saddr, ip[d]) /\ ~Aliases!Local(arrived.saddr)
           /\ arrived.kind = "echo" /\ pinged = Alias(ip[d]) => arrived.daddr = ip[d]
           /\ arrived.kind = "reply" => arrived.saddr = pinged /\ arrived.daddr = ip[d]

(* Flipping the third octet twice gives the address back, and flipping it  *)
(* once gives another.                                                     *)
LEMMA AliasTwice ==
    ASSUME NEW a \in Octets
    PROVE  /\ Alias(a) \in Octets /\ Alias(Alias(a)) = a
           /\ Alias(a)[1] = a[1] /\ Alias(a)[2] = a[2] /\ Alias(a)[4] = a[4]
           /\ Alias(a)[3] = Aliases!Xor1(a[3]) /\ Alias(a)[3] # a[3]
<1>1. ASSUME NEW x \in Octet
      PROVE  /\ Aliases!Xor1(x) \in Octet /\ Aliases!Xor1(x) # x
             /\ Aliases!Xor1(Aliases!Xor1(x)) = x
  BY <1>1 DEF Aliases!Xor1, Octet
<1> DEFINE b == [a EXCEPT ![3] = Aliases!Xor1(a[3])]
<1>2. b = Alias(a)
  BY Zenon DEF Alias
<1>3. a[3] \in Octet /\ 3 \in 1 .. 4
  BY DEF Octets
<1>4. /\ b \in Octets /\ b[1] = a[1] /\ b[2] = a[2] /\ b[4] = a[4]
      /\ b[3] = Aliases!Xor1(a[3])
  <2> DEFINE y == Aliases!Xor1(a[3])
  <2>1. y \in Octet
    BY <1>1, <1>3, Zenon
  <2> HIDE DEF y
  <2>2. [a EXCEPT ![3] = y] \in [1 .. 4 -> Octet]
    BY <2>1, Zenon DEF Octets
  <2>3. \A i \in 1 .. 4 : [a EXCEPT ![3] = y][i] = IF i = 3 THEN y ELSE a[i]
    BY Zenon DEF Octets
  <2> QED BY <2>2, <2>3 DEF y, Octets
<1> HIDE DEF b
<1>5. [b EXCEPT ![3] = Aliases!Xor1(b[3])] = a
  <2> DEFINE c == [b EXCEPT ![3] = Aliases!Xor1(b[3])]
  <2>1. Aliases!Xor1(b[3]) = a[3]
    BY <1>1, <1>3, <1>4, Zenon
  <2>2. c \in [1 .. 4 -> Octet] /\ \A i \in 1 .. 4 : c[i] = a[i]
    BY <1>3, <1>4, <2>1 DEF Octets
  <2> HIDE DEF c
  <2>3. c = a
    BY <2>2 DEF Octets
  <2> QED BY <2>3, Zenon DEF c
<1>6. Alias(b) = [b EXCEPT ![3] = Aliases!Xor1(b[3])]
  BY Zenon DEF Alias
<1> QED BY <1>1, <1>2, <1>3, <1>4, <1>5, <1>6, Zenon

(* Two addresses are in one network when three octets agree.               *)
LEMMA SameNets ==
    ASSUME NEW a \in Octets, NEW b \in Octets
    PROVE  /\ a[1] = b[1] /\ a[2] = b[2] /\ a[3] = b[3] => Aliases!SameNet(a, b)
           /\ Aliases!SameNet(a, b) => a[3] = b[3]
<1>1. ASSUME NEW o \in Octets
      PROVE  /\ SubSeq(o, 1, 3) \in Seq(Octet) /\ Len(SubSeq(o, 1, 3)) = 3
             /\ \A i \in 1 .. 3 : SubSeq(o, 1, 3)[i] = o[i]
  <2>1. \A i \in 1 .. 3 : o[i] \in Octet
    BY DEF Octets
  <2>2. /\ SubSeq(o, 1, 3) \in Seq(Octet)
        /\ Len(SubSeq(o, 1, 3)) = IF 1 <= 3 THEN 3 - 1 + 1 ELSE 0
        /\ \A i \in 1 .. 3 - 1 + 1 : SubSeq(o, 1, 3)[i] = o[1 + i - 1]
    <3>1. 1 \in Int /\ 3 \in Int
      OBVIOUS
    <3> QED BY <2>1, <3>1, SubSeqProperties
  <2> QED BY <2>2
<1> DEFINE s == SubSeq(a, 1, 3)
           t == SubSeq(b, 1, 3)
<1>2. /\ s \in Seq(Octet) /\ Len(s) = 3 /\ \A i \in 1 .. 3 : s[i] = a[i]
      /\ t \in Seq(Octet) /\ Len(t) = 3 /\ \A i \in 1 .. 3 : t[i] = b[i]
  BY <1>1, Zenon
<1>3. Aliases!SameNet(a, b) <=> s = t
  BY Zenon DEF Aliases!SameNet
<1> HIDE DEF s, t
<1>4. s = t => a[3] = b[3]
  BY <1>2
<1>5. ASSUME a[1] = b[1], a[2] = b[2], a[3] = b[3] PROVE s = t
  <2>1. \A i \in 1 .. Len(s) : s[i] = t[i]
    BY <1>2, <1>5
  <2> QED BY <1>2, <2>1, SeqEqual
<1> QED BY <1>3, <1>4, <1>5, Zenon

(* The addresses of the two interfaces.                                    *)
LEMMA Addresses ==
    ASSUME Addressed, NEW d \in {0, 1}
    PROVE  /\ 1 - d \in {0, 1} /\ 1 - d # d /\ 1 - (1 - d) = d
           /\ ip[d] \in Octets /\ ip[1 - d] \in Octets
           /\ ip[d][1] = ip[1 - d][1] /\ ip[d][2] = ip[1 - d][2]
           /\ ip[d][3] = Aliases!Xor1(ip[1 - d][3]) /\ ip[d][4] # ip[1 - d][4]
<1>1. PICK n \in Net, h \in Host, g \in Host :
         h # g /\ ip = [e \in {0, 1} |-> IF e = 0 THEN Private(n, h)
                                         ELSE Private(Aliases!Xor1(n), g)]
  BY Zenon DEF Addressed
<1>2. n \in Octet /\ h \in Octet /\ g \in Octet
  BY AddressTypes, Zenon
<1>3. Aliases!Xor1(n) \in Octet /\ Aliases!Xor1(Aliases!Xor1(n)) = n
  BY <1>2 DEF Aliases!Xor1, Octet
<1> DEFINE m == Aliases!Xor1(n)
           a == Private(n, h)
           b == Private(m, g)
<1>4. /\ a \in Octets /\ b \in Octets /\ a[1] = b[1] /\ a[2] = b[2]
      /\ a[3] = n /\ a[4] = h /\ b[3] = m /\ b[4] = g
  <2>1. m \in Octet
    BY <1>3, Zenon
  <2> HIDE DEF m
  <2> QED BY <1>2, <2>1 DEF Octets, Octet, Private
<1>5. ip[0] = a /\ ip[1] = b
  BY <1>1
<1> HIDE DEF a, b
<1>6. /\ ip[0] \in Octets /\ ip[1] \in Octets /\ ip[0][1] = ip[1][1] /\ ip[0][2] = ip[1][2]
      /\ ip[0][3] = Aliases!Xor1(ip[1][3]) /\ ip[1][3] = Aliases!Xor1(ip[0][3])
      /\ ip[0][4] # ip[1][4]
  <2>1. m = Aliases!Xor1(n) /\ n = Aliases!Xor1(m)
    BY <1>3, Zenon
  <2> HIDE DEF m
  <2> QED BY <1>1, <1>4, <1>5, <2>1, Zenon
<1>7. (d = 0 /\ 1 - d = 1) \/ (d = 1 /\ 1 - d = 0)
  <2>1. 1 - 0 = 1 /\ 1 - 1 = 0
    OBVIOUS
  <2> QED BY <2>1, Zenon
<1>8. 1 - d \in {0, 1} /\ 1 - d # d /\ 1 - (1 - d) = d
  OBVIOUS
<1> DEFINE e == 1 - d
<1>9. /\ ip[d] \in Octets /\ ip[e] \in Octets /\ ip[d][1] = ip[e][1] /\ ip[d][2] = ip[e][2]
      /\ ip[d][3] = Aliases!Xor1(ip[e][3]) /\ ip[d][4] # ip[e][4]
  <2>1. (d = 0 /\ e = 1) \/ (d = 1 /\ e = 0)
    BY <1>7, Zenon
  <2> HIDE DEF e
  <2>2. CASE d = 0 /\ e = 1
    BY <1>6, <2>2, Zenon
  <2>3. CASE d = 1 /\ e = 0
    BY <1>6, <2>3, Zenon
  <2> QED BY <2>1, <2>2, <2>3, Zenon
<1> QED BY <1>8, <1>9, Zenon

(* The alias of the twin is in the interface's own network, and the twin   *)
(* itself is not; the alias is the address of neither.                     *)
LEMMA TwinAlias ==
    ASSUME Addressed, NEW d \in {0, 1}
    PROVE  /\ Aliases!SameNet(ip[d], Alias(ip[1 - d]))
           /\ Aliases!SameNet(Alias(ip[1 - d]), ip[d])
           /\ ~Aliases!SameNet(ip[1 - d], Alias(ip[1 - d]))
           /\ ~Aliases!Local(Alias(ip[1 - d]))
           /\ \A h \in Host : /\ Aliases!SameNet(ip[d], [ip[d] EXCEPT ![4] = h])
                              /\ ~Aliases!SameNet(ip[1 - d], [ip[d] EXCEPT ![4] = h])
<1> DEFINE a == Alias(ip[1 - d])
<1>1. /\ ip[d] \in Octets /\ ip[1 - d] \in Octets
      /\ ip[d][1] = ip[1 - d][1] /\ ip[d][2] = ip[1 - d][2]
      /\ ip[d][3] = Aliases!Xor1(ip[1 - d][3]) /\ ip[d][4] # ip[1 - d][4]
  BY Addresses, Zenon
<1>2. /\ a \in Octets /\ a[1] = ip[d][1] /\ a[2] = ip[d][2] /\ a[3] = ip[d][3]
      /\ a[4] # ip[d][4] /\ a[3] # ip[1 - d][3] /\ ip[d][3] # ip[1 - d][3]
  BY <1>1, AliasTwice
<1> HIDE DEF a
<1>3. /\ Aliases!SameNet(ip[d], a) /\ Aliases!SameNet(a, ip[d])
      /\ ~Aliases!SameNet(ip[1 - d], a)
  BY <1>1, <1>2, SameNets, Zenon
<1>4. ~Aliases!Local(a)
  <2>1. \A e \in {0, 1} : e = d \/ e = 1 - d
    OBVIOUS
  <2> QED BY <1>2, <2>1, Zenon DEF Aliases!Local, Aliases!Dev
<1>5. ASSUME NEW h \in Host
      PROVE  /\ Aliases!SameNet(ip[d], [ip[d] EXCEPT ![4] = h])
             /\ ~Aliases!SameNet(ip[1 - d], [ip[d] EXCEPT ![4] = h])
  <2> DEFINE b == [ip[d] EXCEPT ![4] = h]
  <2>1. h \in Octet
    BY AddressTypes, Zenon
  <2>2. b \in Octets /\ b[1] = ip[d][1] /\ b[2] = ip[d][2] /\ b[3] = ip[d][3]
    <3>1. \A i \in 1 .. 4 : b[i] = IF i = 4 THEN h ELSE ip[d][i]
      BY <1>1, Zenon DEF Octets
    <3>2. b \in [1 .. 4 -> Octet]
      BY <1>1, <2>1, Zenon DEF Octets
    <3> HIDE DEF b
    <3> QED BY <3>1, <3>2 DEF Octets
  <2> HIDE DEF b
  <2>3. Aliases!SameNet(ip[d], b) /\ ~Aliases!SameNet(ip[1 - d], b)
    BY <1>1, <1>2, <2>2, SameNets, Zenon
  <2> QED BY <2>3, Zenon DEF b
<1> QED BY <1>3, <1>4, <1>5, Zenon DEF a

(* Flipping the last octet of an interface's hardware address gives its    *)
(* twin's.                                                                 *)
LEMMA TwinMac ==
    ASSUME NEW d \in {0, 1}
    PROVE  [SnulMac(d) EXCEPT ![6] = Aliases!Xor1(SnulMac(d)[6])] = SnulMac(1 - d)
<1>1. SnulMac(d)[6] = 48 + d
  BY DEF SnulMac
<1>2. Aliases!Xor1(48 + d) = 48 + (1 - d)
  <2>1. Aliases!Xor1(48) = 49 /\ Aliases!Xor1(49) = 48
    BY DEF Aliases!Xor1
  <2>2. (d = 0 /\ 48 + d = 48 /\ 48 + (1 - d) = 49) \/ (d = 1 /\ 48 + d = 49 /\ 48 + (1 - d) = 48)
    OBVIOUS
  <2> QED BY <2>1, <2>2, Zenon
<1> DEFINE x == 48 + d
           y == 48 + (1 - d)
<1> HIDE DEF x, y
<1>3. [<<0, 83, 78, 85, 76, x>> EXCEPT ![6] = y] = <<0, 83, 78, 85, 76, y>>
  OBVIOUS
<1> QED BY <1>1, <1>2, <1>3, Zenon DEF SnulMac, x, y

(* A datagram leaves through the interface whose network it is for.        *)
LEMMA DatagramFramed ==
    ASSUME NEW kind, NEW from, NEW to, NEW len, NEW d \in {0, 1},
           Aliases!SameNet(ip[d], to), ~Aliases!SameNet(ip[1 - d], to), mac[d] = SnulMac(d)
    PROVE  Framed(Aliases!Datagram(kind, from, to, len), kind, d,
                  SnulMac(d), SnulMac(1 - d), from, to)
<1>1. (CHOOSE e \in {0, 1} : Aliases!SameNet(ip[e], to)) = d
  <2>1. \A e \in {0, 1} : e = d \/ e = 1 - d
    OBVIOUS
  <2>2. \A e \in {0, 1} : Aliases!SameNet(ip[e], to) => e = d
    BY <2>1, Zenon
  <2> QED BY <2>2, Zenon
<1> DEFINE f == [kind |-> kind, dev |-> d, len |-> len, source |-> <<>>, dest |-> <<>>,
                 saddr |-> from, daddr |-> to, check |-> 0]
           c == Aliases!Checksum(Aliases!IpHeader(f, 0))
           g == [f EXCEPT !.check = c]
<1>2. Aliases!Datagram(kind, from, to, len) = Aliases!snull_header(g, d)
  BY <1>1, Zenon DEF Aliases!Datagram, Aliases!Dev
<1>3. /\ DOMAIN f = FrameFields /\ f.kind = kind /\ f.dev = d
      /\ f.saddr = from /\ f.daddr = to
  BY DEF FrameFields
<1> HIDE DEF f, c
<1>4. /\ DOMAIN g = FrameFields /\ g.kind = kind /\ g.dev = d
      /\ g.saddr = from /\ g.daddr = to
  BY <1>3 DEF FrameFields
<1> HIDE DEF g
<1>5. Aliases!snull_header(g, d) = [g EXCEPT !.source = SnulMac(d), !.dest = SnulMac(1 - d)]
  BY TwinMac, Zenon DEF Aliases!snull_header
<1> DEFINE s == SnulMac(d)
           t == SnulMac(1 - d)
           h == [g EXCEPT !.source = s, !.dest = t]
<1> HIDE DEF s, t
<1>6. /\ DOMAIN h = FrameFields /\ h.kind = kind /\ h.dev = d /\ h.source = s
      /\ h.dest = t /\ h.saddr = from /\ h.daddr = to
  BY <1>4 DEF FrameFields
<1> HIDE DEF h
<1>7. Framed(h, kind, d, s, t, from, to)
  BY <1>6, Zenon DEF Framed
<1> QED BY <1>2, <1>5, <1>7, Zenon DEF h, s, t

(* snull_hw_tx flips both addresses, stores the header's checksum and      *)
(* gives the frame to the twin.                                            *)
LEMMA HandsOver ==
    ASSUME NEW kind, NEW d, NEW s, NEW t, NEW from, NEW to,
           Framed(hop, kind, d, s, t, from, to),
           Aliases!snull_hw_tx, ~Aliases!TooShort(hop)
    PROVE  /\ Framed(arrived', kind, 1 - d, s, t, Alias(from), Alias(to))
           /\ arrived'.check = Aliases!Checksum(Aliases!IpHeader(arrived', 0))
<1> DEFINE f == Aliases!Rewrite(hop)
           c == Aliases!ip_header_check(f)
           a == Alias(from)
           b == Alias(to)
<1>1. arrived' = [f EXCEPT !.check = c, !.dev = 1 - f.dev]
  BY Zenon DEF Aliases!snull_hw_tx, Aliases!Twin
<1>2. /\ DOMAIN hop = FrameFields /\ hop.kind = kind /\ hop.dev = d
      /\ hop.source = s /\ hop.dest = t /\ hop.saddr = from /\ hop.daddr = to
  BY Zenon DEF Framed
<1>3. f = [hop EXCEPT !.saddr = a, !.daddr = b]
  BY <1>2, Zenon DEF Aliases!Rewrite, Alias
<1> HIDE DEF f, a, b
<1>4. /\ DOMAIN f = FrameFields /\ f.kind = kind /\ f.dev = d /\ f.source = s
      /\ f.dest = t /\ f.saddr = a /\ f.daddr = b
  BY <1>2, <1>3 DEF FrameFields
<1> HIDE DEF c
<1> DEFINE g == [f EXCEPT !.check = c, !.dev = 1 - d]
<1>5. arrived' = g
  BY <1>1, <1>4, Zenon
<1>6. /\ DOMAIN g = FrameFields /\ g.kind = kind /\ g.dev = 1 - d /\ g.source = s
      /\ g.dest = t /\ g.saddr = a /\ g.daddr = b /\ g.check = c
  BY <1>4 DEF FrameFields
<1> HIDE DEF g
<1>7. Framed(g, kind, 1 - d, s, t, a, b)
  BY <1>6, Zenon DEF Framed
<1>8. c = Aliases!Checksum(Aliases!IpHeader(g, 0))
  BY <1>4, <1>6, Zenon DEF c, Aliases!ip_header_check, Aliases!IpHeader
<1> QED BY <1>5, <1>6, <1>7, <1>8, Zenon DEF a, b

(* What the invariant says of a frame that is handed over.                 *)
LEMMA AcceptedByTwin ==
    ASSUME AliasInv
    PROVE  HandedOver
<1> SUFFICES ASSUME arrived # Aliases!NoFrame
             PROVE  LET d == arrived.dev
                    IN  /\ arrived.dest = mac[d]
                        /\ Aliases!Verifies(Aliases!IpHeader(arrived, arrived.check))
                        /\ Aliases!SameNet(arrived.saddr, ip[d])
                        /\ ~Aliases!Local(arrived.saddr)
                        /\ arrived.kind = "echo" /\ pinged = Alias(ip[d]) => arrived.daddr = ip[d]
                        /\ arrived.kind = "reply" => arrived.saddr = pinged /\ arrived.daddr = ip[d]
  BY Zenon DEF HandedOver
<1>1. /\ Across /\ arrived.check = Aliases!Checksum(Aliases!IpHeader(arrived, 0)) /\ Addressed
      /\ \A d \in {0, 1} : mac[d] = SnulMac(d)
  BY Zenon DEF AliasInv
<1>2. PICK d \in {0, 1} :
         \/ /\ \E h \in Host : pinged = [ip[1 - d] EXCEPT ![4] = h]
            /\ Framed(arrived, "echo", d, SnulMac(1 - d), SnulMac(d),
                      Alias(ip[1 - d]), Alias(pinged))
         \/ /\ pinged = Alias(ip[1 - d])
            /\ Framed(arrived, "reply", d, SnulMac(1 - d), SnulMac(d), pinged, ip[d])
  BY <1>1, Zenon DEF Across
<1>3. arrived.dev = d /\ arrived.dest = mac[d] /\ arrived.saddr = Alias(ip[1 - d])
  BY <1>1, <1>2, Zenon DEF Framed
<1>4. Aliases!SameNet(arrived.saddr, ip[d]) /\ ~Aliases!Local(arrived.saddr)
  BY <1>1, <1>3, TwinAlias, Zenon
<1>5. ip[d] \in Octets /\ ip[1 - d] \in Octets
  BY <1>1, Addresses, Zenon
<1>6. /\ arrived.kind = "echo" /\ pinged = Alias(ip[d]) => arrived.daddr = ip[d]
      /\ arrived.kind = "reply" => arrived.saddr = pinged /\ arrived.daddr = ip[d]
  <2>1. "echo" # "reply"
    OBVIOUS
  <2> QED BY <1>2, <1>5, <2>1, AliasTwice, Zenon DEF Framed
<1>7. Aliases!Verifies(Aliases!IpHeader(arrived, arrived.check))
  <2>1. ASSUME NEW c PROVE Aliases!IpHeader(arrived, c) = Header(arrived.saddr, arrived.daddr, c)
    BY InstanceChecksums, Zenon DEF Aliases!IpHeader, Aliases!IpWords, Header, AddressWords,
            OctetPair
  <2>2. arrived.saddr \in Octets
    BY <1>3, <1>5, AliasTwice, Zenon
  <2>3. arrived.daddr \in Octets
    <3>1. ASSUME NEW h \in Host PROVE [ip[1 - d] EXCEPT ![4] = h] \in Octets
      <4>1. h \in Octet
        BY AddressTypes, Zenon
      <4> QED BY <1>5, <4>1, Zenon DEF Octets
    <3> QED BY <1>2, <1>5, <3>1, AliasTwice, Zenon DEF Framed
  <2>4. arrived.check = Base - 1 - Folded(Header(arrived.saddr, arrived.daddr, 0))
    BY <1>1, <2>1, InstanceChecksums, Zenon
  <2> QED BY <2>1, <2>2, <2>3, <2>4, HeaderVerifies, InstanceChecksums
<1> QED BY <1>3, <1>4, <1>6, <1>7, Zenon

(* The host accepts an echo request only as the twin whose alias it is     *)
(* for, so that its reply goes to the other's alias.                       *)
LEMMA RequestIsForTwin ==
    ASSUME Addressed, NEW d \in {0, 1}, NEW h \in Host,
           Aliases!Local(Alias([ip[1 - d] EXCEPT ![4] = h]))
    PROVE  /\ Alias([ip[1 - d] EXCEPT ![4] = h]) = ip[d]
           /\ [ip[1 - d] EXCEPT ![4] = h] = Alias(ip[d])
<1> DEFINE a == [ip[1 - d] EXCEPT ![4] = h]
<1>1. ip[d] \in Octets /\ ip[1 - d] \in Octets
  BY Addresses, Zenon
<1>2. a \in Octets /\ a[3] = ip[1 - d][3]
  <2>1. h \in Octet /\ 3 \in 1 .. 4 /\ 3 # 4
    BY AddressTypes
  <2> QED BY <1>1, <2>1, Zenon DEF Octets
<1> HIDE DEF a
<1>3. Alias(a) # ip[1 - d] /\ Alias(Alias(a)) = a
  BY <1>2, AliasTwice
<1>4. \A e \in {0, 1} : e = d \/ e = 1 - d
  OBVIOUS
<1>5. Aliases!Local(Alias(a))
  BY Zenon DEF a
<1>6. Alias(a) = ip[d]
  BY <1>3, <1>4, <1>5, Zenon DEF Aliases!Local, Aliases!Dev
<1> QED BY <1>3, <1>6, Zenon DEF a

(* Every step of host and driver keeps the invariant.                      *)
LEMMA AliasInvNext ==
    ASSUME AliasInv, [Aliases!Next]_(Aliases!vars)
    PROVE  AliasInv'
<1> USE DEF Aliases!Dev
<1>1. ASSUME UNCHANGED ip PROVE Addressed'
  <2>1. Addressed
    BY Zenon DEF AliasInv
  <2> QED BY <1>1, <2>1, SMT DEF Addressed
<1>2. ASSUME UNCHANGED <<ip, pinged, hop>>, OnHop PROVE OnHop'
  BY <1>2, Zenon DEF OnHop, Framed
<1>3. CASE UNCHANGED Aliases!vars
  <2>1. UNCHANGED <<ip, mac, pinged, hop, arrived>>
    BY <1>3, Zenon DEF Aliases!vars
  <2>2. Across => Across'
    BY <2>1, Zenon DEF Across, Framed
  <2>3. Aliases!Checksum(Aliases!IpHeader(arrived, 0))'
           = Aliases!Checksum(Aliases!IpHeader(arrived, 0))
    BY <2>1, Zenon
  <2> QED BY <1>1, <1>2, <2>1, <2>2, <2>3 DEF AliasInv
<1>4. ASSUME NEW d \in {0, 1}, Aliases!snull_open(d) PROVE AliasInv'
  <2>1. /\ hop = Aliases!NoFrame /\ arrived = Aliases!NoFrame /\ UNCHANGED <<ip, hop, arrived>>
        /\ mac' = [mac EXCEPT ![d] = SnulMac(d)]
    BY <1>4, Zenon DEF Aliases!snull_open, SnulMac
  <2>2. DOMAIN mac' = {0, 1} /\ \A e \in {0, 1} : mac'[e] = SnulMac(e) \/ mac'[e] = mac[e]
    BY <2>1, Zenon DEF AliasInv
  <2> QED BY <1>1, <2>1, <2>2, Zenon DEF AliasInv
<1>5. ASSUME NEW d \in {0, 1}, NEW h \in Host, NEW len, Aliases!Ping(d, h, len) PROVE AliasInv'
  <2> DEFINE to == [ip[d] EXCEPT ![4] = h]
  <2>1. /\ arrived = Aliases!NoFrame /\ UNCHANGED <<ip, mac, arrived>>
        /\ \A e \in {0, 1} : mac[e][2] # 0
        /\ pinged' = to /\ hop' = Aliases!Datagram("echo", ip[d], to, len)
    BY <1>5, Zenon DEF Aliases!Ping
  <2>2. \A e \in {0, 1} : mac[e] = SnulMac(e)
    <3>1. <<0, 0, 0, 0, 0, 0>>[2] = 0
      OBVIOUS
    <3> QED BY <2>1, <3>1, Zenon DEF AliasInv
  <2>3. Aliases!SameNet(ip[d], to) /\ ~Aliases!SameNet(ip[1 - d], to)
    BY TwinAlias, Zenon DEF AliasInv
  <2>4. Framed(hop', "echo", d, SnulMac(d), SnulMac(1 - d), ip[d], to)
    BY <2>1, <2>2, <2>3, DatagramFramed, Zenon
  <2>5. OnHop'
    BY <2>1, <2>4, Zenon DEF OnHop, Framed
  <2> QED BY <1>1, <2>1, <2>2, <2>5, Zenon DEF AliasInv
<1>6. CASE Aliases!snull_hw_tx
  <2>1. /\ hop # Aliases!NoFrame /\ hop' = Aliases!NoFrame /\ UNCHANGED <<ip, mac, pinged>>
        /\ arrived = Aliases!NoFrame /\ OnHop /\ Addressed
        /\ \A e \in {0, 1} : mac[e] = SnulMac(e)
    BY <1>6, Zenon DEF Aliases!snull_hw_tx, AliasInv
  <2>2. CASE Aliases!TooShort(hop)
    <3>1. arrived' = Aliases!NoFrame
      BY <1>6, <2>1, <2>2, Zenon DEF Aliases!snull_hw_tx
    <3> QED BY <1>1, <2>1, <3>1, Zenon DEF AliasInv
  <2>3. CASE ~Aliases!TooShort(hop)
    <3>1. PICK d \in {0, 1} :
             \/ /\ \E h \in Host : pinged = [ip[d] EXCEPT ![4] = h]
                /\ Framed(hop, "echo", d, SnulMac(d), SnulMac(1 - d), ip[d], pinged)
             \/ /\ pinged = Alias(ip[d])
                /\ Framed(hop, "reply", d, SnulMac(d), SnulMac(1 - d), ip[d], Alias(ip[1 - d]))
      BY <2>1, Zenon DEF OnHop
    <3> DEFINE e == 1 - d
    <3>2. e \in {0, 1} /\ 1 - e = d /\ ip[e] \in Octets
      BY <2>1, Addresses, Zenon
    <3> HIDE DEF e
    <3>3. Alias(Alias(ip[e])) = ip[e]
      BY <3>2, AliasTwice, Zenon
    <3>4. \/ /\ \E h \in Host : pinged = [ip[d] EXCEPT ![4] = h]
             /\ Framed(arrived', "echo", e, SnulMac(d), SnulMac(e), Alias(ip[d]), Alias(pinged))
          \/ /\ pinged = Alias(ip[d])
             /\ Framed(arrived', "reply", e, SnulMac(d), SnulMac(e), Alias(ip[d]), ip[e])
      BY <1>6, <2>3, <3>1, <3>3, HandsOver, Zenon DEF e
    <3>5. Across'
      BY <2>1, <3>2, <3>4, Zenon DEF Across, Framed, Alias
    <3>6. arrived'.check = Aliases!Checksum(Aliases!IpHeader(arrived', 0))
      BY <1>6, <2>3, <3>1, HandsOver, Zenon
    <3>7. (arrived.check = Aliases!Checksum(Aliases!IpHeader(arrived, 0)))'
      BY <3>6, Zenon
    <3> QED BY <1>1, <2>1, <3>5, <3>7, Zenon DEF AliasInv
  <2> QED BY <2>2, <2>3, Zenon
<1>7. CASE Aliases!Receive
  <2>1. /\ arrived # Aliases!NoFrame /\ arrived' = Aliases!NoFrame /\ UNCHANGED <<ip, mac, pinged>>
        /\ hop = Aliases!NoFrame /\ Across /\ Addressed
        /\ \A e \in {0, 1} : mac[e] = SnulMac(e)
    BY <1>7, Zenon DEF Aliases!Receive, AliasInv
  <2>2. ASSUME hop' # Aliases!NoFrame PROVE OnHop'
    <3>1. /\ arrived.kind = "echo" /\ Aliases!Local(arrived.daddr)
          /\ hop' = Aliases!Datagram("reply", arrived.daddr, arrived.saddr, arrived.len)
      BY <1>7, <2>2, Zenon DEF Aliases!Receive, Aliases!Accepts
    <3>2. PICK d \in {0, 1}, h \in Host :
             /\ pinged = [ip[1 - d] EXCEPT ![4] = h]
             /\ arrived.saddr = Alias(ip[1 - d]) /\ arrived.daddr = Alias(pinged)
      <4>1. "echo" # "reply"
        OBVIOUS
      <4> QED BY <2>1, <3>1, <4>1, Zenon DEF Across, Framed
    <3>3. arrived.daddr = ip[d] /\ pinged = Alias(ip[d])
      BY <2>1, <3>1, <3>2, RequestIsForTwin
    <3>4. Aliases!SameNet(ip[d], arrived.saddr) /\ ~Aliases!SameNet(ip[1 - d], arrived.saddr)
      BY <2>1, <3>2, TwinAlias, Zenon
    <3>5. Framed(hop', "reply", d, SnulMac(d), SnulMac(1 - d), ip[d], Alias(ip[1 - d]))
      <4> DEFINE from == arrived.daddr
                 to == arrived.saddr
                 len == arrived.len
      <4>1. Aliases!SameNet(ip[d], to) /\ ~Aliases!SameNet(ip[1 - d], to) /\ mac[d] = SnulMac(d)
        BY <2>1, <3>4, Zenon
      <4>2. from = ip[d] /\ to = Alias(ip[1 - d]) /\ hop' = Aliases!Datagram("reply", from, to, len)
        BY <3>1, <3>2, <3>3, Zenon
      <4> HIDE DEF from, to, len
      <4>3. Framed(Aliases!Datagram("reply", from, to, len), "reply", d,
                   SnulMac(d), SnulMac(1 - d), from, to)
        BY <4>1, DatagramFramed, Zenon
      <4> QED BY <4>2, <4>3, Zenon
    <3> QED BY <2>1, <3>3, <3>5, Zenon DEF OnHop, Framed, Alias
  <2> QED BY <1>1, <2>1, <2>2, Zenon DEF AliasInv
<1> QED BY <1>3, <1>4, <1>5, <1>6, <1>7 DEF Aliases!Next, Aliases!Transfer

(* snull_hw_tx, for every pair of networks that test.sh could set up: the  *)
(* twin's stack accepts what it is given, and a reply comes from the       *)
(* address that was pinged to the interface that pinged it.                *)
THEOREM AliasesHold == Aliases!Spec => []HandedOver
<1>1. Aliases!Init => AliasInv
  BY Zenon DEF Aliases!Init, Aliases!Dev, AliasInv, Addressed, Private
<1>2. AliasInv /\ [Aliases!Next]_(Aliases!vars) => AliasInv'
  BY AliasInvNext, Zenon
<1>3. AliasInv => HandedOver
  BY AcceptedByTwin, Zenon
<1> QED BY <1>1, <1>2, <1>3, PTL DEF Aliases!Spec
=============================================================================
