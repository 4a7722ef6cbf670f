----------------------------- MODULE ListFacts ------------------------------
(***************************************************************************)
(* Facts about the linked lists of the drivers, as sequences: which        *)
(* elements a link or unlink leaves on the list, and that it makes none    *)
(* appear twice.                                                           *)
(***************************************************************************)
EXTENDS Integers, Sequences, Functions, SequenceTheorems, TLAPS

(* Linking an element that is not on the list at its head (the push of     *)
(* snull_release_buffer and snull_enqueue_buf) adds exactly that element   *)
(* and creates no duplicate.                                               *)
LEMMA PushProperties ==
    ASSUME NEW S, NEW s \in Seq(S), NEW p \in S
    PROVE  /\ <<p>> \o s \in Seq(S)
           /\ Range(<<p>> \o s) = Range(s) \cup {p}
           /\ IsInjective(s) /\ p \notin Range(s) => IsInjective(<<p>> \o s)
<1> DEFINE t == <<p>> \o s
<1>1. /\ t \in Seq(S)
      /\ Len(t) = Len(s) + 1
      /\ t[1] = p
      /\ \A i \in 1..Len(s) : t[i + 1] = s[i]
  OBVIOUS
<1>2. DOMAIN t = 1..Len(s) + 1 /\ DOMAIN s = 1..Len(s) /\ Len(s) \in Nat
  BY <1>1
<1>3. \A i \in DOMAIN t : i = 1 \/ (i - 1 \in DOMAIN s /\ t[i] = s[i - 1])
  BY <1>1, <1>2
<1> HIDE DEF t
<1>4. Range(t) = Range(s) \cup {p}
  <2>1. Range(t) \subseteq Range(s) \cup {p}
    BY <1>1, <1>3 DEF Range
  <2>2. Range(s) \subseteq Range(t)
    BY <1>1, <1>2 DEF Range
  <2>3. p \in Range(t)
    BY <1>1, <1>2 DEF Range
  <2> QED BY Zenon, <2>1, <2>2, <2>3
<1>5. ASSUME IsInjective(s), p \notin Range(s)
      PROVE  IsInjective(t)
  <2> SUFFICES ASSUME NEW i \in DOMAIN t, NEW j \in DOMAIN t, t[i] = t[j]
               PROVE  i = j
    BY Zenon DEF IsInjective
  <2> QED BY <1>1, <1>2, <1>3, <1>5 DEF IsInjective, Range
<1> QED BY <1>1, <1>4, <1>5, Zenon DEF t

(* Unlinking the head (snull_get_tx_buffer, snull_dequeue_buf, the regular *)
(* handler; skb_dequeue of dummy-hw) removes exactly that element.         *)
LEMMA PopProperties ==
    ASSUME NEW S, NEW s \in Seq(S), s # <<>>
    PROVE  /\ Head(s) \in S
           /\ Tail(s) \in Seq(S)
           /\ Range(s) = Range(Tail(s)) \cup {Head(s)}
           /\ IsInjective(s) => /\ IsInjective(Tail(s))
                                /\ Head(s) \notin Range(Tail(s))
<1> DEFINE t == Tail(s)
<1>1. /\ Head(s) \in S /\ Head(s) = s[1]
      /\ t \in Seq(S)
      /\ Len(s) \in Nat \ {0}
      /\ Len(t) = Len(s) - 1
      /\ \A i \in 1..Len(t) : t[i] = s[i + 1]
  OBVIOUS
<1>2. DOMAIN t = 1..Len(s) - 1 /\ DOMAIN s = 1..Len(s)
  BY <1>1
<1> HIDE DEF t
<1>3. Range(s) = Range(t) \cup {Head(s)}
  <2>1. Range(s) \subseteq Range(t) \cup {Head(s)}
    <3> SUFFICES ASSUME NEW i \in 1..Len(s), i # 1
                 PROVE  s[i] \in Range(t)
      BY <1>1, <1>2, Zenon DEF Range
    <3>1. i - 1 \in DOMAIN t /\ t[i - 1] = s[i]
      BY <1>1, <1>2
    <3> QED BY <3>1, Zenon DEF Range
  <2>2. Range(t) \subseteq Range(s)
    BY <1>1, <1>2, SMTT(30) DEF Range
  <2>3. Head(s) \in Range(s)
    BY <1>1, <1>2 DEF Range
  <2> QED BY Zenon, <2>1, <2>2, <2>3
<1>4. ASSUME IsInjective(s)
      PROVE  IsInjective(t) /\ Head(s) \notin Range(t)
  <2>1. IsInjective(t)
    <3> SUFFICES ASSUME NEW i \in DOMAIN t, NEW j \in DOMAIN t, t[i] = t[j]
                 PROVE  i = j
      BY Zenon DEF IsInjective
    <3>1. /\ i + 1 \in DOMAIN s /\ t[i] = s[i + 1] /\ i \in Int
          /\ j + 1 \in DOMAIN s /\ t[j] = s[j + 1] /\ j \in Int
      BY <1>1, <1>2
    <3>2. i + 1 = j + 1
      BY <3>1, <1>4, Zenon DEF IsInjective
    <3> QED BY <3>1, <3>2
  <2>2. Head(s) \notin Range(t)
    BY <1>1, <1>2, <1>4 DEF IsInjective, Range
  <2> QED BY Zenon, <2>1, <2>2
<1> QED BY <1>1, <1>3, <1>4, Zenon DEF t

(* Linking an element at the tail (skb_queue_tail of dummy-hw) adds exactly*)
(* that element and creates no duplicate.                                  *)
LEMMA LinkTailProperties ==
    ASSUME NEW S, NEW s \in Seq(S), NEW p \in S
    PROVE  /\ Append(s, p) \in Seq(S)
           /\ Range(Append(s, p)) = Range(s) \cup {p}
           /\ IsInjective(s) /\ p \notin Range(s) => IsInjective(Append(s, p))
<1> DEFINE t == Append(s, p)
<1>1. /\ t \in Seq(S)
      /\ Len(s) \in Nat /\ Len(t) = Len(s) + 1
      /\ t[Len(s) + 1] = p
      /\ \A i \in 1..Len(s) : t[i] = s[i]
  BY AppendProperties
<1>2. DOMAIN t = 1..Len(s) + 1 /\ DOMAIN s = 1..Len(s)
  BY <1>1
<1>3. \A i \in DOMAIN t : (i = Len(s) + 1 /\ t[i] = p) \/ (i \in DOMAIN s /\ t[i] = s[i])
  BY <1>1, <1>2
<1>4. DOMAIN s \subseteq DOMAIN t /\ Len(s) + 1 \in DOMAIN t
  BY <1>1, <1>2
<1> HIDE DEF t
<1>5. Range(t) = Range(s) \cup {p}
  <2>1. Range(t) \subseteq Range(s) \cup {p}
    BY <1>3, Zenon DEF Range
  <2>2. Range(s) \subseteq Range(t)
    BY <1>1, <1>2, <1>4, Zenon DEF Range
  <2>3. p \in Range(t)
    BY <1>1, <1>4, Zenon DEF Range
  <2> QED BY <2>1, <2>2, <2>3
<1>6. ASSUME IsInjective(s), p \notin Range(s)
      PROVE  IsInjective(t)
  <2> SUFFICES ASSUME NEW i \in DOMAIN t, NEW j \in DOMAIN t, t[i] = t[j]
               PROVE  i = j
    BY Zenon DEF IsInjective
  <2> QED BY <1>3, <1>6, Zenon DEF IsInjective, Range
<1> QED BY <1>1, <1>5, <1>6, Zenon DEF t
=============================================================================
