----------------------------- MODULE SpaceProofs -----------------------------
(***************************************************************************)
(* Proofs about a message space, for any runs, addresses and caps: what    *)
(* the log says was delivered is accounted for, given at most once and in  *)
(* order, and what a writer resolved still holds when it delivers.         *)
(*                                                                         *)
(* Increasing, Ordered and the lemmas up to FromOthersIs are about         *)
(* sequences; then come the parts of the inductive invariant Inv, a lemma  *)
(* for each action, and what follows from Inv.                             *)
(***************************************************************************)
EXTENDS Space, SequenceTheorems, WellFoundedInduction, TLAPS

\* In order; in order among those that are in C, and among those that are not.
Increasing(s) == \A i, j \in DOMAIN s : i < j => s[i] < s[j]
Ordered(s, C) == \A i, j \in DOMAIN s : i < j /\ (s[i] \in C <=> s[j] \in C) => s[i] < s[j]
------------------------------------------------------------------------------
(* Sequences.                                                              *)

\* The elements of a sequence.
LEMMA SetOf ==
  ASSUME NEW S, NEW s \in Seq(S)
  PROVE  /\ DOMAIN s = 1..Len(s) /\ Len(s) \in Nat
         /\ \A i \in 1..Len(s) : s[i] \in ToSet(s)
         /\ \A m \in ToSet(s) : m \in S /\ \E i \in 1..Len(s) : m = s[i]
BY LenProperties DEF ToSet

\* What appending does to them.
LEMMA AppendSet ==
  ASSUME NEW S, NEW s \in Seq(S), NEW e \in S
  PROVE  /\ Append(s, e) \in Seq(S) /\ Len(Append(s, e)) = Len(s) + 1
         /\ ToSet(Append(s, e)) = ToSet(s) \cup {e}
<1> DEFINE t == Append(s, e)
<1>1. /\ t \in Seq(S) /\ Len(t) = Len(s) + 1 /\ t[Len(s) + 1] = e
      /\ \A i \in 1..Len(s) : t[i] = s[i]
  BY AppendProperties
<1> HIDE DEF t
<1>2. /\ Len(s) \in Nat
      /\ \A i \in 1..Len(s) : s[i] \in ToSet(s)
      /\ \A m \in ToSet(s) : \E i \in 1..Len(s) : m = s[i]
      /\ \A i \in 1..Len(t) : t[i] \in ToSet(t)
      /\ \A m \in ToSet(t) : \E i \in 1..Len(t) : m = t[i]
  BY <1>1, SetOf
<1>3. ToSet(t) \subseteq ToSet(s) \cup {e}
  BY <1>1, <1>2
<1>4. ToSet(s) \cup {e} \subseteq ToSet(t)
  BY <1>1, <1>2
<1>5. ToSet(t) = ToSet(s) \cup {e}
  BY <1>3, <1>4
<1> QED BY <1>1, <1>5 DEF t

LEMMA ConcatSet ==
  ASSUME NEW S, NEW s \in Seq(S), NEW t \in Seq(S)
  PROVE  s \o t \in Seq(S) /\ ToSet(s \o t) = ToSet(s) \cup ToSet(t)
<1> DEFINE u == s \o t
<1>1. /\ u \in Seq(S) /\ Len(u) = Len(s) + Len(t)
      /\ \A i \in 1..Len(s) + Len(t) : u[i] = IF i <= Len(s) THEN s[i] ELSE t[i - Len(s)]
  BY ConcatProperties
<1> HIDE DEF u
<1>2. /\ \A i \in 1..Len(s) : s[i] \in ToSet(s)
      /\ \A m \in ToSet(s) : \E i \in 1..Len(s) : m = s[i]
      /\ \A i \in 1..Len(t) : t[i] \in ToSet(t)
      /\ \A m \in ToSet(t) : \E i \in 1..Len(t) : m = t[i]
  BY SetOf
<1>b. /\ \A i \in 1..Len(u) : u[i] \in ToSet(u)
      /\ \A m \in ToSet(u) : \E i \in 1..Len(u) : m = u[i]
  <2>1. u \in Seq(S)
    BY <1>1
  <2> QED BY <2>1, SetOf
<1>a. Len(s) \in Nat /\ Len(t) \in Nat
  BY SetOf
<1>3. ASSUME NEW i \in 1..Len(u) PROVE u[i] \in ToSet(s) \cup ToSet(t)
  <2>1. CASE i <= Len(s)
    <3>1. i \in 1..Len(s) /\ u[i] = s[i]
      BY <1>1, <1>a, <2>1
    <3> QED BY <1>2, <3>1
  <2>2. CASE i > Len(s)
    <3>1. i - Len(s) \in 1..Len(t) /\ u[i] = t[i - Len(s)]
      BY <1>1, <1>a, <2>2
    <3> QED BY <1>2, <3>1
  <2> QED BY <1>a, <2>1, <2>2
<1>4. ASSUME NEW i \in 1..Len(s) PROVE s[i] \in ToSet(u)
  <2>1. i \in 1..Len(s) + Len(t) /\ i <= Len(s)
    BY <1>a
  <2>2. i \in 1..Len(u) /\ u[i] = s[i]
    BY <1>1, <2>1
  <2> QED BY <1>b, <2>2
<1>5. ASSUME NEW i \in 1..Len(t) PROVE t[i] \in ToSet(u)
  <2>1. /\ Len(s) + i \in 1..Len(s) + Len(t) /\ ~(Len(s) + i <= Len(s))
        /\ (Len(s) + i) - Len(s) = i
    BY <1>a
  <2>2. Len(s) + i \in 1..Len(u) /\ u[Len(s) + i] = t[i]
    BY <1>1, <2>1
  <2> QED BY <1>b, <2>2
<1>6. ToSet(s) \cup ToSet(t) \subseteq ToSet(u)
  BY <1>2, <1>4, <1>5
<1>7. ToSet(u) = ToSet(s) \cup ToSet(t)
  BY <1>3, <1>6, <1>b
<1> QED BY <1>1, <1>7 DEF u

\* Appending what is behind everything of its kind keeps the order.
LEMMA AppendOrdered ==
  ASSUME NEW C, NEW s \in Seq(Message), NEW e \in Message, Ordered(s, C),
         \A m \in ToSet(s) : (m \in C <=> e \in C) => m < e
  PROVE  Ordered(Append(s, e), C)
<1> DEFINE t == Append(s, e)
<1>1. /\ t \in Seq(Message) /\ Len(t) = Len(s) + 1 /\ t[Len(s) + 1] = e
      /\ \A i \in 1..Len(s) : t[i] = s[i]
  BY AppendProperties
<1> HIDE DEF t
<1>2. DOMAIN t = 1..Len(s) + 1 /\ DOMAIN s = 1..Len(s) /\ Len(s) \in Nat
  BY <1>1, LenProperties
<1>3. \A i \in 1..Len(s) : s[i] \in ToSet(s)
  BY <1>2 DEF ToSet
<1>4. ASSUME NEW i \in DOMAIN t, NEW j \in DOMAIN t, i < j, t[i] \in C <=> t[j] \in C
      PROVE  t[i] < t[j]
  <2>1. i \in 1..Len(s) /\ t[i] = s[i]
    BY <1>1, <1>2, <1>4
  <2>2. CASE j = Len(s) + 1
    BY <1>1, <1>3, <1>4, <2>1, <2>2
  <2>3. CASE j \in 1..Len(s)
    BY <1>1, <1>2, <1>4, <2>1, <2>3 DEF Ordered
  <2> QED BY <1>2, <2>2, <2>3
<1> QED BY <1>4 DEF Ordered, t

LEMMA AppendIncreasing ==
  ASSUME NEW s \in Seq(Message), NEW e \in Message, Increasing(s), \A m \in ToSet(s) : m < e
  PROVE  Increasing(Append(s, e))
<1>1. Ordered(Append(s, e), Message)
  <2>1. Ordered(s, Message) /\ \A m \in ToSet(s) : m < e
    BY DEF Ordered, Increasing
  <2> QED BY <2>1, AppendOrdered
<1>2. Append(s, e) \in Seq(Message)
  BY AppendProperties
<1>3. \A i \in DOMAIN Append(s, e) : Append(s, e)[i] \in Message
  BY <1>2, SetOf
<1> QED BY <1>1, <1>3 DEF Ordered, Increasing

LEMMA ConcatOrdered ==
  ASSUME NEW C, NEW s \in Seq(Message), NEW t \in Seq(Message), Ordered(s, C), Ordered(t, C),
         \A m \in ToSet(s), n \in ToSet(t) : (m \in C <=> n \in C) => m < n
  PROVE  Ordered(s \o t, C)
<1> DEFINE u == s \o t
<1>1. /\ u \in Seq(Message) /\ Len(u) = Len(s) + Len(t)
      /\ \A i \in 1..Len(s) + Len(t) : u[i] = IF i <= Len(s) THEN s[i] ELSE t[i - Len(s)]
  BY ConcatProperties
<1>2. /\ DOMAIN u = 1..Len(s) + Len(t) /\ DOMAIN s = 1..Len(s) /\ DOMAIN t = 1..Len(t)
      /\ Len(s) \in Nat /\ Len(t) \in Nat
  BY <1>1, LenProperties
<1>3. /\ \A i \in 1..Len(s) : s[i] \in ToSet(s)
      /\ \A i \in 1..Len(t) : t[i] \in ToSet(t)
  BY <1>2 DEF ToSet
<1> HIDE DEF u
<1>4. ASSUME NEW i \in DOMAIN u, NEW j \in DOMAIN u, i < j, u[i] \in C <=> u[j] \in C
      PROVE  u[i] < u[j]
  <2>1. CASE j <= Len(s)
    <3>1. i \in DOMAIN s /\ j \in DOMAIN s /\ u[i] = s[i] /\ u[j] = s[j]
      BY <1>1, <1>2, <1>4, <2>1
    <3> QED BY <1>4, <3>1 DEF Ordered
  <2>2. CASE i > Len(s)
    <3>1. i - Len(s) \in DOMAIN t /\ j - Len(s) \in DOMAIN t /\ i - Len(s) < j - Len(s)
          /\ u[i] = t[i - Len(s)] /\ u[j] = t[j - Len(s)]
      BY <1>1, <1>2, <1>4, <2>2
    <3> QED BY <1>4, <3>1 DEF Ordered
  <2>3. CASE i <= Len(s) /\ j > Len(s)
    <3>1. i \in 1..Len(s) /\ j - Len(s) \in 1..Len(t) /\ u[i] = s[i] /\ u[j] = t[j - Len(s)]
      BY <1>1, <1>2, <1>4, <2>3
    <3> QED BY <1>3, <1>4, <3>1
  <2> QED BY <1>2, <2>1, <2>2, <2>3
<1> QED BY <1>4 DEF Ordered, u

\* The rest of a sequence.
LEMMA SubSeqSet ==
  ASSUME NEW S, NEW s \in Seq(S), NEW c \in Nat, c <= Len(s)
  PROVE  /\ SubSeq(s, c + 1, Len(s)) \in Seq(S)
         /\ ToSet(SubSeq(s, c + 1, Len(s))) = {s[k] : k \in (c + 1)..Len(s)}
         /\ Increasing(s) => Increasing(SubSeq(s, c + 1, Len(s)))
<1> DEFINE t == SubSeq(s, c + 1, Len(s))
<1>0. Len(s) \in Nat /\ DOMAIN s = 1..Len(s) /\ \A i \in (c + 1)..Len(s) : s[i] \in S
  BY LenProperties, ElementOfSeq
<1>1. /\ t \in Seq(S) /\ Len(t) = IF c + 1 <= Len(s) THEN Len(s) - (c + 1) + 1 ELSE 0
      /\ \A i \in 1..Len(s) - (c + 1) + 1 : t[i] = s[c + 1 + i - 1]
  BY <1>0, SubSeqProperties
<1> HIDE DEF t
<1>d. Len(t) = IF c + 1 <= Len(s) THEN Len(s) - (c + 1) + 1 ELSE 0
  BY <1>1
<1>e. \A i \in 1..Len(s) - (c + 1) + 1 : t[i] = s[c + 1 + i - 1]
  BY <1>1
<1>f. Len(s) \in Nat
  BY <1>0
<1>a. /\ DOMAIN t = 1..Len(t)
      /\ \A i \in 1..Len(t) : t[i] \in ToSet(t)
      /\ \A m \in ToSet(t) : \E i \in 1..Len(t) : m = t[i]
  BY <1>1, SetOf
<1>b. Len(t) = Len(s) - c
  BY <1>d, <1>f
<1>c. ASSUME NEW i \in 1..Len(t) PROVE t[i] = s[c + i]
  <2>1. i \in 1..Len(s) - (c + 1) + 1 /\ c + 1 + i - 1 = c + i
    BY <1>b, <1>f
  <2> QED BY <1>e, <2>1
<1>2. /\ DOMAIN t = 1..Len(t) /\ Len(t) = Len(s) - c /\ \A i \in 1..Len(t) : t[i] = s[c + i]
  BY <1>a, <1>b, <1>c
<1>3. \A i \in 1..Len(t) : c + i \in (c + 1)..Len(s)
  BY <1>0, <1>2
<1>4. ASSUME NEW k \in (c + 1)..Len(s) PROVE s[k] \in ToSet(t)
  <2>1. k - c \in 1..Len(t) /\ t[k - c] = s[k]
    BY <1>0, <1>2
  <2> QED BY <1>a, <2>1
<1>5. ToSet(t) = {s[k] : k \in (c + 1)..Len(s)}
  BY <1>a, <1>2, <1>3, <1>4
<1>6. ASSUME Increasing(s), NEW i \in 1..Len(t), NEW j \in 1..Len(t), i < j PROVE t[i] < t[j]
  <2>1. c + i \in DOMAIN s /\ c + j \in DOMAIN s /\ c + i < c + j
    BY <1>0, <1>2, <1>6
  <2> QED BY <1>2, <1>6, <2>1 DEF Increasing
<1> QED BY <1>1, <1>2, <1>5, <1>6 DEF Increasing, t
------------------------------------------------------------------------------
(* Induction: every nonempty set of numbers has a least one.               *)

LEMMA LeastNat ==
  ASSUME NEW T \in SUBSET Nat, T # {}
  PROVE  \E n \in T : \A m \in T : n <= m
<1> DEFINE R == {ss \in Nat \X Nat : ss[1] < ss[2]}
<1>1. IsWellFoundedOn(R, Nat)
  BY NatLessThanWellFounded DEF OpToRel
<1>2. \A m, n \in Nat : m < n => <<m, n>> \in R
  <2> SUFFICES ASSUME NEW m \in Nat, NEW n \in Nat, m < n PROVE <<m, n>> \in R
    OBVIOUS
  <2>1. <<m, n>> \in Nat \X Nat /\ <<m, n>>[1] = m /\ <<m, n>>[2] = n
    OBVIOUS
  <2> QED BY <2>1
<1> HIDE DEF R
<1>3. PICK n \in T : \A m \in T : ~(<<m, n>> \in R)
  BY <1>1, WFMin
<1>4. ASSUME NEW m \in T PROVE n <= m
  <2>1. n \in Nat /\ m \in Nat /\ ~(m < n)
    BY <1>2, <1>3
  <2> QED BY <2>1
<1> QED BY <1>4

\* From 0 up to n.
LEMMA Up ==
  ASSUME NEW n \in Nat, NEW P \in SUBSET (0..n), 0 \in P, \A k \in 1..n : k - 1 \in P => k \in P
  PROVE  P = 0..n
<1> SUFFICES ASSUME (0..n) \ P # {} PROVE FALSE
  OBVIOUS
<1>0. (0..n) \ P \in SUBSET Nat
  OBVIOUS
<1>1. PICK k \in (0..n) \ P : \A m \in (0..n) \ P : k <= m
  BY <1>0, LeastNat
<1> QED BY <1>1

\* One unfolding of the recursion that FromOthers is defined by.
Unfold(s, a, f) ==
    [i \in 0..Len(s) |-> IF i = 0 THEN <<>>
                         ELSE IF log[s[i]].from = a THEN f[i - 1] ELSE Append(f[i - 1], s[i])]

\* The recursion has a solution.
LEMMA RecExists ==
  ASSUME NEW s, Len(s) \in Nat, NEW a
  PROVE  \E f : f = Unfold(s, a, f)
<1> DEFINE n == Len(s)
           G(f, i) == IF i = 0 THEN <<>>
                      ELSE IF log[s[i]].from = a THEN f[i - 1] ELSE Append(f[i - 1], s[i])
           P == {m \in 0..n : \E f : f = [i \in 0..m |-> G(f, i)]}
<1>1. 0 \in P
  <2> DEFINE f == [i \in 0..0 |-> <<>>]
  <2>1. f = [i \in 0..0 |-> G(f, i)]
    OBVIOUS
  <2>2. \E g : g = [i \in 0..0 |-> G(g, i)]
    <3> HIDE DEF f, G
    <3> QED BY <2>1
  <2> QED BY <2>2
<1>2. ASSUME NEW k \in 1..n, k - 1 \in P PROVE k \in P
  <2>1. PICK f : f = [i \in 0..(k-1) |-> G(f, i)]
    BY <1>2
  <2> DEFINE h == [i \in 0..k |-> IF i = k THEN G(f, k) ELSE f[i]]
  <2>2. \A i \in 0..(k-1) : h[i] = f[i]
    OBVIOUS
  <2>3. \A i \in 0..k : h[i] = G(h, i)
    <3>1. \A i \in 0..(k-1) : f[i] = G(f, i) /\ G(h, i) = G(f, i)
      <4>1. \A i \in 0..(k-1) : f[i] = G(f, i)
        BY <2>1, Zenon
      <4>2. \A i \in 0..(k-1) : G(h, i) = G(f, i)
        BY <2>2
      <4> QED BY <4>1, <4>2
    <3>2. h[k] = G(f, k) /\ G(h, k) = G(f, k)
      BY <2>2
    <3> QED BY <2>2, <3>1, <3>2
  <2>4. h = [i \in 0..k |-> G(h, i)]
    BY <2>3
  <2>5. \E g : g = [i \in 0..k |-> G(g, i)]
    <3> HIDE DEF h, G
    <3> QED BY <2>4
  <2> QED BY <2>5
<1>3. P = 0..n
  <2> HIDE DEF P
  <2>1. P \in SUBSET (0..n)
    BY DEF P
  <2> QED BY <1>1, <1>2, <2>1, Up
<1> HIDE DEF G
<1>4. \E f : f = [i \in 0..n |-> G(f, i)]
  BY <1>3
<1> QED BY <1>4 DEF G, Unfold

\* What a run reads of the broadcasts: those of others, in order.
LEMMA FromOthersIs ==
  ASSUME NEW s \in Seq(Message), NEW a
  PROVE  /\ FromOthers(s, a) \in Seq(Message)
         /\ ToSet(FromOthers(s, a)) = {m \in ToSet(s) : log[m].from # a}
         /\ Increasing(s) => Increasing(FromOthers(s, a))
<1> DEFINE G(f, i) == IF i = 0 THEN <<>>
                      ELSE IF log[s[i]].from = a THEN f[i - 1] ELSE Append(f[i - 1], s[i])
           f == CHOOSE g : g = [i \in 0..Len(s) |-> G(g, i)]
           Sel(n) == {m \in {s[i] : i \in 1..n} : log[m].from # a}
           Good(n) == /\ f[n] \in Seq(Message) /\ ToSet(f[n]) = Sel(n)
                      /\ Increasing(s) => Increasing(f[n])
           P == {n \in 0..Len(s) : Good(n)}
<1>1. FromOthers(s, a) = f[Len(s)]
  BY DEF FromOthers
<1>2. Len(s) \in Nat /\ DOMAIN s = 1..Len(s) /\ \A i \in 1..Len(s) : s[i] \in Message
  BY LenProperties
<1>3. \E g : g = [i \in 0..Len(s) |-> G(g, i)]
  <2>1. Len(s) \in Nat
    BY <1>2
  <2>2. PICK g : g = Unfold(s, a, g)
    BY <2>1, RecExists
  <2>3. g = [i \in 0..Len(s) |-> G(g, i)]
    BY <2>2 DEF Unfold
  <2> HIDE DEF G
  <2> QED BY <2>3
<1>4. f = [i \in 0..Len(s) |-> G(f, i)]
  <2> HIDE DEF G
  <2> QED BY <1>3
<1> HIDE DEF f
<1>5. /\ f[0] = <<>>
      /\ \A i \in 1..Len(s) : f[i] = IF log[s[i]].from = a THEN f[i - 1] ELSE Append(f[i - 1], s[i])
  <2>1. 0 \in 0..Len(s) /\ \A i \in 1..Len(s) : i \in 0..Len(s) /\ i # 0
    BY <1>2
  <2> QED BY <1>4, <2>1
<1>6. 0 \in P
  <2>1. <<>> \in Seq(Message) /\ ToSet(<<>>) = {} /\ Increasing(<<>>)
    BY DEF ToSet, Increasing
  <2>2. Sel(0) = {}
    OBVIOUS
  <2> HIDE DEF Sel
  <2>3. Good(0)
    BY <1>5, <2>1, <2>2
  <2> HIDE DEF Good
  <2> QED BY <1>2, <2>3
<1>7. ASSUME NEW n \in 1..Len(s), n - 1 \in P PROVE n \in P
  <2>1. n - 1 \in 0..Len(s) /\ Good(n - 1)
    BY <1>7
  <2>2. Sel(n) = IF log[s[n]].from = a THEN Sel(n - 1) ELSE Sel(n - 1) \cup {s[n]}
    BY <1>2
  <2>3. CASE log[s[n]].from = a
    <3>1. f[n] = f[n - 1]
      BY <1>5, <2>3
    <3> QED BY <2>1, <2>2, <2>3, <3>1
  <2>4. CASE log[s[n]].from # a
    <3>1. f[n] = Append(f[n - 1], s[n])
      BY <1>5, <2>4
    <3>2. f[n] \in Seq(Message) /\ ToSet(f[n]) = Sel(n)
      BY <1>2, <2>1, <2>2, <2>4, <3>1, AppendSet
    <3>3. ASSUME Increasing(s) PROVE Increasing(f[n])
      <4>1. \A m \in ToSet(f[n - 1]) : m < s[n]
        <5>1. \A i \in 1..(n - 1) : s[i] < s[n]
          BY <1>2, <3>3 DEF Increasing
        <5> QED BY <2>1, <5>1
      <4>2. Increasing(f[n - 1])
        BY <2>1, <3>3
      <4> HIDE DEF Good
      <4>3. f[n - 1] \in Seq(Message) /\ s[n] \in Message
        BY <1>2, <2>1 DEF Good
      <4> QED BY <3>1, <4>1, <4>2, <4>3, AppendIncreasing
    <3> QED BY <3>2, <3>3
  <2> QED BY <2>3, <2>4
<1>8. P = 0..Len(s)
  <2> HIDE DEF P
  <2>1. P \in SUBSET (0..Len(s))
    BY DEF P
  <2> QED BY <1>2, <1>6, <1>7, <2>1, Up
<1>9. Good(Len(s))
  <2> HIDE DEF Good
  <2>1. Len(s) \in P
    BY <1>2, <1>8
  <2> QED BY <2>1
<1>10. Sel(Len(s)) = {m \in ToSet(s) : log[m].from # a}
  BY <1>2 DEF ToSet
<1> QED BY <1>1, <1>9, <1>10
------------------------------------------------------------------------------
(* The inductive invariant.                                               *)

Writing(w) == pc[w] \in {"Deliver", "Write"}
Has(r) == ToSet(got[r]) \cup ToSet(mem[r])

\* Who joins or writes has the log's lock, and who delivers or reads that of one
\* mailbox; no inbox is renamed away while a writer has it open.
Locks ==
    /\ gone = {}
    /\ \A w \in Writer : pc[w] \in {"Register", "Deliver", "Write"} => logLock = w
    /\ \A a \in Address : boxLock[a] # Nobody =>
          LET w == boxLock[a] IN
          \/ pc[w] = "Write" /\ a \in draft[w].for
          \/ w \in Run /\ pc[w] = "Cursor" /\ At[w] = a
    /\ \A a, b \in Address : boxLock[a] # Nobody /\ boxLock[a] = boxLock[b] => a = b
    /\ \A r \in Run : pc[r] = "Cursor" => boxLock[At[r]] = r

\* An address that is live or was written to has a cursor, unless its run died
\* or is about to register.
Joined ==
    /\ \A r \in Run : pc[r] \notin {"Out", "Register"} => cursor[At[r]] # -1
    /\ \A a \in Address : roster[a].live /\ cursor[a] = -1 =>
          crashes > 0 \/ \E r \in Run : At[r] = a /\ pc[r] = "Register"
    /\ \A m \in DOMAIN log : \A a \in log[m].for : cursor[a] = -1 => crashes > 0

\* Who writes writes the last line of the log, and has room for it.
Drafts ==
    \A w \in Writer :
        /\ ~Writing(w) => draft[w].for = {}
        /\ Writing(w) =>
             /\ Len(log) > 0 /\ draft[w].line = Len(log)
             /\ draft[w].to = "broadcast" =>
                   /\ pc[w] = "Deliver"
                   /\ log[Len(log)].from \notin log[Len(log)].for
                   /\ draft[w].for # {} => Len(casts) < MsgCap
             /\ draft[w].to # "broadcast" => \A a \in draft[w].for : Len(inbox[a]) < MsgCap
             /\ draft[w].expected # Nobody =>
                   /\ draft[w].to \in Address
                   /\ roster[draft[w].to] = [run |-> draft[w].expected, live |-> TRUE]

\* What is delivered is in the log, and was delivered in one way.
Logged ==
    /\ \A m \in ToSet(casts) : m <= Len(log) /\ log[m].from \notin log[m].for
    /\ \A a \in Address : \A m \in ToSet(inbox[a]) : m <= Len(log) /\ m \notin ToSet(casts)
    /\ \A r \in Run : \A m \in Has(r) : m <= Len(log)

\* What is yet to be delivered was not delivered yet.
Fresh ==
    \A w \in Writer : Writing(w) /\ draft[w].for # {} =>
        /\ Len(log) \notin ToSet(casts)
        /\ draft[w].to = "broadcast" =>
              /\ \A a \in Address : Len(log) \notin ToSet(inbox[a])
              /\ \A r \in Run : Len(log) \notin Has(r)
        /\ \A a \in draft[w].for :
              /\ Len(log) \notin ToSet(inbox[a])
              /\ \A r \in Run : At[r] = a => Len(log) \notin Has(r)

Sorted ==
    /\ Increasing(casts)
    /\ \A a \in Address : Increasing(inbox[a])
    /\ \A r \in Run : Ordered(mem[r], ToSet(casts)) /\ Ordered(got[r], ToSet(casts))

\* What a run has of a kind is behind what waits for it.
Behind ==
    \A r \in Run :
        /\ \A m \in Has(r) \ ToSet(casts) : \A n \in ToSet(inbox[At[r]]) : m < n
        /\ \A m \in ToSet(got[r]), n \in ToSet(mem[r]) :
              (m \in ToSet(casts) <=> n \in ToSet(casts)) => m < n

Before(a) == {casts[k] : k \in 1..cursor[a]}
Reading(r) == {casts[k] : k \in (cursor[At[r]] + 1)..total[r]}

\* The cursor is behind what was read, but for who reads.
Cursors ==
    \A r \in Run :
        /\ ToSet(got[r]) \cap ToSet(casts) \subseteq Before(At[r])
        /\ pc[r] = "Cursor" =>
              /\ cursor[At[r]] <= total[r]
              /\ ToSet(mem[r]) \cap ToSet(casts) \subseteq Reading(r)
              /\ \A m \in Reading(r) : At[r] \in log[m].for => m \in ToSet(mem[r])
        /\ pc[r] # "Cursor" => ToSet(mem[r]) \cap ToSet(casts) \subseteq Before(At[r])
        /\ pc[r] \notin {"Read", "Cursor", "Hand"} => mem[r] = <<>>
        /\ pc[r] = "Read" => ToSet(mem[r]) \cap ToSet(casts) = {}

\* Two runs of an address share nothing.
Apart ==
    \A r, q \in Run : At[r] = At[q] /\ r # q => Has(r) \cap Has(q) = {}

\* Where a message for b can be.
Where(b) == Handed(b) \cup Held(b) \cup Coming(b) \cup Waiting(b)

Inv == TypeOK /\ Locks /\ Joined /\ Drafts /\ Logged /\ Fresh /\ Sorted /\ Behind /\ Cursors
       /\ Apart /\ Accounted

USE RunAssumption, CapAssumption DEF Writer

------------------------------------------------------------------------------
(* Every step keeps it.                                                    *)

\* The log is a sequence of entries.
LEMMA LogIs ==
  ASSUME TypeOK
  PROVE  /\ DOMAIN log = 1..Len(log) /\ Len(log) \in 0..LogCap
         /\ \A m \in DOMAIN log : log[m].from \in Address \cup {Operator} /\ log[m].for \subseteq Address
<1> DEFINE Rec == [from : Address \cup {Operator}, for : SUBSET Address]
<1>1. log \in Seq(Rec) /\ Len(log) <= LogCap
  BY DEF TypeOK
<1>2. DOMAIN log = 1..Len(log) /\ Len(log) \in Nat
  BY <1>1, LenProperties
<1>3. \A m \in DOMAIN log : log[m] \in Rec
  <2> HIDE DEF Rec
  <2> QED BY <1>1, <1>2, ElementOfSeq
<1> QED BY <1>1, <1>2, <1>3

\* What is delivered stays accounted for if it stays somewhere, or is lost.
LEMMA AccountedStep ==
  ASSUME Inv, log' = log, lost \subseteq lost', crashes' = crashes \/ crashes' = crashes + 1,
         \A b \in Address : \A m \in DOMAIN log : b \in log[m].for /\ m \in Where(b) =>
            m \in Where(b)' \/ (<<m, b>> \in lost' /\ crashes' > 0)
  PROVE  Accounted'
<1>1. \A m \in DOMAIN log : \A b \in log[m].for : b \in Address
  <2>1. TypeOK
    BY DEF Inv
  <2> QED BY <2>1, LogIs
<1>2. \A m \in DOMAIN log : \A b \in log[m].for : m \in Where(b) \/ (<<m, b>> \in lost /\ crashes > 0)
  BY DEF Inv, Accounted, Where
<1>3. crashes > 0 => crashes' > 0
  BY DEF Inv, TypeOK
<1>4. \A m \in DOMAIN log' : \A b \in log'[m].for :
         m \in Where(b)' \/ (<<m, b>> \in lost' /\ crashes' > 0)
  BY <1>1, <1>2, <1>3
<1> QED BY <1>4 DEF Accounted, Where

LEMMA JoinInv ==
  ASSUME Inv, NEW r \in Run, Join(r)
  PROVE  Inv'
<1>u. UNCHANGED <<log, inbox, boxLock, casts, cursor, draft, mem, total, gone, got, crashes, lost>>
  BY DEF Join, Boxes, Collected, Deaths
<1>a. /\ pc[r] = "Out" /\ logLock = Nobody /\ logLock' = r /\ r \in Writer /\ At[r] \in Address
      /\ roster' = [roster EXCEPT ![At[r]] = [run |-> r, live |-> TRUE]]
      /\ pc' = [pc EXCEPT ![r] = "Register"]
  BY DEF Join, Go
<1>b. /\ pc'[r] = "Register" /\ \A w \in Writer \ {r} : pc'[w] = pc[w]
      /\ \A w \in Writer : ~Writing(w) /\ ~Writing(w)' /\ pc[w] # "Register"
  BY <1>a DEF Inv, TypeOK, Locks, Writing
<1>1. TypeOK'
  <2>1. roster' \in [Address -> [run : Run \cup {Nobody}, live : BOOLEAN]]
    BY <1>u, <1>a, <1>b DEF Inv, TypeOK
  <2>2. logLock' \in Writer \cup {Nobody}
    BY <1>u, <1>a, <1>b DEF Inv, TypeOK
  <2>3. pc' \in [Writer -> Pc]
    BY <1>u, <1>a, <1>b DEF Inv, TypeOK, Pc
  <2> QED BY <1>u, <2>1, <2>2, <2>3 DEF Inv, TypeOK
<1>2. Locks'
  BY <1>u, <1>a, <1>b DEF Inv, Locks
<1>3. Joined'
  BY <1>u, <1>a, <1>b DEF Inv, Joined
<1>4. Drafts'
  BY <1>u, <1>a, <1>b DEF Inv, Drafts, Writing
<1>5. Logged'
  BY <1>u, <1>a, <1>b DEF Inv, Logged, Has
<1>6. Fresh'
  BY <1>u, <1>a, <1>b DEF Inv, Fresh, Writing, Has
<1>7. Sorted'
  BY <1>u, <1>a, <1>b DEF Inv, Sorted
<1>8. Behind'
  BY <1>u, <1>a, <1>b DEF Inv, Behind, Has
<1>9. Cursors'
  BY <1>u, <1>a, <1>b DEF Inv, Cursors, Before, Reading
<1>10. Apart'
  BY <1>u, <1>a, <1>b DEF Inv, Apart, Has
<1>11. Accounted'
  <2>1. \A b : Handed(b)' = Handed(b) /\ Held(b)' = Held(b)
    BY <1>u DEF Handed, Held
  <2>2. \A b : Coming(b)' = Coming(b) /\ Waiting(b)' = Waiting(b)
    BY <1>u DEF Coming, Waiting
  <2> QED BY <1>u, <2>1, <2>2 DEF Inv, Accounted
<1> QED BY <1>1, <1>2, <1>3, <1>4, <1>5, <1>6, <1>7, <1>8, <1>9, <1>10, <1>11 DEF Inv

LEMMA LeaveInv ==
  ASSUME Inv, NEW r \in Run, Leave(r)
  PROVE  Inv'
<1>u. UNCHANGED <<log, logLock, inbox, boxLock, casts, cursor, draft, mem, total, gone, got, crashes,
      lost>>
  BY DEF Leave, Boxes, Collected, Deaths
<1>a. /\ pc[r] = "In" /\ logLock = Nobody /\ r \in Writer /\ At[r] \in Address
      /\ roster' = [roster EXCEPT ![At[r]] = Left(r)]
      /\ pc' = [pc EXCEPT ![r] = "Left"]
  BY DEF Leave, Go
<1>b. /\ pc'[r] = "Left" /\ \A w \in Writer \ {r} : pc'[w] = pc[w]
      /\ \A w \in Writer : ~Writing(w) /\ ~Writing(w)' /\ pc[w] # "Register"
  BY <1>a DEF Inv, TypeOK, Locks, Writing
<1>1. TypeOK'
  <2>1. roster' \in [Address -> [run : Run \cup {Nobody}, live : BOOLEAN]]
    <3> DEFINE Rec == [run : Run \cup {Nobody}, live : BOOLEAN]
    <3>1. roster \in [Address -> Rec] /\ roster[At[r]] \in Rec
      BY <1>a DEF Inv, TypeOK
    <3>2. Left(r) \in Rec
      BY <3>1 DEF Left
    <3> QED BY <1>a, <3>1, <3>2
  <2>2. pc' \in [Writer -> Pc]
    BY <1>u, <1>a, <1>b DEF Inv, TypeOK, Pc
  <2> QED BY <1>u, <2>1, <2>2 DEF Inv, TypeOK
<1>2. Locks'
  BY <1>u, <1>a, <1>b DEF Inv, Locks
<1>3. Joined'
  BY <1>u, <1>a, <1>b DEF Inv, Joined
<1>4. Drafts'
  BY <1>u, <1>a, <1>b DEF Inv, Drafts, Writing
<1>5. Logged'
  BY <1>u, <1>a, <1>b DEF Inv, Logged, Has
<1>6. Fresh'
  BY <1>u, <1>a, <1>b DEF Inv, Fresh, Writing, Has
<1>7. Sorted'
  BY <1>u, <1>a, <1>b DEF Inv, Sorted
<1>8. Behind'
  BY <1>u, <1>a, <1>b DEF Inv, Behind, Has
<1>9. Cursors'
  BY <1>u, <1>a, <1>b DEF Inv, Cursors, Before, Reading
<1>10. Apart'
  BY <1>u, <1>a, <1>b DEF Inv, Apart, Has
<1>11. Accounted'
  <2>1. \A b : Handed(b)' = Handed(b) /\ Held(b)' = Held(b)
    BY <1>u DEF Handed, Held
  <2>2. \A b : Coming(b)' = Coming(b) /\ Waiting(b)' = Waiting(b)
    BY <1>u DEF Coming, Waiting
  <2> QED BY <1>u, <2>1, <2>2 DEF Inv, Accounted
<1> QED BY <1>1, <1>2, <1>3, <1>4, <1>5, <1>6, <1>7, <1>8, <1>9, <1>10, <1>11 DEF Inv

LEMMA RegisterInv ==
  ASSUME Inv, NEW r \in Run, Register(r)
  PROVE  Inv'
<1>u. UNCHANGED <<log, roster, inbox, boxLock, casts, draft, mem, total, gone, got, crashes>>
  BY DEF Register, Boxes, Collected, Deaths
<1> DEFINE a == At[r]
<1>a. /\ pc[r] = "Register" /\ boxLock[a] = Nobody /\ logLock' = Nobody /\ r \in Writer /\ a \in Address
      /\ pc' = [pc EXCEPT ![r] = "In"]
      /\ cursor' = [cursor EXCEPT ![a] = IF cursor[a] = -1 THEN Len(casts) ELSE cursor[a]]
  BY DEF Register, Go
<1>c. /\ lost \subseteq lost'
      /\ lost' \subseteq lost \cup {<<m, a>> : m \in ToSet(casts)}
      /\ cursor[a] = -1 => \A m \in ToSet(casts) : a \in log[m].for => <<m, a>> \in lost'
  BY DEF Register
<1>b. /\ pc'[r] = "In" /\ \A w \in Writer \ {r} : pc'[w] = pc[w]
      /\ \A w \in Writer : ~Writing(w) /\ ~Writing(w)' /\ (pc[w] = "Register" => w = r)
      /\ cursor'[a] = (IF cursor[a] = -1 THEN Len(casts) ELSE cursor[a])
      /\ \A b \in Address \ {a} : cursor'[b] = cursor[b]
  BY <1>a DEF Inv, TypeOK, Locks, Writing
<1>1. TypeOK'
  <2>1. cursor' \in [Address -> -1..Len(casts)]
    BY <1>u, <1>a, LenProperties DEF Inv, TypeOK
  <2>2. lost' \in SUBSET ((0..LogCap) \X Address)
    <3>1. casts \in Seq(Message)
      BY DEF Inv, TypeOK
    <3>2. ToSet(casts) \subseteq Message
      BY <3>1, SetOf
    <3> QED BY <1>a, <1>c, <3>2 DEF Inv, TypeOK, Message
  <2>3. logLock' \in Writer \cup {Nobody}
    BY <1>u, <1>a, <1>b, <1>c DEF Inv, TypeOK
  <2>4. pc' \in [Writer -> Pc]
    BY <1>u, <1>a, <1>b, <1>c DEF Inv, TypeOK, Pc
  <2> QED BY <1>u, <2>1, <2>2, <2>3, <2>4 DEF Inv, TypeOK
<1>2. Locks'
  BY <1>u, <1>a, <1>b, <1>c DEF Inv, Locks
<1>3. Joined'
  BY <1>u, <1>a, <1>b, <1>c DEF Inv, Joined
<1>4. Drafts'
  BY <1>u, <1>a, <1>b, <1>c DEF Inv, Drafts, Writing
<1>5. Logged'
  BY <1>u, <1>a, <1>b, <1>c DEF Inv, Logged, Has
<1>6. Fresh'
  BY <1>u, <1>a, <1>b, <1>c DEF Inv, Fresh, Writing, Has
<1>7. Sorted'
  BY <1>u, <1>a, <1>b, <1>c DEF Inv, Sorted
<1>8. Behind'
  BY <1>u, <1>a, <1>b, <1>c DEF Inv, Behind, Has
<1>9. Cursors'
  <2>1. \A b \in Address : Before(b) \subseteq Before(b)'
    <3>1. Before(a) \subseteq Before(a)'
      <4>1. CASE cursor[a] = -1
        BY <4>1 DEF Before
      <4>2. CASE cursor[a] # -1
        BY <1>u, <1>b, <4>2 DEF Before
      <4> QED BY <4>1, <4>2
    <3> QED BY <1>u, <1>b, <3>1 DEF Before
  <2>2. \A q \in Run : pc[q] = "Cursor" => At[q] # a /\ q # r
    BY <1>a DEF Inv, TypeOK, Locks
  <2>3. \A q \in Run : pc[q] = "Cursor" => Reading(q)' = Reading(q) /\ cursor'[At[q]] = cursor[At[q]]
    BY <1>u, <1>b, <2>2 DEF Reading
  <2> QED BY <1>u, <1>a, <1>b, <2>1, <2>3 DEF Inv, Cursors
<1>10. Apart'
  BY <1>u, <1>a, <1>b, <1>c DEF Inv, Apart, Has
<1>11. Accounted'
  <2>1. \A b : Handed(b)' = Handed(b) /\ Held(b)' = Held(b) /\ Coming(b)' = Coming(b)
    BY <1>u DEF Handed, Held, Coming
  <2>2. \A b \in Address : b # a \/ cursor[a] # -1 => Waiting(b)' = Waiting(b)
    BY <1>u, <1>b DEF Waiting
  <2>3. ASSUME NEW m \in DOMAIN log, a \in log[m].for, cursor[a] = -1, m \in Waiting(a)
        PROVE  m \in Waiting(a)' \/ (<<m, a>> \in lost' /\ crashes' > 0)
    <3>1. crashes > 0
      BY <2>3 DEF Inv, Joined
    <3> QED BY <1>u, <1>c, <2>3, <3>1 DEF Waiting
  <2>4. ASSUME NEW b \in Address, NEW m \in DOMAIN log, b \in log[m].for, m \in Where(b)
        PROVE  m \in Where(b)' \/ (<<m, b>> \in lost' /\ crashes' > 0)
    <3>1. CASE b = a /\ cursor[a] = -1 /\ m \in Waiting(b)
      BY <2>3, <2>4, <3>1 DEF Where
    <3>2. CASE m \notin Waiting(b)
      BY <2>1, <2>4, <3>2 DEF Where
    <3>3. CASE (b # a \/ cursor[a] # -1) /\ m \in Waiting(b)
      BY <2>2, <2>4, <3>3 DEF Where
    <3> QED BY <3>1, <3>2, <3>3
  <2>5. log' = log /\ lost \subseteq lost' /\ crashes' = crashes
    BY <1>u, <1>c
  <2> QED BY <2>4, <2>5, AccountedStep
<1> QED BY <1>1, <1>2, <1>3, <1>4, <1>5, <1>6, <1>7, <1>8, <1>9, <1>10, <1>11 DEF Inv

LEMMA UnlockInv ==
  ASSUME Inv, NEW w \in Writer, Unlock(w)
  PROVE  Inv'
<1>u. UNCHANGED <<log, roster, inbox, boxLock, casts, cursor, mem, total, gone, got, crashes, lost>>
  BY DEF Unlock, Boxes, Collected, Deaths
<1>a. /\ pc[w] = "Deliver" /\ draft[w].for = {} /\ logLock = w /\ logLock' = Nobody /\ w \in Writer
      /\ pc' = [pc EXCEPT ![w] = "In"] /\ draft' = [draft EXCEPT ![w] = NoDraft]
  <2>1. pc[w] = "Deliver"
    BY DEF Unlock
  <2>2. logLock = w
    BY <2>1 DEF Inv, Locks
  <2> QED BY <2>2 DEF Unlock, Go
<1>b. /\ pc'[w] = "In" /\ \A v \in Writer \ {w} : pc'[v] = pc[v]
      /\ \A v \in Writer : (Writing(v) => v = w) /\ ~Writing(v)'
  BY <1>a DEF Inv, TypeOK, Locks, Writing
<1>c. \A v \in Writer : draft'[v].for = draft[v].for /\ (v # w => draft'[v] = draft[v])
  BY <1>a DEF Inv, TypeOK, NoDraft
<1>1. TypeOK'
  <2>1. draft' \in [Writer -> [to : Address \cup {"group", "broadcast", "nobody"},
                            expected : Run \cup {Nobody}, line : 0..LogCap,
                            for : SUBSET Address]]
    BY <1>a DEF Inv, TypeOK, NoDraft
  <2>2. logLock' \in Writer \cup {Nobody}
    BY <1>u, <1>a, <1>b, <1>c DEF Inv, TypeOK
  <2>3. pc' \in [Writer -> Pc]
    BY <1>u, <1>a, <1>b, <1>c DEF Inv, TypeOK, Pc
  <2> QED BY <1>u, <2>1, <2>2, <2>3 DEF Inv, TypeOK
<1>2. Locks'
  BY <1>u, <1>a, <1>b, <1>c DEF Inv, Locks
<1>3. Joined'
  BY <1>u, <1>a, <1>b, <1>c DEF Inv, Joined
<1>4. Drafts'
  BY <1>u, <1>a, <1>b, <1>c DEF Inv, Drafts, Writing
<1>5. Logged'
  BY <1>u, <1>a, <1>b, <1>c DEF Inv, Logged, Has
<1>6. Fresh'
  BY <1>u, <1>a, <1>b, <1>c DEF Inv, Fresh, Writing, Has
<1>7. Sorted'
  BY <1>u, <1>a, <1>b, <1>c DEF Inv, Sorted
<1>8. Behind'
  BY <1>u, <1>a, <1>b, <1>c DEF Inv, Behind, Has
<1>9. Cursors'
  BY <1>u, <1>a, <1>b, <1>c DEF Inv, Cursors, Before, Reading
<1>10. Apart'
  BY <1>u, <1>a, <1>b, <1>c DEF Inv, Apart, Has
<1>11. Accounted'
  <2>1. \A b : Handed(b)' = Handed(b) /\ Held(b)' = Held(b) /\ Waiting(b)' = Waiting(b)
    BY <1>u DEF Handed, Held, Waiting
  <2>2. \A b : Coming(b) \subseteq Coming(b)'
    BY <1>a, <1>c DEF Coming
  <2> QED BY <1>u, <2>1, <2>2 DEF Inv, Accounted
<1> QED BY <1>1, <1>2, <1>3, <1>4, <1>5, <1>6, <1>7, <1>8, <1>9, <1>10, <1>11 DEF Inv

LEMMA OpenInv ==
  ASSUME Inv, NEW w \in Writer, Open(w)
  PROVE  Inv'
<1>u. UNCHANGED <<log, roster, logLock, inbox, casts, cursor, draft, mem, total, gone, got, crashes,
      lost>>
  BY DEF Open, Boxes, Collected, Deaths
<1>c. PICK a \in draft[w].for :
        boxLock[a] = Nobody /\ boxLock' = [boxLock EXCEPT ![a] = w] /\ pc' = [pc EXCEPT ![w] = "Write"]
  BY DEF Open, Go
<1>a. pc[w] = "Deliver" /\ draft[w].to # "broadcast" /\ a \in Address
  BY DEF Open, Inv, TypeOK
<1>b. /\ pc'[w] = "Write" /\ \A v \in Writer \ {w} : pc'[v] = pc[v]
      /\ \A v \in Writer : Writing(v)' <=> Writing(v)
  BY <1>a, <1>c DEF Inv, TypeOK, Writing
<1>1. TypeOK'
  <2>1. boxLock' \in [Address -> Writer \cup {Nobody}]
    BY <1>u, <1>a, <1>b, <1>c DEF Inv, TypeOK
  <2>2. pc' \in [Writer -> Pc]
    BY <1>u, <1>a, <1>b, <1>c DEF Inv, TypeOK, Pc
  <2> QED BY <1>u, <2>1, <2>2 DEF Inv, TypeOK
<1>2. Locks'
  BY <1>u, <1>a, <1>b, <1>c DEF Inv, Locks
<1>3. Joined'
  BY <1>u, <1>a, <1>b, <1>c DEF Inv, Joined
<1>4. Drafts'
  BY <1>u, <1>a, <1>b, <1>c DEF Inv, Drafts, Writing
<1>5. Logged'
  BY <1>u, <1>a, <1>b, <1>c DEF Inv, Logged, Has
<1>6. Fresh'
  BY <1>u, <1>a, <1>b, <1>c DEF Inv, Fresh, Writing, Has
<1>7. Sorted'
  BY <1>u, <1>a, <1>b, <1>c DEF Inv, Sorted
<1>8. Behind'
  BY <1>u, <1>a, <1>b, <1>c DEF Inv, Behind, Has
<1>9. Cursors'
  BY <1>u, <1>a, <1>b, <1>c DEF Inv, Cursors, Before, Reading
<1>10. Apart'
  BY <1>u, <1>a, <1>b, <1>c DEF Inv, Apart, Has
<1>11. Accounted'
  <2>1. \A b : Handed(b)' = Handed(b) /\ Held(b)' = Held(b)
    BY <1>u DEF Handed, Held
  <2>2. \A b : Coming(b)' = Coming(b) /\ Waiting(b)' = Waiting(b)
    BY <1>u DEF Coming, Waiting
  <2> QED BY <1>u, <2>1, <2>2 DEF Inv, Accounted
<1> QED BY <1>1, <1>2, <1>3, <1>4, <1>5, <1>6, <1>7, <1>8, <1>9, <1>10, <1>11 DEF Inv

LEMMA WriteLineInv ==
  ASSUME Inv, NEW w \in Writer, WriteLine(w)
  PROVE  Inv'
<1>u. UNCHANGED <<log, roster, logLock, casts, cursor, mem, total, got, crashes, lost>>
  BY DEF WriteLine, Boxes, Collected, Deaths
<1> DEFINE n == Len(log)
<1>c. PICK a \in draft[w].for :
        /\ boxLock[a] = w
        /\ inbox' = IF w \in gone THEN inbox ELSE [inbox EXCEPT ![a] = Append(@, draft[w].line)]
        /\ boxLock' = [boxLock EXCEPT ![a] = Nobody]
        /\ draft' = [draft EXCEPT ![w].for = @ \ {a}]
  BY DEF WriteLine
<1>a. /\ pc[w] = "Write" /\ a \in Address /\ a \in draft[w].for /\ gone = {} /\ gone' = {}
      /\ Writing(w) /\ draft[w].line = n /\ draft[w].to # "broadcast" /\ n \in Message
      /\ inbox[a] \in Seq(Message) /\ logLock = w
      /\ inbox' = [inbox EXCEPT ![a] = Append(inbox[a], n)]
      /\ boxLock' = [boxLock EXCEPT ![a] = Nobody]
      /\ pc' = [pc EXCEPT ![w] = "Deliver"]
  <2>1. pc[w] = "Write" /\ Writing(w) /\ gone = {} /\ a \in Address /\ pc' = [pc EXCEPT ![w] = "Deliver"]
        /\ gone' = gone \ {w} /\ logLock = w /\ inbox[a] \in Seq(Message)
    BY DEF WriteLine, Inv, TypeOK, Locks, Writing, Go
  <2>2. n > 0 /\ draft[w].line = n /\ draft[w].to # "broadcast"
    BY <2>1 DEF Inv, Drafts
  <2>3. n \in Message
    BY <2>2, LogIs DEF Message, Inv
  <2> QED BY <1>c, <2>1, <2>2, <2>3
<1>b. /\ pc'[w] = "Deliver" /\ \A v \in Writer \ {w} : pc'[v] = pc[v]
      /\ \A v \in Writer : (Writing(v)' <=> Writing(v)) /\ (Writing(v) => v = w)
  BY <1>a DEF Inv, TypeOK, Writing, Locks
<1>d. /\ n \notin ToSet(casts) /\ n \notin ToSet(inbox[a])
      /\ \A r \in Run : At[r] = a => n \notin Has(r)
      /\ inbox'[a] \in Seq(Message) /\ ToSet(inbox'[a]) = ToSet(inbox[a]) \cup {n}
      /\ inbox'[a] = Append(inbox[a], n)
      /\ \A b \in Address \ {a} : inbox'[b] = inbox[b]
  <2>1. /\ n \notin ToSet(casts) /\ n \notin ToSet(inbox[a])
        /\ \A r \in Run : At[r] = a => n \notin Has(r)
    BY <1>a DEF Inv, Fresh
  <2>2. inbox'[a] = Append(inbox[a], n) /\ \A b \in Address \ {a} : inbox'[b] = inbox[b]
    BY <1>a DEF Inv, TypeOK
  <2>3. Append(inbox[a], n) \in Seq(Message) /\ ToSet(Append(inbox[a], n)) = ToSet(inbox[a]) \cup {n}
    BY <1>a, AppendSet
  <2> QED BY <2>1, <2>2, <2>3
<1>e. /\ draft'[w].for = draft[w].for \ {a} /\ draft'[w].to = draft[w].to
      /\ draft'[w].expected = draft[w].expected /\ draft'[w].line = draft[w].line
      /\ \A v \in Writer \ {w} : draft'[v] = draft[v]
  BY <1>c DEF Inv, TypeOK
<1>1. TypeOK'
  <2>1. inbox' \in [Address -> Seq(Message)]
    BY <1>a, <1>d DEF Inv, TypeOK
  <2>2. boxLock' \in [Address -> Writer \cup {Nobody}]
    BY <1>u, <1>a, <1>b, <1>d, <1>e DEF Inv, TypeOK
  <2>3. draft' \in [Writer -> [to : Address \cup {"group", "broadcast", "nobody"},
                            expected : Run \cup {Nobody}, line : 0..LogCap,
                            for : SUBSET Address]]
    <3> DEFINE Rec == [to : Address \cup {"group", "broadcast", "nobody"},
                       expected : Run \cup {Nobody}, line : 0..LogCap, for : SUBSET Address]
    <3>1. draft \in [Writer -> Rec] /\ draft[w] \in Rec
      BY DEF Inv, TypeOK
    <3>2. [draft[w] EXCEPT !.for = draft[w].for \ {a}] \in Rec
      BY <3>1
    <3>3. draft' = [draft EXCEPT ![w] = [draft[w] EXCEPT !.for = draft[w].for \ {a}]]
      BY <1>c
    <3> QED BY <3>1, <3>2, <3>3
  <2>4. gone' \in SUBSET Writer
    BY <1>u, <1>a, <1>b, <1>d, <1>e DEF Inv, TypeOK
  <2>5. pc' \in [Writer -> Pc]
    BY <1>u, <1>a, <1>b, <1>d, <1>e DEF Inv, TypeOK, Pc
  <2> QED BY <1>u, <2>1, <2>2, <2>3, <2>4, <2>5 DEF Inv, TypeOK
<1>2. Locks'
  <2>1. boxLock'[a] = Nobody /\ \A b \in Address \ {a} : boxLock'[b] = boxLock[b] /\ boxLock[b] # w
    BY <1>a, <1>c DEF Inv, TypeOK, Locks
  <2>2. ASSUME NEW b \in Address, boxLock'[b] # Nobody
        PROVE  LET v == boxLock'[b] IN
               \/ pc'[v] = "Write" /\ b \in draft'[v].for
               \/ v \in Run /\ pc'[v] = "Cursor" /\ At[v] = b
    <3>1. b # a /\ boxLock'[b] = boxLock[b] /\ boxLock[b] \in Writer \ {w}
      BY <2>1, <2>2 DEF Inv, TypeOK
    <3> QED BY <1>b, <1>e, <2>2, <3>1 DEF Inv, Locks
  <2>3. \A r \in Run : pc'[r] = "Cursor" => boxLock'[At[r]] = r
    <3>1. \A r \in Run : pc'[r] = "Cursor" => r # w /\ pc[r] = "Cursor" /\ At[r] # a
      BY <1>a, <1>b, <1>c DEF Inv, Locks
    <3> QED BY <2>1, <3>1 DEF Inv, Locks
  <2>4. \A b, c \in Address : boxLock'[b] # Nobody /\ boxLock'[b] = boxLock'[c] => b = c
    BY <2>1 DEF Inv, Locks
  <2>5. \A v \in Writer : pc'[v] \in {"Register", "Deliver", "Write"} => logLock' = v
    BY <1>u, <1>a, <1>b DEF Inv, Locks
  <2> QED BY <1>a, <2>2, <2>3, <2>4, <2>5 DEF Locks
<1>3. Joined'
  BY <1>u, <1>a, <1>b, <1>d, <1>e DEF Inv, Joined
<1>4. Drafts'
  <2>1. ASSUME NEW v \in Writer, v # w PROVE ~Writing(v)' /\ draft'[v].for = {}
    BY <1>b, <1>e, <2>1 DEF Inv, Drafts
  <2>2. \A b \in draft'[w].for : b # a /\ b \in Address /\ Len(inbox'[b]) < MsgCap
    <3>1. \A b \in draft'[w].for : b # a /\ b \in draft[w].for /\ b \in Address
      BY <1>e DEF Inv, TypeOK
    <3> QED BY <1>a, <1>d, <3>1 DEF Inv, Drafts
  <2>3. Writing(w)'
    BY <1>a, <1>b
  <2>4. /\ Len(log) > 0
        /\ draft[w].expected # Nobody =>
              draft[w].to \in Address /\ roster[draft[w].to] = [run |-> draft[w].expected, live |-> TRUE]
    BY <1>a DEF Inv, Drafts
  <2> QED BY <1>u, <1>a, <1>e, <2>1, <2>2, <2>3, <2>4 DEF Drafts
<1>5. Logged'
  BY <1>u, <1>a, <1>b, <1>d, <1>e DEF Inv, Logged, Has
<1>6. Fresh'
  BY <1>u, <1>a, <1>b, <1>d, <1>e DEF Inv, Fresh, Writing, Has
<1>7. Sorted'
  <2>1. \A m \in ToSet(inbox[a]) : m < n
    <3>1. \A m \in ToSet(inbox[a]) : m <= n /\ m \in Message
      BY <1>a, SetOf DEF Inv, Logged
    <3> QED BY <1>a, <1>d, <3>1 DEF Message
  <2>2. Increasing(inbox'[a])
    BY <1>a, <1>d, <2>1, AppendIncreasing DEF Inv, Sorted
  <2>3. \A b \in Address : Increasing(inbox'[b])
    BY <1>d, <2>2 DEF Inv, Sorted
  <2> QED BY <1>u, <2>3 DEF Inv, Sorted
<1>8. Behind'
  <2>1. \A r \in Run : At[r] = a => \A m \in Has(r) : m < n
    <3>1. \A r \in Run : \A m \in Has(r) : m <= n /\ m \in Message
      BY SetOf DEF Inv, TypeOK, Logged, Has
    <3> QED BY <1>a, <1>d, <3>1 DEF Message
  <2>2. \A r \in Run : At[r] \in Address
    OBVIOUS
  <2>3. \A r \in Run : Has(r)' = Has(r)
    BY <1>u DEF Has
  <2>4. ASSUME NEW r \in Run, NEW m \in Has(r) \ ToSet(casts), NEW k \in ToSet(inbox'[At[r]])
        PROVE  m < k
    <3>1. CASE At[r] = a /\ k = n
      BY <2>1, <3>1
    <3>2. CASE ~(At[r] = a /\ k = n)
      <4>1. k \in ToSet(inbox[At[r]])
        <5>1. CASE At[r] = a
          BY <1>d, <2>4, <3>2, <5>1
        <5>2. CASE At[r] # a
          BY <1>d, <2>2, <2>4, <5>2
        <5> QED BY <5>1, <5>2
      <4> QED BY <4>1 DEF Inv, Behind
    <3> QED BY <3>1, <3>2
  <2> QED BY <1>u, <2>3, <2>4 DEF Inv, Behind
<1>9. Cursors'
  BY <1>u, <1>a, <1>b, <1>d, <1>e DEF Inv, Cursors, Before, Reading
<1>10. Apart'
  BY <1>u, <1>a, <1>b, <1>d, <1>e DEF Inv, Apart, Has
<1>11. Accounted'
  <2>1. \A b : Handed(b)' = Handed(b) /\ Held(b)' = Held(b)
    BY <1>u DEF Handed, Held
  <2>2. \A b \in Address : Coming(b) \subseteq Coming(b)' \cup (IF b = a THEN {n} ELSE {})
    BY <1>a, <1>e DEF Coming
  <2>3. \A b \in Address : Waiting(b) \cup (IF b = a THEN {n} ELSE {}) \subseteq Waiting(b)'
    BY <1>u, <1>d DEF Waiting
  <2>4. \A b \in Address : Where(b) \subseteq Where(b)'
    BY <2>1, <2>2, <2>3 DEF Where
  <2> QED BY <1>u, <2>4, AccountedStep
<1> QED BY <1>1, <1>2, <1>3, <1>4, <1>5, <1>6, <1>7, <1>8, <1>9, <1>10, <1>11 DEF Inv

LEMMA CastInv ==
  ASSUME Inv, NEW w \in Writer, Cast(w)
  PROVE  Inv'
<1>u. UNCHANGED <<log, roster, logLock, inbox, boxLock, cursor, pc, mem, total, gone, got, crashes, lost>>
  BY DEF Cast, Boxes, Collected, Deaths
<1> DEFINE n == Len(log)
<1>a. /\ pc[w] = "Deliver" /\ draft[w].to = "broadcast" /\ draft[w].for # {} /\ Writing(w)
      /\ draft[w].line = n /\ n \in DOMAIN log /\ n \in Message /\ casts \in Seq(Message)
      /\ Len(casts) < MsgCap /\ log[n].from \notin log[n].for /\ casts' = Append(casts, n)
  <2>1. pc[w] = "Deliver" /\ draft[w].to = "broadcast" /\ draft[w].for # {} /\ Writing(w)
        /\ casts \in Seq(Message) /\ casts' = Append(casts, draft[w].line)
    BY DEF Cast, Writing, Inv, TypeOK
  <2>2. n > 0 /\ draft[w].line = n /\ Len(casts) < MsgCap /\ log[n].from \notin log[n].for
    BY <2>1 DEF Inv, Drafts
  <2>3. n \in Message /\ n \in DOMAIN log
    BY <2>2, LogIs DEF Message, Inv
  <2> QED BY <2>1, <2>2, <2>3
<1>b. /\ \A v \in Writer : Writing(v)' <=> Writing(v)
      /\ \A v \in Writer : Writing(v) => v = w
  BY <1>a, <1>u DEF Inv, Writing, Locks
<1>d. /\ n \notin ToSet(casts) /\ \A a \in Address : n \notin ToSet(inbox[a])
      /\ \A r \in Run : n \notin Has(r) /\ n \notin ToSet(got[r]) /\ n \notin ToSet(mem[r])
  BY <1>a DEF Inv, Fresh, Has
<1>e. /\ draft'[w].for = {} /\ draft'[w].to = draft[w].to
      /\ draft'[w].expected = draft[w].expected /\ draft'[w].line = draft[w].line
      /\ \A v \in Writer \ {w} : draft'[v] = draft[v]
  BY DEF Cast, Inv, TypeOK
<1>f. /\ casts' \in Seq(Message) /\ ToSet(casts') = ToSet(casts) \cup {n}
      /\ Len(casts) \in Nat /\ Len(casts') = Len(casts) + 1
      /\ casts'[Len(casts) + 1] = n /\ \A k \in 1..Len(casts) : casts'[k] = casts[k]
  <2>1. \A k \in 1..Len(casts) : Append(casts, n)[k] = casts[k]
    BY <1>a, AppendProperties
  <2>2. Append(casts, n)[Len(casts) + 1] = n
    BY <1>a, AppendProperties
  <2> QED BY <1>a, <2>1, <2>2, AppendSet, LenProperties
<1>g. \A a \in Address : Before(a)' = Before(a)
  <2>1. \A a \in Address : cursor'[a] = cursor[a] /\ cursor[a] \in -1..Len(casts)
    BY <1>u DEF Inv, TypeOK
  <2>2. \A a \in Address : \A k \in 1..cursor[a] : casts'[k] = casts[k]
    BY <1>f, <2>1
  <2> QED BY <2>1, <2>2 DEF Before
<1>h. \A r \in Run : pc[r] = "Cursor" => Reading(r)' = Reading(r)
  <2>1. \A r \in Run : pc[r] = "Cursor" =>
          /\ cursor'[At[r]] = cursor[At[r]] /\ cursor[At[r]] \in 0..Len(casts)
          /\ total'[r] = total[r] /\ total[r] \in 0..Len(casts)
    <3>1. \A r \in Run : /\ cursor'[At[r]] = cursor[At[r]] /\ cursor[At[r]] \in -1..Len(casts)
                         /\ total'[r] = total[r] /\ total[r] \in 0..Len(casts)
      BY <1>u DEF Inv, TypeOK
    <3>2. \A r \in Run : pc[r] = "Cursor" => cursor[At[r]] # -1
      BY DEF Inv, Joined
    <3> QED BY <1>f, <3>1, <3>2
  <2>2. \A r \in Run : pc[r] = "Cursor" =>
          \A k \in (cursor[At[r]] + 1)..total[r] : casts'[k] = casts[k]
    BY <1>f, <2>1
  <2> QED BY <2>1, <2>2 DEF Reading
<1>1. TypeOK'
  <2>1. casts' \in Seq(Message) /\ Len(casts') <= MsgCap
    BY <1>a, <1>f
  <2>2. cursor' \in [Address -> -1..Len(casts')] /\ total' \in [Run -> 0..Len(casts')]
    BY <1>u, <1>f DEF Inv, TypeOK
  <2>3. draft' \in [Writer -> [to : Address \cup {"group", "broadcast", "nobody"},
                               expected : Run \cup {Nobody}, line : 0..LogCap, for : SUBSET Address]]
    <3> DEFINE Rec == [to : Address \cup {"group", "broadcast", "nobody"},
                       expected : Run \cup {Nobody}, line : 0..LogCap, for : SUBSET Address]
    <3>1. draft \in [Writer -> Rec] /\ draft[w] \in Rec
      BY DEF Inv, TypeOK
    <3>2. [draft[w] EXCEPT !.for = {}] \in Rec
      BY <3>1
    <3>3. draft' = [draft EXCEPT ![w] = [draft[w] EXCEPT !.for = {}]]
      BY DEF Cast
    <3> QED BY <3>1, <3>2, <3>3
  <2> QED BY <1>u, <2>1, <2>2, <2>3 DEF Inv, TypeOK
<1>2. Locks'
  <2>1. \A v \in Writer : pc[v] = "Write" => draft'[v] = draft[v]
    BY <1>a, <1>e
  <2>2. \A b \in Address : boxLock[b] # Nobody =>
           /\ boxLock[b] \in Writer
           /\ \/ pc[boxLock[b]] = "Write" /\ b \in draft'[boxLock[b]].for
              \/ boxLock[b] \in Run /\ pc[boxLock[b]] = "Cursor" /\ At[boxLock[b]] = b
    <3>1. \A b \in Address : boxLock[b] \in Writer \cup {Nobody}
      BY DEF Inv, TypeOK
    <3>2. \A b \in Address : boxLock[b] # Nobody =>
             \/ pc[boxLock[b]] = "Write" /\ b \in draft[boxLock[b]].for
             \/ boxLock[b] \in Run /\ pc[boxLock[b]] = "Cursor" /\ At[boxLock[b]] = b
      BY DEF Inv, Locks
    <3> QED BY <2>1, <3>1, <3>2
  <2> QED BY <1>u, <2>2 DEF Inv, Locks
<1>3. Joined'
  BY <1>u, <1>a, <1>b, <1>d, <1>e, <1>f DEF Inv, Joined
<1>4. Drafts'
  BY <1>u, <1>a, <1>b, <1>d, <1>e, <1>f DEF Inv, Drafts, Writing
<1>5. Logged'
  BY <1>u, <1>a, <1>b, <1>d, <1>e, <1>f DEF Inv, Logged, Has
<1>6. Fresh'
  BY <1>u, <1>a, <1>b, <1>d, <1>e, <1>f DEF Inv, Fresh, Writing, Has
<1>7. Sorted'
  <2>1. \A m \in ToSet(casts) : m < n
    <3>1. \A m \in ToSet(casts) : m <= n /\ m \in Message
      BY <1>a, SetOf DEF Inv, Logged
    <3> QED BY <1>a, <1>d, <3>1 DEF Message
  <2>2. Increasing(casts')
    BY <1>a, <2>1, AppendIncreasing DEF Inv, Sorted
  <2>3. ASSUME NEW r \in Run PROVE Ordered(mem[r], ToSet(casts')) /\ Ordered(got[r], ToSet(casts'))
    <3>1. /\ \A i \in DOMAIN mem[r] : mem[r][i] # n
          /\ \A i \in DOMAIN got[r] : got[r][i] # n
      BY <1>d DEF ToSet
    <3> QED BY <1>f, <3>1 DEF Inv, Sorted, Ordered
  <2> QED BY <1>u, <2>2, <2>3 DEF Inv, Sorted
<1>8. Behind'
  BY <1>u, <1>a, <1>b, <1>d, <1>e, <1>f DEF Inv, Behind, Has
<1>9. Cursors'
  <2>1. ASSUME NEW r \in Run
        PROVE  /\ ToSet(got[r]) \cap ToSet(casts') = ToSet(got[r]) \cap ToSet(casts)
               /\ ToSet(mem[r]) \cap ToSet(casts') = ToSet(mem[r]) \cap ToSet(casts)
    BY <1>d, <1>f
  <2> QED BY <1>u, <1>g, <1>h, <2>1 DEF Inv, Cursors
<1>10. Apart'
  BY <1>u, <1>a, <1>b, <1>d, <1>e, <1>f DEF Inv, Apart, Has
<1>11. Accounted'
  <2>1. \A b : Handed(b)' = Handed(b) /\ Held(b)' = Held(b)
    BY <1>u DEF Handed, Held
  <2>2. \A b \in Address : Coming(b) \subseteq Coming(b)' \cup {n}
    BY <1>a, <1>e DEF Coming
  <2>3. ASSUME NEW b \in Address PROVE Waiting(b) \cup {n} \subseteq Waiting(b)'
    <3>1. CASE cursor[b] = -1
      BY <1>u, <1>f, <3>1 DEF Waiting
    <3>2. CASE cursor[b] # -1
      <4>1. cursor[b] \in 0..Len(casts) /\ cursor'[b] = cursor[b]
        BY <1>u, <3>2 DEF Inv, TypeOK
      <4>2. ToSet(SubSeq(casts, cursor[b] + 1, Len(casts))) = {casts[k] : k \in (cursor[b] + 1)..Len(casts)}
        BY <1>a, <1>f, <4>1, SubSeqSet
      <4>3. ToSet(SubSeq(casts', cursor[b] + 1, Len(casts'))) = {casts'[k] : k \in (cursor[b] + 1)..Len(casts')}
        <5>1. cursor[b] \in Nat /\ cursor[b] <= Len(casts')
          BY <1>f, <4>1
        <5> QED BY <1>f, <5>1, SubSeqSet
      <4>4. \A k \in (cursor[b] + 1)..Len(casts) : k \in (cursor[b] + 1)..Len(casts') /\ casts'[k] = casts[k]
        BY <1>f, <4>1
      <4>5. Len(casts) + 1 \in (cursor[b] + 1)..Len(casts')
        BY <1>f, <4>1
      <4>6. {casts[k] : k \in (cursor[b] + 1)..Len(casts)} \cup {n}
               \subseteq {casts'[k] : k \in (cursor[b] + 1)..Len(casts')}
        BY <1>f, <4>4, <4>5
      <4> QED BY <1>u, <1>f, <3>2, <4>1, <4>2, <4>3, <4>6 DEF Waiting
    <3> QED BY <3>1, <3>2
  <2>4. \A b \in Address : Where(b) \subseteq Where(b)'
    BY <2>1, <2>2, <2>3 DEF Where
  <2> QED BY <1>u, <2>4, AccountedStep
<1> QED BY <1>1, <1>2, <1>3, <1>4, <1>5, <1>6, <1>7, <1>8, <1>9, <1>10, <1>11 DEF Inv

LEMMA HandInv ==
  ASSUME Inv, NEW r \in Run, Hand(r)
  PROVE  Inv'
<1>u. UNCHANGED <<log, roster, logLock, inbox, boxLock, casts, cursor, draft, total, gone, crashes, lost>>
  BY DEF Hand, Boxes, Collected, Deaths
<1>a. /\ pc[r] = "Hand" /\ r \in Writer
      /\ got' = [got EXCEPT ![r] = got[r] \o mem[r]] /\ mem' = [mem EXCEPT ![r] = <<>>]
      /\ pc' = [pc EXCEPT ![r] = "In"] /\ got[r] \in Seq(Message) /\ mem[r] \in Seq(Message)
  BY DEF Hand, Go, Inv, TypeOK
<1>b. /\ pc'[r] = "In" /\ \A w \in Writer \ {r} : pc'[w] = pc[w]
      /\ \A w \in Writer : Writing(w)' <=> Writing(w)
  BY <1>a DEF Inv, TypeOK, Writing
<1>d. /\ got'[r] = got[r] \o mem[r] /\ got'[r] \in Seq(Message)
      /\ ToSet(got'[r]) = ToSet(got[r]) \cup ToSet(mem[r])
      /\ mem'[r] = <<>> /\ ToSet(mem'[r]) = {}
      /\ \A q \in Run \ {r} : got'[q] = got[q] /\ mem'[q] = mem[q]
  <2>1. got'[r] = got[r] \o mem[r] /\ mem'[r] = <<>>
        /\ \A q \in Run \ {r} : got'[q] = got[q] /\ mem'[q] = mem[q]
    BY <1>a DEF Inv, TypeOK
  <2>2. ToSet(<<>>) = {}
    BY DEF ToSet
  <2>3. got[r] \o mem[r] \in Seq(Message)
        /\ ToSet(got[r] \o mem[r]) = ToSet(got[r]) \cup ToSet(mem[r])
    BY <1>a, ConcatSet
  <2> QED BY <2>1, <2>2, <2>3
<1>e. \A q \in Run : Has(q)' = Has(q)
  BY <1>d DEF Has
<1>1. TypeOK'
  <2>1. mem' \in [Run -> Seq(Message)]
    BY <1>a DEF Inv, TypeOK
  <2>2. got' \in [Run -> Seq(Message)]
    BY <1>a, <1>d DEF Inv, TypeOK
  <2>3. pc' \in [Writer -> Pc]
    BY <1>u, <1>a, <1>b, <1>d, <1>e DEF Inv, TypeOK, Pc
  <2> QED BY <1>u, <2>1, <2>2, <2>3 DEF Inv, TypeOK
<1>2. Locks'
  BY <1>u, <1>a, <1>b, <1>d, <1>e DEF Inv, Locks
<1>3. Joined'
  BY <1>u, <1>a, <1>b, <1>d, <1>e DEF Inv, Joined
<1>4. Drafts'
  BY <1>u, <1>a, <1>b, <1>d, <1>e DEF Inv, Drafts, Writing
<1>5. Logged'
  BY <1>u, <1>a, <1>b, <1>d, <1>e DEF Inv, Logged, Has
<1>6. Fresh'
  BY <1>u, <1>b, <1>e DEF Inv, Fresh
<1>7. Sorted'
  <2>1. Ordered(got[r] \o mem[r], ToSet(casts))
    BY <1>a, ConcatOrdered DEF Inv, Sorted, Behind
  <2>2. Ordered(<<>>, ToSet(casts))
    BY DEF Ordered
  <2> QED BY <1>u, <1>d, <2>1, <2>2 DEF Inv, Sorted
<1>8. Behind'
  BY <1>u, <1>a, <1>b, <1>d, <1>e DEF Inv, Behind, Has
<1>9. Cursors'
  <2>1. \A a : Before(a)' = Before(a)
    BY <1>u DEF Before
  <2>2. \A q : Reading(q)' = Reading(q)
    BY <1>u DEF Reading
  <2> QED BY <1>u, <1>a, <1>b, <1>d, <2>1, <2>2 DEF Inv, Cursors
<1>10. Apart'
  BY <1>u, <1>a, <1>b, <1>d, <1>e DEF Inv, Apart, Has
<1>11. Accounted'
  <2>1. \A b : Coming(b)' = Coming(b) /\ Waiting(b)' = Waiting(b)
    BY <1>u DEF Coming, Waiting
  <2>2. \A b : Handed(b) \subseteq Handed(b)'
    BY <1>d DEF Handed
  <2>3. \A b : Held(b) \subseteq Held(b)' \cup Handed(b)'
    BY <1>d DEF Held, Handed
  <2>4. \A b : Where(b) \subseteq Where(b)'
    BY <2>1, <2>2, <2>3 DEF Where
  <2> QED BY <1>u, <2>4, AccountedStep
<1> QED BY <1>1, <1>2, <1>3, <1>4, <1>5, <1>6, <1>7, <1>8, <1>9, <1>10, <1>11 DEF Inv

LEMMA TakeInv ==
  ASSUME Inv, NEW r \in Run, Take(r)
  PROVE  Inv'
<1>u. UNCHANGED <<log, roster, logLock, boxLock, casts, cursor, draft, total, got, crashes, lost>>
  BY DEF Take, Boxes, Collected, Deaths
<1> DEFINE a == At[r]
<1>a. /\ pc[r] = "In" /\ boxLock[a] = Nobody /\ gone' = {} /\ a \in Address /\ r \in Writer
      /\ mem' = [mem EXCEPT ![r] = inbox[a]] /\ inbox' = [inbox EXCEPT ![a] = <<>>]
      /\ pc' = [pc EXCEPT ![r] = "Read"] /\ inbox[a] \in Seq(Message) /\ mem[r] = <<>>
  <2>1. pc[r] = "In" /\ boxLock[a] = Nobody /\ a \in Address /\ r \in Writer
    BY DEF Take, Free
  <2>2. Opened(a) = {}
    BY <2>1 DEF Opened
  <2>3. gone = {} /\ mem[r] = <<>> /\ inbox[a] \in Seq(Message)
    BY <2>1 DEF Inv, TypeOK, Locks, Cursors
  <2> QED BY <2>1, <2>2, <2>3 DEF Take, Go
<1>b. /\ pc'[r] = "Read" /\ \A w \in Writer \ {r} : pc'[w] = pc[w]
      /\ \A w \in Writer : Writing(w)' <=> Writing(w)
  BY <1>a DEF Inv, TypeOK, Writing
<1>d. /\ mem'[r] = inbox[a] /\ \A q \in Run \ {r} : mem'[q] = mem[q]
      /\ inbox'[a] = <<>> /\ \A b \in Address \ {a} : inbox'[b] = inbox[b]
      /\ ToSet(inbox'[a]) = {} /\ Len(inbox'[a]) = 0 /\ ToSet(mem[r]) = {}
  <2>1. ToSet(<<>>) = {} /\ Len(<<>>) = 0
    BY DEF ToSet
  <2> QED BY <1>a, <2>1 DEF Inv, TypeOK
<1>e. /\ Has(r)' = Has(r) \cup ToSet(inbox[a])
      /\ \A q \in Run \ {r} : Has(q)' = Has(q)
  BY <1>u, <1>d DEF Has
<1>1. TypeOK'
  <2>1. mem' \in [Run -> Seq(Message)]
    BY <1>a DEF Inv, TypeOK
  <2>2. inbox' \in [Address -> Seq(Message)]
    BY <1>a DEF Inv, TypeOK
  <2>3. gone' \in SUBSET Writer
    BY <1>u, <1>a, <1>b, <1>d, <1>e DEF Inv, TypeOK
  <2>4. pc' \in [Writer -> Pc]
    BY <1>u, <1>a, <1>b, <1>d, <1>e DEF Inv, TypeOK, Pc
  <2> QED BY <1>u, <2>1, <2>2, <2>3, <2>4 DEF Inv, TypeOK
<1>2. Locks'
  BY <1>u, <1>a, <1>b, <1>d, <1>e DEF Inv, Locks
<1>3. Joined'
  BY <1>u, <1>a, <1>b, <1>d, <1>e DEF Inv, Joined
<1>4. Drafts'
  <2>1. \A b \in Address : Len(inbox[b]) < MsgCap => Len(inbox'[b]) < MsgCap
    BY <1>d
  <2>2. \A w \in Writer : pc[w] = "Deliver" /\ Writing(w) => pc'[w] = "Deliver"
    BY <1>a, <1>b
  <2>3. \A w \in Writer : draft[w].for \subseteq Address
    BY DEF Inv, TypeOK
  <2> QED BY <1>u, <1>b, <2>1, <2>2, <2>3 DEF Inv, Drafts
<1>5. Logged'
  BY <1>u, <1>a, <1>b, <1>d, <1>e DEF Inv, Logged, Has
<1>6. Fresh'
  BY <1>u, <1>a, <1>b, <1>d, <1>e DEF Inv, Fresh, Writing, Has
<1>7. Sorted'
  <2>1. Increasing(inbox[a])
    BY <1>a DEF Inv, Sorted
  <2>2. Ordered(inbox[a], ToSet(casts)) /\ Increasing(<<>>)
    BY <2>1 DEF Ordered, Increasing
  <2> QED BY <1>u, <1>d, <2>2 DEF Inv, Sorted
<1>8. Behind'
  <2>1. ASSUME NEW q \in Run, NEW m \in Has(q)' \ ToSet(casts), NEW k \in ToSet(inbox'[At[q]])
        PROVE  m < k
    <3>1. At[q] # a /\ At[q] \in Address
      BY <1>d, <2>1
    <3>2. k \in ToSet(inbox[At[q]]) /\ m \in Has(q)
      BY <1>d, <1>e, <2>1, <3>1
    <3> QED BY <2>1, <3>2 DEF Inv, Behind
  <2>2. ASSUME NEW m \in ToSet(got[r]), NEW k \in ToSet(inbox[a]), m \in ToSet(casts) <=> k \in ToSet(casts)
        PROVE  m < k
    <3>1. k \notin ToSet(casts)
      BY <1>a DEF Inv, Logged
    <3>2. m \in Has(r) \ ToSet(casts)
      BY <2>2, <3>1 DEF Has
    <3> QED BY <3>2 DEF Inv, Behind
  <2> QED BY <1>u, <1>d, <2>1, <2>2 DEF Inv, Behind
<1>9. Cursors'
  <2>1. \A b : Before(b)' = Before(b)
    BY <1>u DEF Before
  <2>2. \A q : Reading(q)' = Reading(q)
    BY <1>u DEF Reading
  <2>3. ToSet(inbox[a]) \cap ToSet(casts) = {}
    BY <1>a DEF Inv, Logged
  <2> QED BY <1>u, <1>a, <1>b, <1>d, <2>1, <2>2, <2>3 DEF Inv, Cursors
<1>10. Apart'
  <2>1. ASSUME NEW q \in Run, At[q] = a, q # r PROVE Has(q) \cap ToSet(inbox[a]) = {}
    <3>1. ASSUME NEW m \in Has(q), m \in ToSet(inbox[a]) PROVE FALSE
      <4>1. m \notin ToSet(casts) /\ m \in Message
        BY <1>a, <3>1, SetOf DEF Inv, Logged
      <4>2. m < m
        BY <2>1, <3>1, <4>1 DEF Inv, Behind
      <4> QED BY <4>1, <4>2 DEF Message
    <3> QED BY <3>1
  <2> QED BY <1>e, <2>1 DEF Inv, Apart
<1>11. Accounted'
  <2>1. \A b : Coming(b)' = Coming(b) /\ Handed(b)' = Handed(b)
    BY <1>u DEF Coming, Handed
  <2>2. \A b : Held(b) \subseteq Held(b)'
    BY <1>d DEF Held
  <2>3. \A b \in Address : b # a => Waiting(b)' = Waiting(b)
    BY <1>u, <1>d DEF Waiting
  <2>4. ToSet(inbox[a]) \subseteq Held(a)'
    BY <1>d DEF Held
  <2>5. Waiting(a) \subseteq Waiting(a)' \cup ToSet(inbox[a])
    BY <1>u DEF Waiting
  <2>6. \A b \in Address : Where(b) \subseteq Where(b)'
    BY <2>1, <2>2, <2>3, <2>4, <2>5 DEF Where
  <2> QED BY <1>u, <2>6, AccountedStep
<1> QED BY <1>1, <1>2, <1>3, <1>4, <1>5, <1>6, <1>7, <1>8, <1>9, <1>10, <1>11 DEF Inv

LEMMA ReadCastsInv ==
  ASSUME Inv, NEW r \in Run, ReadCasts(r)
  PROVE  Inv'
<1>u. UNCHANGED <<log, roster, logLock, inbox, casts, cursor, draft, gone, got, crashes, lost>>
  BY DEF ReadCasts, Boxes, Collected, Deaths
<1> DEFINE a == At[r]
           c == cursor[a]
           F == FromOthers(SubSeq(casts, c + 1, Len(casts)), a)
<1>a. /\ pc[r] = "Read" /\ boxLock[a] = Nobody /\ a \in Address /\ r \in Writer
      /\ boxLock' = [boxLock EXCEPT ![a] = r] /\ pc' = [pc EXCEPT ![r] = "Cursor"]
      /\ mem' = [mem EXCEPT ![r] = mem[r] \o F] /\ total' = [total EXCEPT ![r] = Len(casts)]
      /\ mem[r] \in Seq(Message) /\ casts \in Seq(Message)
  BY DEF ReadCasts, Go, Inv, TypeOK
<1>b. /\ pc'[r] = "Cursor" /\ \A w \in Writer \ {r} : pc'[w] = pc[w]
      /\ \A w \in Writer : Writing(w)' <=> Writing(w)
  BY <1>a DEF Inv, TypeOK, Writing
<1>c. c \in Nat /\ c <= Len(casts) /\ Len(casts) \in Nat
  <2>1. c # -1
    BY <1>a DEF Inv, Joined
  <2>2. Len(casts) \in Nat /\ c \in -1..Len(casts)
    BY <1>a, LenProperties DEF Inv, TypeOK
  <2> QED BY <2>1, <2>2
<1>f. /\ F \in Seq(Message) /\ Increasing(F)
      /\ ToSet(F) = {m \in {casts[k] : k \in (c + 1)..Len(casts)} : log[m].from # a}
  <2> DEFINE t == SubSeq(casts, c + 1, Len(casts))
  <2>1. /\ t \in Seq(Message) /\ ToSet(t) = {casts[k] : k \in (c + 1)..Len(casts)}
        /\ Increasing(t)
    BY <1>a, <1>c, SubSeqSet DEF Inv, Sorted
  <2> HIDE DEF t
  <2>2. /\ FromOthers(t, a) \in Seq(Message) /\ Increasing(FromOthers(t, a))
        /\ ToSet(FromOthers(t, a)) = {m \in ToSet(t) : log[m].from # a}
    BY <2>1, FromOthersIs
  <2> QED BY <2>1, <2>2 DEF t
<1>g. DOMAIN casts = 1..Len(casts) /\ \A k \in 1..Len(casts) : casts[k] \in ToSet(casts)
  BY <1>a, SetOf
<1> HIDE DEF F
<1>h. \A m \in ToSet(F) : m \in ToSet(casts) /\ \E k \in (c + 1)..Len(casts) : m = casts[k]
  BY <1>c, <1>f, <1>g
<1>d. /\ mem'[r] = mem[r] \o F /\ mem'[r] \in Seq(Message)
      /\ ToSet(mem'[r]) = ToSet(mem[r]) \cup ToSet(F)
      /\ \A q \in Run \ {r} : mem'[q] = mem[q] /\ total'[q] = total[q]
      /\ total'[r] = Len(casts) /\ ToSet(mem[r]) \cap ToSet(casts) = {}
  <2>1. mem'[r] = mem[r] \o F /\ total'[r] = Len(casts)
        /\ \A q \in Run \ {r} : mem'[q] = mem[q] /\ total'[q] = total[q]
    BY <1>a DEF Inv, TypeOK
  <2>2. mem[r] \o F \in Seq(Message) /\ ToSet(mem[r] \o F) = ToSet(mem[r]) \cup ToSet(F)
    BY <1>a, <1>f, ConcatSet
  <2>3. ToSet(mem[r]) \cap ToSet(casts) = {}
    BY <1>a DEF Inv, Cursors
  <2> QED BY <2>1, <2>2, <2>3
<1>e. /\ Has(r)' = Has(r) \cup ToSet(F) /\ ToSet(F) \subseteq ToSet(casts)
      /\ \A q \in Run \ {r} : Has(q)' = Has(q)
  BY <1>u, <1>d, <1>h DEF Has
\* What is read is past the cursor, and what was given is not.
<1>i. \A m \in Before(a), k \in ToSet(F) : m < k
  <2> SUFFICES ASSUME NEW m \in Before(a), NEW k \in ToSet(F) PROVE m < k
    OBVIOUS
  <2>1. PICK i \in 1..c : m = casts[i]
    BY DEF Before
  <2>2. PICK j \in (c + 1)..Len(casts) : k = casts[j]
    BY <1>h
  <2>3. i \in DOMAIN casts /\ j \in DOMAIN casts /\ i < j
    BY <1>c, <1>g
  <2> QED BY <2>1, <2>2, <2>3 DEF Inv, Sorted, Increasing
<1>1. TypeOK'
  <2>1. boxLock' \in [Address -> Writer \cup {Nobody}]
    BY <1>u, <1>a, <1>b, <1>d, <1>e DEF Inv, TypeOK
  <2>2. mem' \in [Run -> Seq(Message)]
    BY <1>a, <1>d DEF Inv, TypeOK
  <2>3. total' \in [Run -> 0..Len(casts)]
    BY <1>u, <1>a, <1>c DEF Inv, TypeOK
  <2>4. pc' \in [Writer -> Pc]
    BY <1>u, <1>a, <1>b, <1>d, <1>e DEF Inv, TypeOK, Pc
  <2> QED BY <1>u, <2>1, <2>2, <2>3, <2>4 DEF Inv, TypeOK
<1>2. Locks'
  <2>1. boxLock'[a] = r /\ \A b \in Address \ {a} : boxLock'[b] = boxLock[b]
    BY <1>a DEF Inv, TypeOK
  <2>2. \A b \in Address : boxLock[b] # r
    BY <1>a DEF Inv, Locks
  <2>3. \A b \in Address : boxLock[b] # Nobody => boxLock[b] \in Writer \ {r}
    BY <2>2 DEF Inv, TypeOK
  <2>4. \A q \in Run : pc[q] = "Cursor" => q # r /\ At[q] # a
    BY <1>a DEF Inv, Locks
  <2>5. \A w \in Writer : pc'[w] \in {"Register", "Deliver", "Write"} => logLock' = w
    BY <1>u, <1>b DEF Inv, Locks
  <2>6. ASSUME NEW b \in Address, boxLock'[b] # Nobody
        PROVE  LET v == boxLock'[b] IN
               \/ pc'[v] = "Write" /\ b \in draft'[v].for
               \/ v \in Run /\ pc'[v] = "Cursor" /\ At[v] = b
    <3>1. CASE b = a
      BY <1>b, <2>1, <3>1
    <3>2. CASE b # a
      BY <1>u, <1>b, <2>1, <2>3, <2>6, <3>2 DEF Inv, Locks
    <3> QED BY <3>1, <3>2
  <2>7. \A b, d \in Address : boxLock'[b] # Nobody /\ boxLock'[b] = boxLock'[d] => b = d
    BY <2>1, <2>2 DEF Inv, Locks
  <2>8. \A q \in Run : pc'[q] = "Cursor" => boxLock'[At[q]] = q
    BY <1>b, <2>1, <2>4 DEF Inv, Locks
  <2> QED BY <1>u, <2>5, <2>6, <2>7, <2>8 DEF Inv, Locks
<1>3. Joined'
  <2>1. \A q \in Run : pc'[q] \notin {"Out", "Register"} <=> pc[q] \notin {"Out", "Register"}
    BY <1>a, <1>b
  <2>2. \A q \in Run : pc'[q] = "Register" <=> pc[q] = "Register"
    BY <1>a, <1>b
  <2> QED BY <1>u, <2>1, <2>2 DEF Inv, Joined
<1>4. Drafts'
  BY <1>u, <1>a, <1>b, <1>d, <1>e DEF Inv, Drafts, Writing
<1>5. Logged'
  BY <1>u, <1>a, <1>b, <1>d, <1>e DEF Inv, Logged, Has
<1>6. Fresh'
  BY <1>u, <1>a, <1>b, <1>d, <1>e DEF Inv, Fresh, Writing, Has
<1>7. Sorted'
  <2>1. Ordered(mem[r], ToSet(casts)) /\ Ordered(F, ToSet(casts))
    BY <1>f DEF Inv, Sorted, Ordered, Increasing
  <2>2. \A m \in ToSet(mem[r]), k \in ToSet(F) : ~(m \in ToSet(casts) <=> k \in ToSet(casts))
    BY <1>d, <1>e
  <2>3. Ordered(mem[r] \o F, ToSet(casts))
    BY <1>a, <1>f, <2>1, <2>2, ConcatOrdered
  <2> QED BY <1>u, <1>d, <2>3 DEF Inv, Sorted
<1>8. Behind'
  <2>1. \A q \in Run : Has(q)' \ ToSet(casts) \subseteq Has(q)
    BY <1>e
  <2>2. ASSUME NEW m \in ToSet(got[r]), NEW k \in ToSet(F), m \in ToSet(casts) PROVE m < k
    BY <1>i, <2>2 DEF Inv, Cursors
  <2>3. ASSUME NEW m \in ToSet(got[r]), NEW k \in ToSet(mem'[r]), m \in ToSet(casts) <=> k \in ToSet(casts)
        PROVE  m < k
    <3>1. CASE k \in ToSet(F)
      BY <1>e, <2>2, <2>3, <3>1
    <3>2. CASE k \in ToSet(mem[r])
      BY <2>3, <3>2 DEF Inv, Behind
    <3> QED BY <1>d, <3>1, <3>2
  <2> QED BY <1>u, <1>d, <2>1, <2>3 DEF Inv, Behind
<1>9. Cursors'
  <2>1. \A b : Before(b)' = Before(b)
    BY <1>u DEF Before
  <2>2. \A q \in Run \ {r} : Reading(q)' = Reading(q)
    BY <1>u, <1>d DEF Reading
  <2>3. Reading(r)' = {casts[k] : k \in (c + 1)..Len(casts)}
    BY <1>u, <1>d DEF Reading
  <2>4. ToSet(mem'[r]) \cap ToSet(casts) \subseteq Reading(r)'
    BY <1>d, <1>h, <2>3
  <2>5. ASSUME NEW m \in Reading(r)', a \in log[m].for PROVE m \in ToSet(mem'[r])
    <3>1. m \in ToSet(casts)
      BY <1>c, <1>g, <2>3
    <3>2. log[m].from # a
      BY <2>5, <3>1 DEF Inv, Logged
    <3> QED BY <1>d, <1>f, <2>3, <3>2
  <2>6. \A q \in Run : ToSet(got[q]) \cap ToSet(casts) \subseteq Before(At[q])
    BY DEF Inv, Cursors
  <2>7. \A q \in Run \ {r} :
          /\ pc[q] = "Cursor" =>
                /\ cursor[At[q]] <= total[q]
                /\ ToSet(mem[q]) \cap ToSet(casts) \subseteq Reading(q)
                /\ \A m \in Reading(q) : At[q] \in log[m].for => m \in ToSet(mem[q])
          /\ pc[q] # "Cursor" => ToSet(mem[q]) \cap ToSet(casts) \subseteq Before(At[q])
          /\ pc[q] \notin {"Read", "Cursor", "Hand"} => mem[q] = <<>>
          /\ pc[q] = "Read" => ToSet(mem[q]) \cap ToSet(casts) = {}
    BY DEF Inv, Cursors
  <2>8. \A q \in Run \ {r} : pc'[q] = pc[q] /\ mem'[q] = mem[q] /\ total'[q] = total[q]
    BY <1>b, <1>d
  <2>9. c <= total'[r]
    BY <1>c, <1>d
  <2> HIDE DEF c
  <2>10. ASSUME NEW q \in Run
         PROVE  /\ pc'[q] = "Cursor" =>
                      /\ cursor[At[q]] <= total'[q]
                      /\ ToSet(mem'[q]) \cap ToSet(casts) \subseteq Reading(q)'
                      /\ \A m \in Reading(q)' : At[q] \in log[m].for => m \in ToSet(mem'[q])
                /\ pc'[q] # "Cursor" => ToSet(mem'[q]) \cap ToSet(casts) \subseteq Before(At[q])
                /\ pc'[q] \notin {"Read", "Cursor", "Hand"} => mem'[q] = <<>>
                /\ pc'[q] = "Read" => ToSet(mem'[q]) \cap ToSet(casts) = {}
    <3>1. CASE q = r
      BY <1>b, <2>4, <2>5, <2>9, <3>1 DEF c
    <3>2. CASE q # r
      BY <2>2, <2>7, <2>8, <3>2
    <3> QED BY <3>1, <3>2
  <2> QED BY <1>u, <2>1, <2>6, <2>10 DEF Cursors
<1>10. Apart'
  <2>1. ASSUME NEW q \in Run, At[q] = a, q # r PROVE Has(q) \cap ToSet(F) = {}
    <3>1. pc[q] # "Cursor"
      BY <1>a, <2>1 DEF Inv, Locks
    <3>2. Has(q) \cap ToSet(casts) \subseteq Before(a)
      BY <2>1, <3>1 DEF Inv, Cursors, Has
    <3>3. ASSUME NEW m \in Has(q), m \in ToSet(F) PROVE FALSE
      <4>1. m \in Before(a) /\ m \in Message
        BY <1>a, <1>e, <3>2, <3>3, SetOf
      <4>2. m < m
        BY <1>i, <3>3, <4>1
      <4> QED BY <4>1, <4>2 DEF Message
    <3> QED BY <3>3
  <2> QED BY <1>e, <2>1 DEF Inv, Apart
<1>11. Accounted'
  <2>1. \A b : Coming(b)' = Coming(b) /\ Handed(b)' = Handed(b) /\ Waiting(b)' = Waiting(b)
    BY <1>u DEF Coming, Handed, Waiting
  <2>2. \A b : Held(b) \subseteq Held(b)'
    BY <1>d DEF Held
  <2>3. \A b \in Address : Where(b) \subseteq Where(b)'
    BY <2>1, <2>2 DEF Where
  <2> QED BY <1>u, <2>3, AccountedStep
<1> QED BY <1>1, <1>2, <1>3, <1>4, <1>5, <1>6, <1>7, <1>8, <1>9, <1>10, <1>11 DEF Inv

LEMMA AdvanceInv ==
  ASSUME Inv, NEW r \in Run, Advance(r)
  PROVE  Inv'
<1>u. UNCHANGED <<log, roster, logLock, inbox, casts, draft, mem, gone, got, crashes, lost>>
  BY DEF Advance, Boxes, Collected, Deaths
<1> DEFINE a == At[r]
           c == cursor[a]
<1>a. /\ pc[r] = "Cursor" /\ boxLock[a] = r /\ a \in Address /\ r \in Writer
      /\ cursor' = [cursor EXCEPT ![a] = total[r]] /\ boxLock' = [boxLock EXCEPT ![a] = Nobody]
      /\ total' = [total EXCEPT ![r] = 0] /\ pc' = [pc EXCEPT ![r] = "Hand"]
      /\ casts \in Seq(Message)
  BY DEF Advance, Past, Go, Inv, TypeOK, Locks
<1>b. /\ pc'[r] = "Hand" /\ \A w \in Writer \ {r} : pc'[w] = pc[w]
      /\ \A w \in Writer : Writing(w)' <=> Writing(w)
  BY <1>a DEF Inv, TypeOK, Writing
<1>d. /\ cursor'[a] = total[r] /\ \A b \in Address \ {a} : cursor'[b] = cursor[b]
      /\ c \in Nat /\ c <= total[r] /\ total[r] \in 0..Len(casts) /\ Len(casts) \in Nat
      /\ total'[r] = 0 /\ \A q \in Run \ {r} : total'[q] = total[q]
  <2>1. c # -1 /\ c <= total[r]
    BY <1>a DEF Inv, Joined, Cursors
  <2>2. Len(casts) \in Nat /\ c \in -1..Len(casts) /\ total[r] \in 0..Len(casts)
    BY <1>a, LenProperties DEF Inv, TypeOK
  <2> QED BY <1>a, <2>1, <2>2 DEF Inv, TypeOK
\* No other run of the address is about to advance its cursor.
<1>e. \A q \in Run : q # r /\ pc[q] = "Cursor" => At[q] # a
  BY <1>a DEF Inv, Locks
<1>1. TypeOK'
  <2>1. cursor' \in [Address -> -1..Len(casts)]
    BY <1>u, <1>a, <1>d DEF Inv, TypeOK
  <2>2. boxLock' \in [Address -> Writer \cup {Nobody}]
    BY <1>u, <1>a, <1>b, <1>d DEF Inv, TypeOK
  <2>3. total' \in [Run -> 0..Len(casts)]
    BY <1>u, <1>a, <1>d DEF Inv, TypeOK
  <2>4. pc' \in [Writer -> Pc]
    BY <1>u, <1>a, <1>b, <1>d DEF Inv, TypeOK, Pc
  <2> QED BY <1>u, <2>1, <2>2, <2>3, <2>4 DEF Inv, TypeOK
<1>2. Locks'
  <2>1. boxLock'[a] = Nobody /\ \A b \in Address \ {a} : boxLock'[b] = boxLock[b] /\ boxLock[b] # r
    BY <1>a DEF Inv, TypeOK, Locks
  <2>2. \A w \in Writer : pc'[w] \in {"Register", "Deliver", "Write"} => logLock' = w
    BY <1>u, <1>b DEF Inv, Locks
  <2>3. ASSUME NEW b \in Address, boxLock'[b] # Nobody
        PROVE  LET v == boxLock'[b] IN
               \/ pc'[v] = "Write" /\ b \in draft'[v].for
               \/ v \in Run /\ pc'[v] = "Cursor" /\ At[v] = b
    <3>1. b # a /\ boxLock'[b] = boxLock[b] /\ boxLock[b] \in Writer \ {r}
      BY <2>1, <2>3 DEF Inv, TypeOK
    <3> QED BY <1>u, <1>b, <2>3, <3>1 DEF Inv, Locks
  <2>4. \A b, d \in Address : boxLock'[b] # Nobody /\ boxLock'[b] = boxLock'[d] => b = d
    BY <2>1 DEF Inv, Locks
  <2>5. \A q \in Run : pc'[q] = "Cursor" => boxLock'[At[q]] = q
    <3>1. \A q \in Run : pc'[q] = "Cursor" => q # r /\ pc[q] = "Cursor" /\ At[q] # a
      BY <1>b, <1>e
    <3> QED BY <2>1, <3>1 DEF Inv, Locks
  <2> QED BY <1>u, <2>2, <2>3, <2>4, <2>5 DEF Inv, Locks
<1>3. Joined'
  BY <1>u, <1>a, <1>b, <1>d DEF Inv, Joined
<1>4. Drafts'
  BY <1>u, <1>a, <1>b, <1>d DEF Inv, Drafts, Writing
<1>5. Logged'
  BY <1>u, <1>a, <1>b, <1>d DEF Inv, Logged, Has
<1>6. Fresh'
  BY <1>u, <1>a, <1>b, <1>d DEF Inv, Fresh, Writing, Has
<1>7. Sorted'
  BY <1>u, <1>a, <1>b, <1>d DEF Inv, Sorted
<1>8. Behind'
  BY <1>u, <1>a, <1>b, <1>d DEF Inv, Behind, Has
<1>9. Cursors'
  <2>1. \A b \in Address : Before(b) \subseteq Before(b)'
    <3>1. \A k \in 1..c : k \in 1..total[r]
      BY <1>d
    <3>2. Before(a) \subseteq Before(a)'
      BY <1>u, <1>d, <3>1 DEF Before
    <3> QED BY <1>u, <1>d, <3>2 DEF Before
  <2>2. Reading(r) \subseteq Before(a)'
    <3>1. \A k \in (c + 1)..total[r] : k \in 1..total[r]
      BY <1>d
    <3> QED BY <1>u, <1>d, <3>1 DEF Before, Reading
  <2>3. \A q \in Run : q # r /\ pc[q] = "Cursor" =>
          Reading(q)' = Reading(q) /\ cursor'[At[q]] = cursor[At[q]] /\ total'[q] = total[q]
    BY <1>u, <1>d, <1>e DEF Reading
  <2>4. ToSet(mem[r]) \cap ToSet(casts) \subseteq Before(a)'
    BY <1>a, <2>2 DEF Inv, Cursors
  <2> QED BY <1>u, <1>b, <2>1, <2>3, <2>4 DEF Inv, Cursors
<1>10. Apart'
  BY <1>u, <1>a, <1>b, <1>d DEF Inv, Apart, Has
<1>11. Accounted'
  <2>1. \A b : Coming(b)' = Coming(b) /\ Handed(b)' = Handed(b) /\ Held(b)' = Held(b)
    BY <1>u DEF Coming, Handed, Held
  <2>2. \A b \in Address : b # a => Waiting(b)' = Waiting(b)
    BY <1>u, <1>d DEF Waiting
  <2>3. ASSUME NEW m \in Waiting(a), a \in log[m].for PROVE m \in Waiting(a)' \/ m \in Held(a)
    <3>1. CASE m \in ToSet(inbox[a])
      BY <1>u, <3>1 DEF Waiting
    <3>2. CASE m \notin ToSet(inbox[a])
      <4>1. ToSet(SubSeq(casts, c + 1, Len(casts))) = {casts[k] : k \in (c + 1)..Len(casts)}
        BY <1>a, <1>d, SubSeqSet
      <4>2. ToSet(SubSeq(casts, total[r] + 1, Len(casts))) = {casts[k] : k \in (total[r] + 1)..Len(casts)}
        BY <1>a, <1>d, SubSeqSet
      <4>3. m \in ToSet(casts) /\ c # -1
        BY <1>d, <3>2 DEF Waiting
      <4>4. PICK k \in (c + 1)..Len(casts) : m = casts[k]
        BY <3>2, <4>1, <4>3 DEF Waiting
      <4>5. CASE k > total[r]
        <5>1. k \in (total[r] + 1)..Len(casts)
          BY <1>d, <4>5
        <5>2. m \in ToSet(SubSeq(casts, total[r] + 1, Len(casts)))
          BY <4>2, <4>4, <5>1
        <5> QED BY <1>u, <1>d, <4>3, <5>2 DEF Waiting
      <4>6. CASE k <= total[r]
        <5>1. k \in (c + 1)..total[r]
          BY <1>d, <4>6
        <5>2. m \in Reading(r)
          BY <4>4, <5>1 DEF Reading
        <5>3. m \in ToSet(mem[r])
          BY <1>a, <2>3, <5>2 DEF Inv, Cursors
        <5> QED BY <5>3 DEF Held
      <4> QED BY <1>d, <4>5, <4>6
    <3> QED BY <3>1, <3>2
  <2>4. ASSUME NEW b \in Address, NEW m \in DOMAIN log, b \in log[m].for, m \in Where(b)
        PROVE  m \in Where(b)'
    <3>1. CASE b = a /\ m \in Waiting(b)
      BY <2>1, <2>3, <2>4, <3>1 DEF Where
    <3>2. CASE b # a \/ m \notin Waiting(b)
      BY <2>1, <2>2, <2>4, <3>2 DEF Where
    <3> QED BY <3>1, <3>2
  <2> QED BY <1>u, <2>4, AccountedStep
<1> QED BY <1>1, <1>2, <1>3, <1>4, <1>5, <1>6, <1>7, <1>8, <1>9, <1>10, <1>11 DEF Inv

LEMMA CrashInv ==
  ASSUME Inv, NEW r \in Run, Crash(r)
  PROVE  Inv'
<1>u. UNCHANGED <<log, roster, inbox, casts, cursor, got>>
  BY DEF Crash, Boxes, Collected, Deaths
<1>a. /\ crashes < MaxCrashes /\ crashes' = crashes + 1 /\ crashes' > 0 /\ r \in Writer
      /\ logLock' = (IF logLock = r THEN Nobody ELSE logLock)
      /\ boxLock' = [a \in Address |-> IF boxLock[a] = r THEN Nobody ELSE boxLock[a]]
      /\ mem' = [mem EXCEPT ![r] = <<>>] /\ total' = [total EXCEPT ![r] = 0]
      /\ draft' = [draft EXCEPT ![r] = NoDraft] /\ gone' = {} /\ pc' = [pc EXCEPT ![r] = "Out"]
  BY DEF Crash, Go, Unlocked, Inv, TypeOK, Locks
<1>b. /\ pc'[r] = "Out" /\ \A w \in Writer \ {r} : pc'[w] = pc[w]
      /\ \A w \in Writer : Writing(w)' => Writing(w) /\ w # r
      /\ \A w \in Writer : ~Writing(w)' => w = r \/ ~Writing(w)
  BY <1>a DEF Inv, TypeOK, Writing
<1>c. /\ lost' = lost \cup (ToSet(mem[r]) \X {At[r]}) \cup ({draft[r].line} \X draft[r].for)
  BY DEF Crash
<1>d. /\ mem'[r] = <<>> /\ ToSet(mem'[r]) = {} /\ \A q \in Run \ {r} : mem'[q] = mem[q] /\ total'[q] = total[q]
      /\ draft'[r] = NoDraft /\ draft'[r].for = {} /\ \A w \in Writer \ {r} : draft'[w] = draft[w]
      /\ \A q \in Run : Has(q)' \subseteq Has(q) /\ ToSet(mem'[q]) \subseteq ToSet(mem[q])
  <2>1. mem'[r] = <<>> /\ \A q \in Run \ {r} : mem'[q] = mem[q] /\ total'[q] = total[q]
    BY <1>a DEF Inv, TypeOK
  <2>2. draft'[r] = NoDraft /\ \A w \in Writer \ {r} : draft'[w] = draft[w]
    BY <1>a DEF Inv, TypeOK
  <2>3. NoDraft.for = {} /\ ToSet(<<>>) = {}
    BY DEF NoDraft, ToSet
  <2>4. \A q \in Run : ToSet(mem'[q]) \subseteq ToSet(mem[q])
    BY <2>1, <2>3
  <2>5. \A q \in Run : Has(q)' \subseteq Has(q)
    BY <1>u, <2>4 DEF Has
  <2> QED BY <2>1, <2>2, <2>3, <2>4, <2>5
<1>1. TypeOK'
  <2>1. logLock' \in Writer \cup {Nobody}
    BY <1>u, <1>a, <1>b, <1>d DEF Inv, TypeOK
  <2>2. boxLock' \in [Address -> Writer \cup {Nobody}]
    BY <1>a DEF Inv, TypeOK
  <2>3. mem' \in [Run -> Seq(Message)]
    BY <1>a DEF Inv, TypeOK
  <2>4. total' \in [Run -> 0..Len(casts)]
    <3>1. 0 \in 0..Len(casts)
      BY LenProperties DEF Inv, TypeOK
    <3> QED BY <1>a, <3>1 DEF Inv, TypeOK
  <2>5. draft' \in [Writer -> [to : Address \cup {"group", "broadcast", "nobody"},
                            expected : Run \cup {Nobody}, line : 0..LogCap,
                            for : SUBSET Address]]
    BY <1>a DEF Inv, TypeOK, NoDraft
  <2>6. gone' \in SUBSET Writer
    BY <1>u, <1>a, <1>b, <1>d DEF Inv, TypeOK
  <2>7. pc' \in [Writer -> Pc]
    BY <1>u, <1>a, <1>b, <1>d DEF Inv, TypeOK, Pc
  <2>8. crashes' \in 0..MaxCrashes
    BY <1>u, <1>a, <1>b, <1>d DEF Inv, TypeOK
  <2>9. lost' \in SUBSET ((0..LogCap) \X Address)
    <3>1. ToSet(mem[r]) \subseteq Message /\ At[r] \in Address
      BY SetOf DEF Inv, TypeOK
    <3>2. draft[r].line \in 0..LogCap /\ draft[r].for \subseteq Address
      BY <1>a DEF Inv, TypeOK
    <3> QED BY <1>c, <3>1, <3>2 DEF Inv, TypeOK, Message
  <2> QED BY <1>u, <2>1, <2>2, <2>3, <2>4, <2>5, <2>6, <2>7, <2>8, <2>9 DEF Inv, TypeOK
<1>2. Locks'
  BY <1>u, <1>a, <1>b, <1>d DEF Inv, Locks
<1>3. Joined'
  BY <1>u, <1>a, <1>b, <1>d DEF Inv, Joined
<1>4. Drafts'
  <2>1. \A w \in Writer : w # r => (Writing(w)' <=> Writing(w)) /\ pc'[w] = pc[w] /\ draft'[w] = draft[w]
    BY <1>b, <1>d
  <2>2. ~Writing(r)' /\ draft'[r].for = {}
    BY <1>b, <1>d
  <2>3. \A w \in Writer : ~Writing(w)' => draft'[w].for = {}
    BY <2>1, <2>2 DEF Inv, Drafts
  <2>4. \A w \in Writer : Writing(w)' => Writing(w) /\ pc'[w] = pc[w] /\ draft'[w] = draft[w]
    BY <2>1, <2>2
  <2> QED BY <1>u, <2>3, <2>4 DEF Inv, Drafts
<1>5. Logged'
  BY <1>u, <1>a, <1>b, <1>d DEF Inv, Logged, Has
<1>6. Fresh'
  <2>1. \A w \in Writer : Writing(w)' => Writing(w) /\ draft'[w] = draft[w]
    BY <1>b, <1>d
  <2>2. \A q \in Run : Has(q)' \subseteq Has(q)
    BY <1>d
  <2> QED BY <1>u, <2>1, <2>2 DEF Inv, Fresh
<1>7. Sorted'
  <2>1. Ordered(<<>>, ToSet(casts))
    BY DEF Ordered
  <2> QED BY <1>u, <1>d, <2>1 DEF Inv, Sorted
<1>8. Behind'
  BY <1>u, <1>a, <1>b, <1>d DEF Inv, Behind, Has
<1>9. Cursors'
  <2>1. \A a : Before(a)' = Before(a)
    BY <1>u DEF Before
  <2>2. \A q \in Run \ {r} : Reading(q)' = Reading(q)
    BY <1>u, <1>d DEF Reading
  <2> QED BY <1>u, <1>b, <1>d, <2>1, <2>2 DEF Inv, Cursors
<1>10. Apart'
  BY <1>u, <1>a, <1>b, <1>d DEF Inv, Apart, Has
<1>11. Accounted'
  <2>1. \A b : Handed(b)' = Handed(b) /\ Waiting(b)' = Waiting(b)
    BY <1>u DEF Handed, Waiting
  <2>2. ASSUME NEW b \in Address, NEW m \in Held(b) PROVE m \in Held(b)' \/ <<m, b>> \in lost'
    <3>1. PICK q \in Run : At[q] = b /\ m \in ToSet(mem[q])
      BY DEF Held
    <3>2. CASE q = r
      BY <1>c, <3>1, <3>2
    <3>3. CASE q # r
      BY <1>d, <3>1, <3>3 DEF Held
    <3> QED BY <3>2, <3>3
  <2>3. ASSUME NEW b \in Address, NEW m \in Coming(b) PROVE m \in Coming(b)' \/ <<m, b>> \in lost'
    <3>1. PICK w \in Writer : b \in draft[w].for /\ m = draft[w].line
      BY DEF Coming
    <3>2. CASE w = r
      BY <1>c, <3>1, <3>2
    <3>3. CASE w # r
      BY <1>d, <3>1, <3>3 DEF Coming
    <3> QED BY <3>2, <3>3
  <2>4. \A b \in Address : \A m \in Where(b) : m \in Where(b)' \/ <<m, b>> \in lost'
    BY <2>1, <2>2, <2>3 DEF Where
  <2>5. log' = log /\ lost \subseteq lost' /\ crashes' > 0 /\ crashes' = crashes + 1
    BY <1>u, <1>a, <1>c
  <2> QED BY <2>4, <2>5, AccountedStep
<1> QED BY <1>1, <1>2, <1>3, <1>4, <1>5, <1>6, <1>7, <1>8, <1>9, <1>10, <1>11 DEF Inv

LEMMA WriteAsInv ==
  ASSUME Inv, NEW w \in Writer, WriteAs(w)
  PROVE  Inv'
<1>u. UNCHANGED <<roster, inbox, boxLock, casts, cursor, mem, total, gone, got, crashes, lost>>
  BY DEF WriteAs, Boxes, Collected, Deaths, Drafted
<1> DEFINE n == Len(log) + 1
<1>a. /\ pc[w] = "In" /\ logLock = Nobody /\ Len(log) < LogCap /\ logLock' = w /\ n \in Message
      /\ DOMAIN log = 1..Len(log) /\ Len(log) \in Nat
  <2>1. pc[w] = "In" /\ logLock = Nobody /\ Len(log) < LogCap /\ logLock' = w
    BY DEF WriteAs, MayWrite
  <2>2. DOMAIN log = 1..Len(log) /\ Len(log) \in 0..LogCap
    BY LogIs DEF Inv
  <2> QED BY <2>1, <2>2 DEF Message
<1>c. PICK d \in Draft(w) : Drafted(w, d)
  BY DEF WriteAs
<1>d. /\ d.to \in Address \cup {"group", "broadcast"} /\ d.for \subseteq Address
      /\ d.expected \in Run \cup {Nobody}
      /\ \A a \in d.for : roster[a].live
      /\ d.to = "broadcast" => AddressOf(w) \notin d.for /\ (d.for # {} => Len(casts) < MsgCap)
      /\ d.to # "broadcast" => \A a \in d.for : Len(inbox[a]) < MsgCap
      /\ d.expected # Nobody => d.to \in Address /\ roster[d.to] = [run |-> d.expected, live |-> TRUE]
  <2>0. \A to : /\ Reached(w, to) \subseteq Live
                /\ to = "broadcast" => AddressOf(w) \notin Reached(w, to) /\ (Reached(w, to) # {} => Len(casts) < MsgCap)
                /\ to # "broadcast" => \A a \in Reached(w, to) : Len(inbox[a]) < MsgCap
    <3>1. "broadcast" \notin Address
      OBVIOUS
    <3>2. \A to : Recipients(w, to) \subseteq Live
      BY DEF Recipients, Live
    <3>3. AddressOf(w) \notin Recipients(w, "broadcast")
      BY <3>1 DEF Recipients
    <3>4. Reached(w, "broadcast") = IF Len(casts) < MsgCap THEN Recipients(w, "broadcast") ELSE {}
      BY DEF Reached
    <3>5. \A to : to # "broadcast" => Reached(w, to) = {a \in Recipients(w, to) : Len(inbox[a]) < MsgCap}
      BY DEF Reached, Room
    <3>6. \A to : Reached(w, to) \subseteq Live
      BY <3>2, <3>4, <3>5
    <3> QED BY <3>3, <3>4, <3>5, <3>6
  <2>1. CASE w = Operator
    <3>1. PICK e \in Run : Expected(e) /\ d = [NoDraft EXCEPT !.to = At[e], !.expected = e, !.for = Reached(w, At[e])]
      BY <1>c, <2>1 DEF Draft
    <3>2. d.to = At[e] /\ d.expected = e /\ d.for = Reached(w, At[e])
      BY <3>1 DEF NoDraft
    <3> QED BY <2>0, <3>1, <3>2 DEF Expected, Live
  <2>2. CASE w # Operator
    <3>1. PICK to \in Address \cup {"group", "broadcast"} : d = [NoDraft EXCEPT !.to = to, !.for = Reached(w, to)]
      BY <1>c, <2>2 DEF Draft
    <3>2. d.to = to /\ d.expected = Nobody /\ d.for = Reached(w, to)
      BY <3>1 DEF NoDraft
    <3> QED BY <2>0, <3>1, <3>2 DEF Live
  <2> QED BY <2>1, <2>2
<1> DEFINE entry == [from |-> AddressOf(w), for |-> d.for]
           Entry == [from : Address \cup {Operator}, for : SUBSET Address]
<1>e. /\ log' = Append(log, entry) /\ log' \in Seq(Entry) /\ Len(log') = n
      /\ DOMAIN log' = 1..n /\ log'[n].for = d.for /\ log'[n].from = AddressOf(w)
      /\ \A m \in 1..Len(log) : log'[m] = log[m]
  <2>1. entry \in Entry /\ log \in Seq(Entry)
    BY <1>d DEF AddressOf, Inv, TypeOK
  <2>2. log' = Append(log, entry)
    BY <1>c DEF Drafted
  <2> HIDE DEF Entry
  <2>3. entry.for = d.for /\ entry.from = AddressOf(w)
    OBVIOUS
  <2> HIDE DEF entry
  <2>4. log' \in Seq(Entry) /\ Len(log') = n /\ log'[n] = entry /\ \A m \in 1..Len(log) : log'[m] = log[m]
    BY <2>1, <2>2, AppendProperties
  <2>5. DOMAIN log' = 1..n
    BY <2>4, LenProperties
  <2> QED BY <2>2, <2>3, <2>4, <2>5 DEF entry
<1>f. /\ draft' = [draft EXCEPT ![w] = [d EXCEPT !.line = n]]
      /\ draft'[w].to = d.to /\ draft'[w].for = d.for /\ draft'[w].expected = d.expected /\ draft'[w].line = n
      /\ draft[w].for = {} /\ \A v \in Writer \ {w} : draft'[v] = draft[v]
  <2>1. draft' = [draft EXCEPT ![w] = [d EXCEPT !.line = Len(log')]]
    BY <1>c DEF Drafted
  <2>2. draft' = [draft EXCEPT ![w] = [d EXCEPT !.line = n]]
    BY <1>e, <2>1
  <2>3. d = [to |-> d.to, expected |-> d.expected, line |-> d.line, for |-> d.for]
    BY <1>c DEF Draft, NoDraft
  <2>4. draft'[w] = [d EXCEPT !.line = n] /\ \A v \in Writer \ {w} : draft'[v] = draft[v]
    BY <2>2 DEF Inv, TypeOK
  <2>5. draft'[w].to = d.to /\ draft'[w].for = d.for /\ draft'[w].expected = d.expected /\ draft'[w].line = n
    BY <2>3, <2>4
  <2>6. draft[w].for = {}
    BY <1>a DEF Inv, Drafts, Writing
  <2> QED BY <2>2, <2>4, <2>5, <2>6
<1>b. /\ pc' = [pc EXCEPT ![w] = "Deliver"]
      /\ pc'[w] = "Deliver" /\ \A v \in Writer \ {w} : pc'[v] = pc[v]
      /\ \A v \in Writer : ~Writing(v) /\ pc[v] # "Register" /\ (Writing(v)' <=> v = w)
  <2>1. pc' = [pc EXCEPT ![w] = "Deliver"]
    BY <1>c DEF Drafted, Go
  <2>2. \A v \in Writer : ~Writing(v) /\ pc[v] # "Register"
    BY <1>a DEF Inv, Locks, Writing
  <2> QED BY <1>a, <2>1, <2>2 DEF Inv, TypeOK, Writing
<1>1. TypeOK'
  <2>1. log' \in Seq([from : Address \cup {Operator}, for : SUBSET Address]) /\ Len(log') <= LogCap
    BY <1>a, <1>e
  <2>2. draft' \in [Writer -> [to : Address \cup {"group", "broadcast", "nobody"},
                               expected : Run \cup {Nobody}, line : 0..LogCap, for : SUBSET Address]]
    <3> DEFINE Rec == [to : Address \cup {"group", "broadcast", "nobody"},
                       expected : Run \cup {Nobody}, line : 0..LogCap, for : SUBSET Address]
    <3>0. d = [to |-> d.to, expected |-> d.expected, line |-> d.line, for |-> d.for]
      BY <1>c DEF Draft, NoDraft
    <3>1. [d EXCEPT !.line = n] = [to |-> d.to, expected |-> d.expected, line |-> n, for |-> d.for]
      BY <3>0
    <3>2. n \in 0..LogCap
      BY <1>a DEF Message
    <3>3. [d EXCEPT !.line = n] \in Rec
      BY <1>d, <3>1, <3>2
    <3> QED BY <1>f, <3>3 DEF Inv, TypeOK
  <2>3. pc' \in [Writer -> Pc] /\ logLock' \in Writer \cup {Nobody}
    BY <1>a, <1>b DEF Inv, TypeOK, Pc
  <2> QED BY <1>u, <2>1, <2>2, <2>3 DEF Inv, TypeOK
<1>2. Locks'
  <2>1. \A b \in Address : boxLock[b] # Nobody =>
           /\ boxLock[b] \in Writer \ {w}
           /\ boxLock[b] \in Run /\ pc[boxLock[b]] = "Cursor" /\ At[boxLock[b]] = b
    BY <1>a, <1>b DEF Inv, TypeOK, Locks, Writing
  <2> QED BY <1>u, <1>a, <1>b, <2>1 DEF Inv, Locks, Writing
<1>3. Joined'
  <2>1. \A r \in Run : pc'[r] \notin {"Out", "Register"} => cursor[At[r]] # -1
    BY <1>a, <1>b DEF Inv, Joined
  <2>2. \A a \in Address : roster[a].live /\ cursor[a] = -1 => crashes > 0
    BY <1>b DEF Inv, Joined
  <2>3. ASSUME NEW m \in 1..n, NEW a \in log'[m].for, cursor[a] = -1 PROVE crashes > 0
    <3>1. CASE m = n
      BY <1>d, <1>e, <2>2, <2>3, <3>1
    <3>2. CASE m # n
      <4>1. m \in 1..Len(log) /\ m \in DOMAIN log /\ log'[m] = log[m]
        BY <1>a, <1>e, <3>2
      <4> QED BY <2>3, <4>1 DEF Inv, Joined
    <3> QED BY <3>1, <3>2
  <2> QED BY <1>u, <1>e, <2>1, <2>2, <2>3 DEF Joined
<1>4. Drafts'
  <2>1. \A v \in Writer : v # w => ~Writing(v)' /\ draft'[v].for = {}
    BY <1>b, <1>f DEF Inv, Drafts
  <2>2. Writing(w)' /\ pc'[w] = "Deliver" /\ Len(log') > 0 /\ draft'[w].line = Len(log')
    BY <1>a, <1>b, <1>e, <1>f
  <2>4. draft'[w].to = "broadcast" => log'[Len(log')].from \notin log'[Len(log')].for
    <3>1. log'[Len(log')].for = d.for /\ log'[Len(log')].from = AddressOf(w)
      BY <1>e
    <3> QED BY <1>d, <1>f, <3>1
  <2>3. /\ draft'[w].to = "broadcast" => log'[Len(log')].from \notin log'[Len(log')].for
        /\ draft'[w].to = "broadcast" => (draft'[w].for # {} => Len(casts) < MsgCap)
        /\ draft'[w].to # "broadcast" => \A a \in draft'[w].for : Len(inbox[a]) < MsgCap
        /\ draft'[w].expected # Nobody =>
              /\ draft'[w].to \in Address
              /\ roster[draft'[w].to] = [run |-> draft'[w].expected, live |-> TRUE]
    BY <1>d, <1>f, <2>4
  <2> QED BY <1>u, <2>1, <2>2, <2>3 DEF Drafts
<1>5. Logged'
  <2>0. \A q \in Run : Has(q)' = Has(q) /\ \A m \in Has(q) : m \in Message
    BY <1>u, SetOf DEF Has, Inv, TypeOK
  <2>1. ASSUME NEW m \in ToSet(casts) PROVE m <= Len(log') /\ log'[m].from \notin log'[m].for
    <3>1. m \in 1..Len(log) /\ log[m].from \notin log[m].for
      BY <1>a, SetOf DEF Inv, TypeOK, Logged, Message
    <3> QED BY <1>a, <1>e, <3>1
  <2>2. ASSUME NEW a \in Address, NEW m \in ToSet(inbox[a]) PROVE m <= Len(log')
    <3>1. m \in 1..Len(log)
      BY <1>a, SetOf DEF Inv, TypeOK, Logged, Message
    <3> QED BY <1>a, <1>e, <3>1
  <2>3. ASSUME NEW q \in Run, NEW m \in Has(q) PROVE m <= Len(log')
    <3>1. m \in 1..Len(log)
      BY <1>a, <2>0 DEF Inv, Logged, Message
    <3> QED BY <1>a, <1>e, <3>1
  <2> QED BY <1>u, <2>0, <2>1, <2>2, <2>3 DEF Inv, Logged
<1>6. Fresh'
  <2>0. \A q \in Run : Has(q)' = Has(q)
    BY <1>u DEF Has
  <2>1. n \notin ToSet(casts)
    <3>1. \A m \in ToSet(casts) : m <= Len(log)
      BY DEF Inv, Logged
    <3>2. ~(n <= Len(log))
      BY <1>a
    <3> QED BY <3>1, <3>2
  <2>2. \A a \in Address : n \notin ToSet(inbox[a])
    <3>1. \A a \in Address : \A m \in ToSet(inbox[a]) : m <= Len(log)
      BY DEF Inv, Logged
    <3>2. ~(n <= Len(log))
      BY <1>a
    <3> QED BY <3>1, <3>2
  <2>3. \A q \in Run : n \notin Has(q)
    <3>1. \A q \in Run : \A m \in Has(q) : m <= Len(log)
      BY DEF Inv, Logged
    <3>2. ~(n <= Len(log))
      BY <1>a
    <3> QED BY <3>1, <3>2
  <2> QED BY <1>u, <1>b, <1>d, <1>e, <1>f, <2>0, <2>1, <2>2, <2>3 DEF Fresh
<1>7. Sorted'
  BY <1>u, <1>a, <1>b, <1>d, <1>e, <1>f DEF Inv, Sorted
<1>8. Behind'
  BY <1>u, <1>a, <1>b, <1>d, <1>e, <1>f DEF Inv, Behind, Has
<1>9. Cursors'
  <2>1. \A a : Before(a)' = Before(a)
    BY <1>u DEF Before
  <2>2. \A q : Reading(q)' = Reading(q)
    BY <1>u DEF Reading
  <2>3. ASSUME NEW q \in Run, pc[q] = "Cursor", NEW m \in Reading(q) PROVE log'[m] = log[m]
    <3>1. cursor[At[q]] \in -1..Len(casts) /\ cursor[At[q]] # -1 /\ total[q] \in 0..Len(casts) /\ casts \in Seq(Message)
      BY <2>3 DEF Inv, TypeOK, Joined
    <3>2. PICK k \in (cursor[At[q]] + 1)..total[q] : m = casts[k]
      BY DEF Reading
    <3>3. k \in 1..Len(casts)
      BY <3>1, <3>2, LenProperties
    <3>4. m \in ToSet(casts) /\ m \in Message
      BY <3>1, <3>2, <3>3, SetOf
    <3>5. m \in 1..Len(log)
      BY <1>a, <3>4 DEF Inv, Logged, Message
    <3> QED BY <1>e, <3>5
  <2>4. \A q \in Run : (pc'[q] = "Cursor" <=> pc[q] = "Cursor")
                       /\ (pc'[q] \notin {"Read", "Cursor", "Hand"} <=> pc[q] \notin {"Read", "Cursor", "Hand"})
                       /\ (pc'[q] = "Read" <=> pc[q] = "Read")
    BY <1>a, <1>b
  <2> QED BY <1>u, <2>1, <2>2, <2>3, <2>4 DEF Inv, Cursors
<1>10. Apart'
  BY <1>u, <1>a, <1>b, <1>d, <1>e, <1>f DEF Inv, Apart, Has
<1>11. Accounted'
  <2>1. \A b : Handed(b)' = Handed(b) /\ Held(b)' = Held(b) /\ Waiting(b)' = Waiting(b)
    BY <1>u DEF Handed, Held, Waiting
  <2>2. \A b : Coming(b) \subseteq Coming(b)'
    BY <1>f DEF Coming
  <2>3. ASSUME NEW m \in 1..n, NEW b \in log'[m].for
        PROVE  m \in Where(b)' \/ (<<m, b>> \in lost /\ crashes > 0)
    <3>1. CASE m = n
      <4>1. b \in draft'[w].for /\ draft'[w].line = m
        BY <1>e, <1>f, <2>3, <3>1
      <4> QED BY <4>1 DEF Where, Coming
    <3>2. CASE m # n
      <4>1. m \in DOMAIN log /\ b \in log[m].for
        BY <1>a, <1>e, <2>3, <3>2
      <4>2. m \in Where(b) \/ (<<m, b>> \in lost /\ crashes > 0)
        BY <4>1 DEF Inv, Accounted, Where
      <4> QED BY <2>1, <2>2, <4>2 DEF Where
    <3> QED BY <3>1, <3>2
  <2> QED BY <1>u, <1>e, <2>3 DEF Accounted, Where
<1> QED BY <1>1, <1>2, <1>3, <1>4, <1>5, <1>6, <1>7, <1>8, <1>9, <1>10, <1>11 DEF Inv

LEMMA StutterInv ==
  ASSUME Inv, UNCHANGED vars
  PROVE  Inv'
<1>u. UNCHANGED <<log, roster, logLock, inbox, boxLock, casts, cursor, pc, draft, mem, total, gone,
                  got, crashes, lost>>
  BY DEF vars
<1>1. TypeOK' /\ Locks' /\ Joined'
  BY <1>u DEF Inv, TypeOK, Locks, Joined
<1>2. Drafts' /\ Fresh' /\ Behind' /\ Apart' /\ Logged' /\ Sorted'
  <2>1. (\A w : Writing(w)' <=> Writing(w)) /\ (\A r : Has(r)' = Has(r))
    BY <1>u DEF Writing, Has
  <2>2. Drafts' /\ Logged' /\ Sorted'
    BY <1>u, <2>1 DEF Inv, Drafts, Logged, Sorted
  <2>3. Fresh' /\ Behind' /\ Apart'
    BY <1>u, <2>1 DEF Inv, Fresh, Behind, Apart
  <2> QED BY <2>2, <2>3
<1>3. Cursors'
  <2>1. (\A a : Before(a)' = Before(a)) /\ (\A r : Reading(r)' = Reading(r))
    BY <1>u DEF Before, Reading
  <2> QED BY <1>u, <2>1 DEF Inv, Cursors
<1>4. Accounted'
  <2>1. \A b : Handed(b)' = Handed(b) /\ Held(b)' = Held(b)
    BY <1>u DEF Handed, Held
  <2>2. \A b : Coming(b)' = Coming(b) /\ Waiting(b)' = Waiting(b)
    BY <1>u DEF Coming, Waiting
  <2> QED BY <1>u, <2>1, <2>2 DEF Inv, Accounted
<1> QED BY <1>1, <1>2, <1>3, <1>4 DEF Inv

LEMMA InitInv == Init => Inv
<1> SUFFICES ASSUME Init PROVE Inv
  OBVIOUS
<1>0. /\ log = <<>> /\ casts = <<>> /\ logLock = Nobody
      /\ roster = [a \in Address |-> [run |-> Nobody, live |-> FALSE]]
      /\ inbox = [a \in Address |-> <<>>] /\ boxLock = [a \in Address |-> Nobody]
      /\ cursor = [a \in Address |-> -1] /\ pc = [w \in Writer |-> IF w = Operator THEN "In" ELSE "Out"]
      /\ draft = [w \in Writer |-> NoDraft]
      /\ mem = [r \in Run |-> <<>>] /\ total = [r \in Run |-> 0] /\ got = [r \in Run |-> <<>>]
      /\ gone = {} /\ crashes = 0 /\ lost = {}
  BY DEF Init
<1>a. /\ Len(<<>>) = 0 /\ ToSet(<<>>) = {} /\ DOMAIN <<>> = {}
  BY DEF ToSet
<1>b. \A S : <<>> \in Seq(S)
  OBVIOUS
<1>c. /\ \A w \in Writer : ~Writing(w) /\ draft[w] = NoDraft /\ draft[w].for = {}
      /\ \A r \in Run : pc[r] = "Out" /\ Has(r) = {}
  BY <1>0, <1>a DEF Writing, NoDraft, Has
<1>1. TypeOK
  <2>1. log \in Seq([from : Address \cup {Operator}, for : SUBSET Address]) /\ Len(log) <= LogCap
        /\ casts \in Seq(Message) /\ Len(casts) = 0
    BY <1>0, <1>a, <1>b
  <2>2. inbox \in [Address -> Seq(Message)] /\ mem \in [Run -> Seq(Message)] /\ got \in [Run -> Seq(Message)]
    BY <1>0, <1>b
  <2>3. draft \in [Writer -> [to : Address \cup {"group", "broadcast", "nobody"},
                             expected : Run \cup {Nobody}, line : 0..LogCap, for : SUBSET Address]]
    BY <1>0 DEF NoDraft
  <2>4. roster \in [Address -> [run : Run \cup {Nobody}, live : BOOLEAN]] /\ logLock \in Writer \cup {Nobody}
        /\ boxLock \in [Address -> Writer \cup {Nobody}] /\ pc \in [Writer -> Pc]
    BY <1>0 DEF Pc
  <2>5. cursor \in [Address -> -1..Len(casts)] /\ total \in [Run -> 0..Len(casts)] /\ Len(casts) <= MsgCap
    BY <1>0, <2>1
  <2> QED BY <1>0, <2>1, <2>2, <2>3, <2>4, <2>5 DEF TypeOK
<1>2. Locks /\ Joined
  BY <1>0, <1>a, <1>c DEF Locks, Joined
<1>3. Drafts /\ Fresh
  BY <1>c DEF Drafts, Fresh
<1>4. Logged /\ Behind /\ Apart
  BY <1>0, <1>a, <1>c DEF Logged, Behind, Apart
<1>5. Sorted
  BY <1>0, <1>a DEF Sorted, Increasing, Ordered
<1>6. Cursors
  BY <1>0, <1>a, <1>c DEF Cursors
<1>7. Accounted
  BY <1>0, <1>a DEF Accounted
<1> QED BY <1>1, <1>2, <1>3, <1>4, <1>5, <1>6, <1>7 DEF Inv

LEMMA NextInv == Inv /\ [Next]_vars => Inv'
<1> SUFFICES ASSUME Inv, [Next]_vars PROVE Inv'
  OBVIOUS
<1>1. CASE \E w \in Writer : WriteAs(w) \/ Sending(w)
  BY <1>1, WriteAsInv, CastInv, OpenInv, WriteLineInv, UnlockInv DEF Sending
<1>2. CASE \E r \in Run : Join(r) \/ Register(r) \/ Leave(r) \/ Collecting(r) \/ Crash(r)
  BY <1>2, JoinInv, RegisterInv, LeaveInv, TakeInv, ReadCastsInv, AdvanceInv, HandInv, CrashInv
     DEF Collecting
<1>3. CASE UNCHANGED vars
  BY <1>3, StutterInv
<1> QED BY <1>1, <1>2, <1>3 DEF Next

LEMMA InvHolds == Spec => []Inv
BY InitInv, NextInv, PTL DEF Spec
------------------------------------------------------------------------------
(* What the space promises.                                                *)

\* The space is always well formed: in particular the caps on the log and on the
\* broadcasts are kept, and a cursor is never past the broadcasts there are.
THEOREM SpaceTypeCorrect == Spec => []TypeOK
<1>1. Inv => TypeOK
  BY DEF Inv
<1> QED BY <1>1, InvHolds, PTL

\* Whatever the runs, addresses and caps, a message that the log says was delivered
\* to an address is on its way there, waits there, is being read there or was given
\* to a run there, unless a death cost it (bus.rs, mailbox.rs).
THEOREM AccountedHolds == Spec => []Accounted
<1>1. Inv => Accounted
  BY DEF Inv
<1> QED BY <1>1, InvHolds, PTL

\* A run is given its direct messages in the order of the log, and the broadcasts
\* too, whoever wrote them and however often its address was restarted.
THEOREM InOrderHolds == Spec => []InOrder
<1>1. Inv => InOrder
  BY DEF Inv, Sorted, Ordered, InOrder
<1> QED BY <1>1, InvHolds, PTL

\* No message is given twice: not to one run, and not to two runs of an address,
\* with a death at any point between draining, reading and handing.
THEOREM AtMostOnceHolds == Spec => []AtMostOnce
<1>1. ASSUME Inv PROVE AtMostOnce
  <2> SUFFICES ASSUME NEW r \in Run, NEW q \in Run, NEW i \in DOMAIN got[r], NEW j \in DOMAIN got[q],
                      At[r] = At[q], got[r][i] = got[q][j]
               PROVE  r = q /\ i = j
    BY DEF AtMostOnce
  <2>1. got[r] \in Seq(Message) /\ got[q] \in Seq(Message)
    BY <1>1 DEF Inv, TypeOK
  <2>2. got[r][i] \in Has(r) /\ got[q][j] \in Has(q)
    BY DEF Has, ToSet
  <2>3. r = q
    BY <1>1, <2>2 DEF Inv, Apart
  <2>4. i \in Nat /\ j \in Nat /\ got[r][i] \in Nat
    BY <2>1, SetOf, ElementOfSeq DEF Message
  <2>5. ~(i < j) /\ ~(j < i)
    <3>1. \A k, l \in DOMAIN got[r] : k < l /\ got[r][k] = got[r][l] => got[r][k] < got[r][l]
      BY <1>1 DEF Inv, Sorted, Ordered
    <3>2. ~(got[r][i] < got[r][i])
      BY <2>4
    <3> QED BY <2>3, <3>1, <3>2
  <2> QED BY <2>3, <2>4, <2>5
<1>2. Inv => AtMostOnce
  BY <1>1
<1> QED BY <1>2, InvHolds, PTL

\* What a writer resolved still holds when it delivers: the inbox still has room, the
\* broadcast log too, and the run a message is meant for is still the live one at its
\* address, whoever joins, leaves, reads and writes meanwhile (bus.rs, write_as).
THEOREM AsResolvedHolds == Spec => []AsResolved
<1>1. Inv => Fits
  BY DEF Inv, Drafts, Fits, Writing
<1>2. Inv => ForThisRun
  BY DEF Inv, Drafts, ForThisRun, Writing
<1>3. Inv => AsResolved
  BY <1>1, <1>2 DEF AsResolved
<1> QED BY <1>3, InvHolds, PTL
==============================================================================
