--------------------------- MODULE SequenceLemmas ---------------------------
(***************************************************************************)
(* What several of the proofs need to know of numbers and sequences:       *)
(* least elements, induction over a set of numbers, and where a sequence   *)
(* is in what FlattenSeq makes of it and others.                           *)
(***************************************************************************)
EXTENDS SequencesExt, Integers, WellFoundedInduction, SequenceTheorems, TLAPS

Less == {p \in Nat \X Nat : p[1] < p[2]}

(* There is a least number in every set of natural numbers. *)
LEMMA LeastElement ==
  ASSUME NEW S, S \subseteq Nat, S # {}
  PROVE  \E x \in S : \A y \in S : x <= y
<1>1. OpToRel(<, Nat) = Less
  BY Zenon DEF OpToRel, Less
<1>2. IsWellFoundedOn(Less, Nat)
  BY <1>1, NatLessThanWellFounded
<1>3. PICK x \in S : \A y \in S : <<y, x>> \notin Less
  BY <1>2, WFMin
<1>4. \A y \in S : y \in Nat /\ x \in Nat /\ ~(y < x)
  BY <1>3 DEF Less
<1> QED
  BY <1>4

(* Induction, over a set of numbers. *)
LEMMA SetInduction ==
  ASSUME NEW T, 0 \in T, \A n \in Nat : n \in T => n + 1 \in T
  PROVE  Nat \subseteq T
<1> SUFFICES ASSUME Nat \ T # {} PROVE FALSE
  OBVIOUS
<1>1. PICK x \in Nat \ T : \A y \in Nat \ T : x <= y
  <2> DEFINE S == Nat \ T
  <2>1. S \subseteq Nat /\ S # {}
    OBVIOUS
  <2> HIDE DEF S
  <2>2. \E x \in S : \A y \in S : x <= y
    BY <2>1, LeastElement
  <2> QED
    BY <2>2 DEF S
<1>2. x # 0 /\ x - 1 \in Nat /\ x - 1 \in T
  BY <1>1
<1> QED
  BY <1>1, <1>2

(* What LET flatten in FlattenSeq is to be. *)
IsFlat(f, s, n) == f = [i \in 1 .. n |-> IF i = 1 THEN s[i] ELSE f[i - 1] \o s[i]]

(* What such a function is at one place. *)
LEMMA FlatAt ==
  ASSUME NEW f, NEW s, NEW n, IsFlat(f, s, n), NEW i \in 1 .. n
  PROVE  f[i] = IF i = 1 THEN s[i] ELSE f[i - 1] \o s[i]
<1> DEFINE g == [j \in 1 .. n |-> IF j = 1 THEN s[j] ELSE f[j - 1] \o s[j]]
<1>1. f = g
  BY DEF IsFlat
<1>2. g[i] = IF i = 1 THEN s[i] ELSE f[i - 1] \o s[i]
  OBVIOUS
<1> HIDE DEF g
<1> QED
  BY <1>1, <1>2

(* There is such a function for every sequence: the recursion of           *)
(* FlattenSeq is well founded.                                             *)
LEMMA FlatExists ==
  ASSUME NEW s PROVE \A n \in Nat : \E f : IsFlat(f, s, n)
<1> DEFINE T == {n \in Nat : \E f : IsFlat(f, s, n)}
<1>1. 0 \in T
  <2> DEFINE f == [i \in 1 .. 0 |-> <<>>]
  <2>1. IsFlat(f, s, 0)
    BY DEF IsFlat
  <2> QED
    BY <2>1
<1>2. ASSUME NEW n \in Nat, n \in T PROVE n + 1 \in T
  <2>1. PICK f : IsFlat(f, s, n)
    BY <1>2
  <2> DEFINE g == [i \in 1 .. n + 1 |->
                     IF i <= n THEN f[i] ELSE IF i = 1 THEN s[i] ELSE f[i - 1] \o s[i]]
  <2>2. \A i \in 1 .. n + 1 : g[i] = IF i = 1 THEN s[i] ELSE g[i - 1] \o s[i]
    <3> TAKE i \in 1 .. n + 1
    <3>1. CASE i = 1
      BY <2>1, <3>1, FlatAt
    <3>2. CASE i # 1
      <4>1. i - 1 \in 1 .. n /\ g[i - 1] = f[i - 1]
        BY <3>2
      <4>2. ASSUME i <= n PROVE f[i] = f[i - 1] \o s[i]
        <5>1. i \in 1 .. n
          BY <4>2
        <5>2. f[i] = IF i = 1 THEN s[i] ELSE f[i - 1] \o s[i]
          BY <2>1, <5>1, FlatAt
        <5> QED
          BY <3>2, <5>2
      <4> QED
        BY <3>2, <4>1, <4>2
    <3> QED
      BY <3>1, <3>2
  <2>3. g = [i \in 1 .. n + 1 |-> g[i]]
    OBVIOUS
  <2> HIDE DEF g
  <2>4. IsFlat(g, s, n + 1)
    BY <2>2, <2>3 DEF IsFlat
  <2> QED
    BY <2>4
<1> HIDE DEF T
<1>3. Nat \subseteq T
  BY <1>1, <1>2, SetInduction
<1> QED
  BY <1>3 DEF T

(* The first n of the sequences in s, and what they are together. *)
UpTo(s, n) == [i \in 1 .. n |-> s[i]]
Joined(s, n) == FlattenSeq(UpTo(s, n))

(* FlattenSeq returns the last value of such a function. *)
LEMMA FlattenIsFlat ==
  ASSUME NEW s, NEW n \in Nat, n # 0
  PROVE  \E f : IsFlat(f, UpTo(s, n), n) /\ Joined(s, n) = f[n]
<1> DEFINE u == UpTo(s, n)
<1>1. Len(u) = n
  <2>1. u = [i \in 1 .. n |-> s[i]]
    BY DEF UpTo
  <2> HIDE DEF u
  <2> QED
    BY <2>1
<1> HIDE DEF u
<1> DEFINE F == CHOOSE f : IsFlat(f, u, n)
<1>2. FlattenSeq(u) = F[n]
  BY <1>1, Zenon DEF FlattenSeq, IsFlat
<1>3. IsFlat(F, u, n)
  BY FlatExists
<1> QED
  BY <1>2, <1>3 DEF u, Joined

(* One more sequence is joined at the end. *)
LEMMA JoinedStep ==
  ASSUME NEW X, NEW s \in Seq(Seq(X)), NEW n \in 0 .. Len(s) - 1
  PROVE  Joined(s, n + 1) = Joined(s, n) \o s[n + 1]
<1>0. n \in Nat /\ n + 1 \in Nat /\ n + 1 # 0 /\ n + 1 \in 1 .. n + 1
  OBVIOUS
<1>1. PICK f : IsFlat(f, UpTo(s, n + 1), n + 1) /\ Joined(s, n + 1) = f[n + 1]
  BY <1>0, FlattenIsFlat
<1>2. UpTo(s, n + 1)[n + 1] = s[n + 1] /\ s[n + 1] \in Seq(X)
  BY DEF UpTo
<1>3. CASE n = 0
  <2>1. UpTo(s, 0) = <<>>
    BY DEF UpTo
  <2>2. Joined(s, 0) = <<>>
    BY <2>1 DEF Joined, FlattenSeq
  <2>3. Joined(s, 1) = s[1]
    BY <1>1, <1>2, <1>3 DEF IsFlat
  <2> QED
    BY <1>2, <1>3, <2>2, <2>3
<1>4. CASE n # 0
  <2>1. PICK g : IsFlat(g, UpTo(s, n), n) /\ Joined(s, n) = g[n]
    BY <1>4, FlattenIsFlat
  <2>2. \A i \in 1 .. n : UpTo(s, n)[i] = UpTo(s, n + 1)[i]
    BY DEF UpTo
  <2> DEFINE u == UpTo(s, n)
             w == UpTo(s, n + 1)
             T == {i \in Nat : i \in 1 .. n => g[i] = f[i]}
  <2>6. 0 \in T
    OBVIOUS
  <2>7. ASSUME NEW i \in Nat, i \in T PROVE i + 1 \in T
    <3> SUFFICES ASSUME i + 1 \in 1 .. n PROVE g[i + 1] = f[i + 1]
      OBVIOUS
    <3> DEFINE j == i + 1
               m == n + 1
    <3>1. j \in 1 .. n /\ j \in 1 .. m
      BY <1>0
    <3>6. IsFlat(g, u, n) /\ IsFlat(f, w, m)
      BY <1>1, <2>1
    <3>4. j - 1 = i /\ u[j] = w[j]
      BY <2>2
    <3>5. j # 1 => g[i] = f[i]
      BY <1>0, <2>7
    <3> HIDE DEF u, w, j, m
    <3>2. g[j] = IF j = 1 THEN u[j] ELSE g[j - 1] \o u[j]
      BY <3>1, <3>6, FlatAt
    <3>3. f[j] = IF j = 1 THEN w[j] ELSE f[j - 1] \o w[j]
      BY <3>1, <3>6, FlatAt
    <3>7. g[j] = f[j]
      BY <3>2, <3>3, <3>4, <3>5
    <3> QED
      BY <3>7 DEF j
  <2> HIDE DEF T
  <2>8. Nat \subseteq T
    BY <2>6, <2>7, SetInduction
  <2>3. f[n] = g[n]
    BY <1>0, <1>4, <2>8 DEF T
  <2>4. f[n + 1] = IF n + 1 = 1 THEN UpTo(s, n + 1)[n + 1]
                   ELSE f[(n + 1) - 1] \o UpTo(s, n + 1)[n + 1]
    BY <1>0, <1>1, FlatAt
  <2>5. n + 1 # 1 /\ (n + 1) - 1 = n
    BY <1>0, <1>4
  <2> QED
    BY <1>1, <1>2, <2>1, <2>3, <2>4, <2>5
<1> QED
  BY <1>3, <1>4

(* No sequences are together the empty one. *)
LEMMA JoinedEmpty == ASSUME NEW s PROVE Joined(s, 0) = <<>>
<1>1. UpTo(s, 0) = <<>>
  BY DEF UpTo
<1> QED
  BY <1>1 DEF Joined, FlattenSeq

(* Sequences over X are together a sequence over X. *)
LEMMA JoinedType ==
  ASSUME NEW X, NEW s \in Seq(Seq(X)), NEW n \in 0 .. Len(s)
  PROVE  Joined(s, n) \in Seq(X)
<1> DEFINE T == {i \in Nat : i <= Len(s) => Joined(s, i) \in Seq(X)}
<1>1. 0 \in T
  <2>1. <<>> \in Seq(X)
    OBVIOUS
  <2> QED
    BY <2>1, JoinedEmpty
<1>2. ASSUME NEW i \in Nat, i \in T PROVE i + 1 \in T
  <2> SUFFICES ASSUME i + 1 <= Len(s) PROVE Joined(s, i + 1) \in Seq(X)
    OBVIOUS
  <2>1. i \in 0 .. Len(s) - 1 /\ s[i + 1] \in Seq(X) /\ Joined(s, i) \in Seq(X)
    BY <1>2
  <2>2. Joined(s, i + 1) = Joined(s, i) \o s[i + 1]
    BY <2>1, JoinedStep
  <2> QED
    BY <2>1, <2>2, ConcatProperties
<1> HIDE DEF T
<1>3. Nat \subseteq T
  BY <1>1, <1>2, SetInduction
<1> QED
  BY <1>3 DEF T

(* What the first m are together is the beginning of what the first n are. *)
LEMMA JoinedPrefix ==
  ASSUME NEW X, NEW s \in Seq(Seq(X)), NEW n \in 0 .. Len(s), NEW m \in 0 .. n
  PROVE  /\ Len(Joined(s, m)) <= Len(Joined(s, n))
         /\ \A p \in 1 .. Len(Joined(s, m)) : Joined(s, n)[p] = Joined(s, m)[p]
<1> DEFINE Prefix(i) == /\ Len(Joined(s, m)) <= Len(Joined(s, i))
                        /\ \A p \in 1 .. Len(Joined(s, m)) : Joined(s, i)[p] = Joined(s, m)[p]
<1> DEFINE T == {i \in Nat : m <= i /\ i <= Len(s) => Prefix(i)}
<1>1. 0 \in T
  <2>1. m <= 0 => m = 0
    OBVIOUS
  <2>2. Len(<<>>) <= Len(<<>>)
    OBVIOUS
  <2> QED
    BY <2>1, <2>2, JoinedEmpty
<1>2. ASSUME NEW i \in Nat, i \in T PROVE i + 1 \in T
  <2> SUFFICES ASSUME m <= i + 1, i + 1 <= Len(s) PROVE Prefix(i + 1)
    OBVIOUS
  <2>0. m \in 0 .. Len(s) /\ i + 1 \in 0 .. Len(s)
    OBVIOUS
  <2>1. Joined(s, m) \in Seq(X) /\ Joined(s, i + 1) \in Seq(X)
    BY <2>0, JoinedType
  <2>2. CASE m = i + 1
    <3>1. Len(Joined(s, m)) <= Len(Joined(s, m))
      BY <2>1
    <3> QED
      BY <2>2, <3>1
  <2>3. CASE m <= i
    <3>1. i \in 0 .. Len(s) - 1 /\ i \in 0 .. Len(s) /\ s[i + 1] \in Seq(X) /\ Prefix(i)
      BY <1>2, <2>3
    <3>2. Joined(s, i + 1) = Joined(s, i) \o s[i + 1] /\ Joined(s, i) \in Seq(X)
      BY <3>1, JoinedStep, JoinedType
    <3>3. Len(Joined(s, i + 1)) = Len(Joined(s, i)) + Len(s[i + 1])
      BY <3>1, <3>2
    <3>4. \A p \in 1 .. Len(Joined(s, i)) : Joined(s, i + 1)[p] = Joined(s, i)[p]
      BY <3>1, <3>2
    <3> HIDE DEF T
    <3> QED
      BY <2>1, <3>1, <3>2, <3>3, <3>4
  <2> QED
    BY <2>2, <2>3
<1> HIDE DEF T
<1>3. Nat \subseteq T
  BY <1>1, <1>2, SetInduction
<1> QED
  BY <1>3 DEF T
-----------------------------------------------------------------------------
(* The (k+1)-th of n sequences is a part of what they are together. *)
PartAt(s, n, k, X) ==
  /\ Joined(s, n) \in Seq(X) /\ Len(Joined(s, k)) \in Nat
  /\ s[k + 1] \in Seq(X)
  /\ Len(Joined(s, k + 1)) = Len(Joined(s, k)) + Len(s[k + 1])
  /\ Len(Joined(s, k + 1)) <= Len(Joined(s, n))
  /\ \A p \in 1 .. Len(s[k + 1]) : Joined(s, n)[Len(Joined(s, k)) + p] = s[k + 1][p]

(* Where the (k+1)-th of n sequences is in what they are together. *)
LEMMA JoinedParts ==
  ASSUME NEW X, NEW s \in Seq(Seq(X)), NEW n \in 0 .. Len(s), NEW k \in 0 .. n - 1
  PROVE  PartAt(s, n, k, X)
<1> DEFINE a == Joined(s, k)
           b == s[k + 1]
           c == Joined(s, k + 1)
           d == Joined(s, n)
<1>1. /\ k \in 0 .. Len(s) /\ k + 1 \in 0 .. n /\ k \in 0 .. Len(s) - 1 /\ n \in 0 .. Len(s)
      /\ k + 1 \in 0 .. Len(s)
  OBVIOUS
<1>2. a \in Seq(X) /\ b \in Seq(X) /\ c \in Seq(X) /\ d \in Seq(X)
  BY <1>1, JoinedType
<1>3. c = a \o b
  BY <1>1, JoinedStep
<1>4. Len(c) <= Len(d) /\ \A p \in 1 .. Len(c) : d[p] = c[p]
  BY <1>1, JoinedPrefix
<1> HIDE DEF a, b, c, d
<1>5. Len(c) = Len(a) + Len(b) /\ \A p \in 1 .. Len(b) : c[Len(a) + p] = b[p]
  BY <1>2, <1>3
<1>6. \A p \in 1 .. Len(b) : Len(a) + p \in 1 .. Len(c)
  BY <1>2, <1>5
<1>7. /\ d \in Seq(X) /\ Len(a) \in Nat /\ b \in Seq(X) /\ Len(c) = Len(a) + Len(b)
      /\ Len(c) <= Len(d)
      /\ \A p \in 1 .. Len(b) : d[Len(a) + p] = b[p]
  BY <1>2, <1>4, <1>5, <1>6
<1> QED
  BY <1>7 DEF a, b, c, d, PartAt
=============================================================================
