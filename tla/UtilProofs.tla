----------------------------- MODULE UtilProofs -----------------------------
(***************************************************************************)
(* Proofs about Util, for texts of any length: what Split returns, which   *)
(* paths ValidPath accepts, and that UrlDecode undoes what UrlEncode and   *)
(* other clients write, in a text and in a whole target.                   *)
(*                                                                         *)
(* Split, UrlDecode and the folds are recursive functions, and what one of *)
(* them returns is read off its equation.  That there is a function with   *)
(* this equation is shown first, by SetInduction: one that is right from a *)
(* place on is continued to the place in front of it.                      *)
(***************************************************************************)
EXTENDS MCUtil, SequenceLemmas, SequenceTheorems, FiniteSetTheorems, TLAPS

-----------------------------------------------------------------------------
(* What Find returns: the first place of a byte, or 0. *)
IsFirst(src, byte, from, p) ==
  \/ p = 0 /\ \A i \in from .. Len(src) : src[i] # byte
  \/ p \in from .. Len(src) /\ src[p] = byte /\ \A i \in from .. p - 1 : src[i] # byte

(* Find returns that. *)
LEMMA FindIsFirst ==
  ASSUME NEW X, NEW src \in Seq(X), NEW byte, NEW from \in 1 .. Len(src) + 1
  PROVE  IsFirst(src, byte, from, Find(src, byte, from))
<1> DEFINE S == {i \in from .. Len(src) : src[i] = byte}
<1>1. Find(src, byte, from) = IF S # {} THEN Min(S) ELSE 0
  BY DEF Find, SelectInSubSeq
<1>2. S \subseteq Nat /\ \A i \in from .. Len(src) : i \in S <=> src[i] = byte
  OBVIOUS
<1>3. CASE S = {}
  BY <1>1, <1>2, <1>3 DEF IsFirst
<1>4. CASE S # {}
  <2> DEFINE m == Min(S)
  <2> HIDE DEF S
  <2>1. PICK x \in S : \A y \in S : x <= y
    BY <1>2, <1>4, LeastElement
  <2>2. m \in S /\ \A y \in S : m <= y
    BY <2>1 DEF Min
  <2> HIDE DEF m
  <2>3. m \in from .. Len(src) /\ src[m] = byte
    BY <2>2 DEF S
  <2>4. \A i \in from .. m - 1 : i \in from .. Len(src) /\ ~(m <= i)
    BY <2>3
  <2>5. \A i \in from .. m - 1 : src[i] # byte
    BY <1>2, <2>2, <2>4
  <2>6. IsFirst(src, byte, from, m)
    BY <2>3, <2>5 DEF IsFirst
  <2> QED
    BY <1>1, <1>4, <2>6 DEF m
<1> QED
  BY <1>3, <1>4
-----------------------------------------------------------------------------
(* The loop of Split, at one place. *)
FieldsAt(f, src, sep, offset) ==
  LET pos == Find(src, sep, offset)
  IN  IF offset > Len(src) THEN <<>>
      ELSE IF pos = 0 THEN <<Suffix(src, offset)>>
      ELSE (IF pos = offset THEN <<>> ELSE <<SubSeq(src, offset, pos - 1)>>)
             \o f[pos + 1]

(* What LET fields in Split is to be, from a place on. *)
IsFields(f, src, sep, from) ==
  f = [offset \in from .. Len(src) + 1 |-> FieldsAt(f, src, sep, offset)]

(* What such a function is at one place. *)
LEMMA FieldsEquation ==
  ASSUME NEW f, NEW src, NEW sep, NEW from, IsFields(f, src, sep, from),
         NEW o \in from .. Len(src) + 1
  PROVE  f[o] = FieldsAt(f, src, sep, o)
<1> DEFINE g == [offset \in from .. Len(src) + 1 |-> FieldsAt(f, src, sep, offset)]
<1>1. f = g
  BY DEF IsFields
<1>2. g[o] = FieldsAt(f, src, sep, o)
  OBVIOUS
<1> HIDE DEF g
<1> QED
  BY <1>1, <1>2

(* Each step of the loop looks only at what is behind it. *)
LEMMA FieldsLocal ==
  ASSUME NEW X, NEW src \in Seq(X), NEW sep, NEW o \in 1 .. Len(src) + 1, NEW f, NEW g,
         \A p \in o + 1 .. Len(src) + 1 : f[p] = g[p]
  PROVE  FieldsAt(f, src, sep, o) = FieldsAt(g, src, sep, o)
<1> DEFINE pos == Find(src, sep, o)
<1>1. pos = 0 \/ pos \in o .. Len(src)
  BY FindIsFirst DEF IsFirst
<1> HIDE DEF pos
<1>2. pos # 0 => pos + 1 \in o + 1 .. Len(src) + 1
  BY <1>1
<1>3. pos # 0 => f[pos + 1] = g[pos + 1]
  BY <1>2
<1> QED
  BY <1>3 DEF FieldsAt, pos

(* The recursion of Split is well founded. *)
LEMMA FieldsExist ==
  ASSUME NEW X, NEW src \in Seq(X), NEW sep
  PROVE  \E f : IsFields(f, src, sep, 1)
<1> DEFINE n == Len(src)
           T == {j \in Nat : j <= n + 1 => \E f : IsFields(f, src, sep, n + 2 - j)}
<1>0. n \in Nat
  OBVIOUS
<1>1. 0 \in T
  <2> DEFINE f == [o \in n + 2 .. n + 1 |-> <<>>]
  <2>1. n + 2 - 0 = n + 2 /\ n + 2 .. n + 1 = {}
    BY <1>0
  <2>2. IsFields(f, src, sep, n + 2)
    BY <2>1 DEF IsFields
  <2> QED
    BY <2>1, <2>2
<1>2. ASSUME NEW j \in Nat, j \in T PROVE j + 1 \in T
  <2> SUFFICES ASSUME j + 1 <= n + 1 PROVE \E g : IsFields(g, src, sep, n + 2 - (j + 1))
    OBVIOUS
  <2> DEFINE a == n + 2 - (j + 1)
  <2>1. /\ j <= n + 1 /\ n + 2 - j = a + 1 /\ a \in 1 .. n + 1
        /\ \A o \in a .. n + 1 : o = a \/ o \in a + 1 .. n + 1
        /\ \A o \in a + 1 .. n + 1 : o # a /\ o \in a .. n + 1
        /\ \A o \in a .. n + 1 : o \in 1 .. n + 1
    BY <1>0
  <2>2. PICK f : IsFields(f, src, sep, a + 1)
    BY <1>2, <2>1
  <2> HIDE DEF a, n
  <2> DEFINE g == [o \in a .. n + 1 |-> IF o = a THEN FieldsAt(f, src, sep, a) ELSE f[o]]
  <2>3. \A o \in a + 1 .. n + 1 : g[o] = f[o]
    BY <2>1
  <2>4. ASSUME NEW o \in a .. n + 1 PROVE g[o] = FieldsAt(g, src, sep, o)
    <3>1. \A p \in o + 1 .. n + 1 : p \in a + 1 .. n + 1
      BY <1>0, <2>1
    <3>2. \A p \in o + 1 .. Len(src) + 1 : f[p] = g[p]
      BY <2>3, <3>1 DEF n
    <3>3. FieldsAt(f, src, sep, o) = FieldsAt(g, src, sep, o)
      <4>1. o \in 1 .. Len(src) + 1
        <5>1. o \in 1 .. n + 1
          BY <2>1, Zenon
        <5> QED
          BY <5>1 DEF n
      <4> HIDE DEF g
      <4> QED
        BY <3>2, <4>1, FieldsLocal
    <3>4. CASE o = a
      <4>1. g[a] = FieldsAt(f, src, sep, a)
        BY <3>4
      <4> HIDE DEF g
      <4> QED
        BY <3>3, <3>4, <4>1, Zenon
    <3>5. CASE o \in a + 1 .. n + 1
      <4>1. f[o] = FieldsAt(f, src, sep, o)
        BY <2>2, <3>5, FieldsEquation DEF n
      <4> QED
        BY <2>3, <3>3, <3>5, <4>1
    <3> QED
      BY <2>1, <3>4, <3>5
  <2>5. g = [o \in a .. n + 1 |-> g[o]]
    OBVIOUS
  <2> HIDE DEF g
  <2>6. g = [o \in a .. n + 1 |-> FieldsAt(g, src, sep, o)]
    BY <2>4, <2>5
  <2>7. IsFields(g, src, sep, a)
    BY <2>6 DEF IsFields, n
  <2> QED
    BY <2>7 DEF a
<1> HIDE DEF T
<1>3. Nat \subseteq T
  BY <1>1, <1>2, SetInduction
<1>4. n + 1 \in T
  BY <1>0, <1>3
<1>5. n + 1 <= n + 1 /\ n + 2 - (n + 1) = 1
  BY <1>0
<1> QED
  BY <1>4, <1>5 DEF T

(* Split returns the first value of such a function. *)
LEMMA SplitIsFields ==
  ASSUME NEW X, NEW src \in Seq(X), NEW sep
  PROVE  \E f : IsFields(f, src, sep, 1) /\ Split(src, sep) = f[1]
<1> DEFINE F == CHOOSE f : IsFields(f, src, sep, 1)
<1>1. Split(src, sep) = F[1]
  BY Zenon DEF Split, IsFields, FieldsAt
<1>2. IsFields(F, src, sep, 1)
  BY FieldsExist
<1> QED
  BY <1>1, <1>2
-----------------------------------------------------------------------------
(* The runs of bytes that begin at a place or behind it. *)
RunsFrom(src, sep, from) == {r \in Runs(src, sep) : r[1] >= from}

(* q lists the runs in R in their order, ... *)
Enumerates(q, R) ==
  /\ q \in Seq(R)
  /\ \A r \in R : \E i \in DOMAIN q : q[i] = r
  /\ \A i, j \in DOMAIN q : i < j => q[i][1] < q[j][1]

(* ... and these are the texts of the runs in q. *)
TextsOf(src, q) == [i \in DOMAIN q |-> SubSeq(src, q[i][1], q[i][2])]

(* What a run is. *)
LEMMA RunIs ==
  ASSUME NEW X, NEW src \in Seq(X), NEW sep, NEW r
  PROVE  r \in Runs(src, sep) <=>
           /\ r \in Nat \X Nat /\ r = <<r[1], r[2]>>
           /\ r[1] \in 1 .. Len(src) /\ r[2] \in r[1] .. Len(src)
           /\ \A i \in r[1] .. r[2] : src[i] # sep
           /\ r[1] = 1 \/ src[r[1] - 1] = sep
           /\ r[2] = Len(src) \/ src[r[2] + 1] = sep
BY DEF Runs

(* One run more in front. *)
InFront(r, R) == r[1] \in Nat /\ \A s \in R : r[1] < s[1] /\ s[1] \in Nat

PutInFront(r, q, R, src) ==
  /\ Enumerates(<<r>> \o q, R \cup {r})
  /\ TextsOf(src, <<r>> \o q) = <<SubSeq(src, r[1], r[2])>> \o TextsOf(src, q)

(* A run in front of a list of runs is put in front of the list. *)
LEMMA RunInFront ==
  ASSUME NEW R, NEW q, Enumerates(q, R), NEW r, InFront(r, R), NEW src
  PROVE  PutInFront(r, q, R, src)
<1> DEFINE p == <<r>> \o q
           n == Len(q)
           S == R \cup {r}
<1>1. q \in Seq(S) /\ <<r>> \in Seq(S) /\ n \in Nat /\ DOMAIN q = 1 .. n
  BY DEF Enumerates
<1>2. p \in Seq(S) /\ Len(p) = n + 1 /\ DOMAIN p = 1 .. n + 1
  BY <1>1
<1>3. p[1] = r /\ \A i \in 1 .. n : p[i + 1] = q[i]
  BY <1>1
<1>4. \A i \in 2 .. n + 1 : i - 1 \in 1 .. n /\ p[i] = q[i - 1]
  BY <1>1
<1>5. \A i \in 1 .. n : q[i] \in R
  BY <1>1 DEF Enumerates
<1> HIDE DEF p, n
<1>6. ASSUME NEW s \in S PROVE \E i \in DOMAIN p : p[i] = s
  <2>1. CASE s = r
    BY <1>1, <1>2, <1>3, <2>1
  <2>2. CASE s \in R
    <3>1. PICK i \in 1 .. n : q[i] = s
      BY <1>1, <2>2 DEF Enumerates
    <3>2. i + 1 \in 1 .. n + 1
      BY <1>1
    <3> QED
      BY <1>2, <1>3, <3>1, <3>2
  <2> QED
    BY <2>1, <2>2
<1>7. ASSUME NEW i \in DOMAIN p, NEW j \in DOMAIN p, i < j PROVE p[i][1] < p[j][1]
  <2>1. j \in 2 .. n + 1 /\ (i = 1 \/ i \in 2 .. n + 1)
    BY <1>1, <1>2, <1>7
  <2>2. p[j] = q[j - 1] /\ j - 1 \in 1 .. n
    BY <1>4, <2>1
  <2>3. CASE i = 1
    BY <1>3, <1>5, <2>2, <2>3 DEF InFront
  <2>4. CASE i \in 2 .. n + 1
    <3>1. p[i] = q[i - 1] /\ i - 1 \in 1 .. n
      BY <1>4, <2>4
    <3>2. i - 1 < j - 1
      BY <1>7, <2>1, <2>4
    <3>3. q[i - 1][1] < q[j - 1][1]
      BY <1>1, <2>2, <3>1, <3>2 DEF Enumerates
    <3> QED
      BY <2>2, <3>1, <3>3
  <2> QED
    BY <2>1, <2>3, <2>4
<1>8. Enumerates(p, S)
  BY <1>2, <1>6, <1>7 DEF Enumerates
<1>9. TextsOf(src, p) = <<SubSeq(src, r[1], r[2])>> \o TextsOf(src, q)
  <2> DEFINE t == TextsOf(src, q)
             u == <<SubSeq(src, r[1], r[2])>>
             v == TextsOf(src, p)
  <2>1. Len(t) = n /\ t = [i \in 1 .. n |-> t[i]] /\ n \in Nat /\ DOMAIN t = 1 .. n
    <3>1. t = [i \in 1 .. n |-> SubSeq(src, q[i][1], q[i][2])] /\ n \in Nat
      BY <1>1 DEF TextsOf
    <3> HIDE DEF t
    <3>2. t = [i \in 1 .. n |-> t[i]] /\ DOMAIN t = 1 .. n
      BY <3>1, Zenon
    <3>3. Len(t) = n
      BY <3>1, <3>2
    <3> QED
      BY <3>1, <3>2, <3>3
  <2>2. \A i \in 1 .. n : t[i] = SubSeq(src, q[i][1], q[i][2])
    BY <1>1 DEF TextsOf
  <2>3. v = [i \in 1 .. n + 1 |-> SubSeq(src, p[i][1], p[i][2])]
    BY <1>2 DEF TextsOf
  <2> HIDE DEF t, v
  <2>4. u \o t = [i \in 1 .. 1 + n |-> IF i <= 1 THEN u[i] ELSE t[i - 1]]
    BY <2>1
  <2>5. 1 + n = n + 1 /\ \A i \in 1 .. n + 1 : i <= 1 => i = 1
    BY <2>1
  <2>6. \A i \in 1 .. n + 1 : i = 1 \/ i \in 2 .. n + 1
    BY <2>1
  <2>7. ASSUME NEW i \in 1 .. n + 1
        PROVE  SubSeq(src, p[i][1], p[i][2]) = IF i <= 1 THEN u[i] ELSE t[i - 1]
    <3>1. CASE i = 1
      <4>1. u[1] = SubSeq(src, r[1], r[2])
        OBVIOUS
      <4>2. p[i] = r /\ u[i] = u[1] /\ i <= 1
        BY <1>3, <3>1
      <4> QED
        BY <4>1, <4>2, Zenon
    <3>2. CASE i \in 2 .. n + 1
      <4>1. i - 1 \in 1 .. n /\ p[i] = q[i - 1] /\ ~(i <= 1)
        BY <1>4, <3>2
      <4> QED
        BY <2>2, <4>1
    <3> QED
      BY <2>6, <3>1, <3>2
  <2> QED
    BY <2>3, <2>4, <2>5, <2>7 DEF t, v
<1> QED
  BY <1>8, <1>9 DEF p, PutInFront

(* Behind the last byte no run begins, ... *)
LEMMA NoRunAtEnd ==
  ASSUME NEW X, NEW src \in Seq(X), NEW sep
  PROVE  RunsFrom(src, sep, Len(src) + 1) = {}
<1> SUFFICES ASSUME NEW r \in RunsFrom(src, sep, Len(src) + 1) PROVE FALSE
  OBVIOUS
<1>1. r[1] \in 1 .. Len(src) /\ r[1] >= Len(src) + 1
  BY RunIs DEF RunsFrom
<1>2. Len(src) \in Nat
  OBVIOUS
<1> QED
  BY <1>1, <1>2

(* ... without a further separator the rest is one run, ... *)
LEMMA LastRun ==
  ASSUME NEW X, NEW src \in Seq(X), NEW sep, NEW o \in 1 .. Len(src),
         o = 1 \/ src[o - 1] = sep, \A i \in o .. Len(src) : src[i] # sep
  PROVE  RunsFrom(src, sep, o) = {<<o, Len(src)>>}
<1> DEFINE n == Len(src)
           r == <<o, n>>
<1>0. n \in Nat /\ o \in Nat /\ o \in 1 .. n
  OBVIOUS
<1>1. r[1] = o /\ r[2] = n /\ r \in Nat \X Nat
  BY <1>0
<1> HIDE DEF r
<1>2. r \in RunsFrom(src, sep, o)
  <2>1. r = <<r[1], r[2]>>
    BY <1>1
  <2>2. r[1] \in 1 .. n /\ r[2] \in r[1] .. n
    BY <1>0, <1>1
  <2>3. r[1] >= o
    BY <1>0, <1>1
  <2>4. r \in Runs(src, sep)
    BY <1>1, <2>1, <2>2, RunIs
  <2> QED
    BY <2>3, <2>4 DEF RunsFrom
<1>3. ASSUME NEW s \in RunsFrom(src, sep, o) PROVE s = r
  <2>1. /\ s = <<s[1], s[2]>> /\ s[1] >= o
        /\ s[1] \in 1 .. n /\ s[2] \in s[1] .. n
        /\ s[1] = 1 \/ src[s[1] - 1] = sep
        /\ s[2] = n \/ src[s[2] + 1] = sep
    BY <1>3, RunIs DEF RunsFrom
  <2>2. s[1] # o => s[1] - 1 \in o .. n /\ s[1] # 1
    BY <1>0, <2>1
  <2>3. s[1] = o
    BY <2>1, <2>2
  <2>4. s[2] # n => s[2] + 1 \in o .. n
    BY <1>0, <2>1
  <2>5. s[2] = n
    BY <2>1, <2>4
  <2> QED
    BY <2>1, <2>3, <2>5 DEF r
<1> QED
  BY <1>2, <1>3 DEF r

(* ... a separator is skipped, and up to the next one there is one run.    *)
LEMMA NextRun ==
  ASSUME NEW X, NEW src \in Seq(X), NEW sep, NEW o \in 1 .. Len(src),
         o = 1 \/ src[o - 1] = sep, NEW p \in o .. Len(src), src[p] = sep,
         \A i \in o .. p - 1 : src[i] # sep
  PROVE  RunsFrom(src, sep, o) =
           RunsFrom(src, sep, p + 1) \cup (IF p = o THEN {} ELSE {<<o, p - 1>>})
<1> DEFINE n == Len(src)
           r == <<o, p - 1>>
<1>0. n \in Nat /\ o \in Nat /\ o \in 1 .. n /\ p \in Nat /\ p \in o .. n
  OBVIOUS
<1>1. r[1] = o /\ r[2] = p - 1
  BY <1>0
<1> HIDE DEF r
<1>2. ASSUME p # o PROVE r \in RunsFrom(src, sep, o)
  <2>1. r = <<r[1], r[2]>>
    BY <1>1 DEF r
  <2>2. r[1] \in 1 .. n /\ r[2] \in r[1] .. n /\ r[2] + 1 = p
    BY <1>0, <1>1, <1>2
  <2>3. r[1] >= o /\ r[1] \in Nat /\ r[2] \in Nat
    BY <1>0, <1>1, <2>2
  <2>5. r \in Nat \X Nat
    BY <2>1, <2>3
  <2>6. \A i \in r[1] .. r[2] : src[i] # sep
    BY <1>1
  <2>4. r \in Runs(src, sep)
    BY <1>1, <2>1, <2>2, <2>5, <2>6, RunIs
  <2> QED
    BY <2>3, <2>4 DEF RunsFrom
<1>3. ASSUME NEW s \in RunsFrom(src, sep, p + 1) PROVE s \in RunsFrom(src, sep, o)
  <2>1. s \in Runs(src, sep) /\ s[1] \in Nat /\ s[1] >= p + 1
    BY <1>3, RunIs DEF RunsFrom
  <2>2. s[1] >= o
    BY <1>0, <2>1
  <2> QED
    BY <2>1, <2>2 DEF RunsFrom
<1>4. ASSUME NEW s \in RunsFrom(src, sep, o), s \notin RunsFrom(src, sep, p + 1)
      PROVE  p # o /\ s = r
  <2>1. /\ s = <<s[1], s[2]>> /\ s[1] >= o /\ s \in Runs(src, sep)
        /\ s[1] \in 1 .. n /\ s[2] \in s[1] .. n
        /\ \A i \in s[1] .. s[2] : src[i] # sep
        /\ s[1] = 1 \/ src[s[1] - 1] = sep
        /\ s[2] = n \/ src[s[2] + 1] = sep
    BY <1>4, RunIs DEF RunsFrom
  <2>2. ~(s[1] >= p + 1)
    BY <1>4, <2>1 DEF RunsFrom
  <2>3. s[1] # o => s[1] - 1 \in o .. p - 1 /\ s[1] # 1
    BY <1>0, <2>1, <2>2
  <2>4. s[1] = o
    BY <2>1, <2>3
  <2>5. ~(p \in s[1] .. s[2])
    BY <2>1
  <2>6. s[2] < p
    BY <1>0, <2>1, <2>4, <2>5
  <2>7. s[2] # p - 1 => s[2] + 1 \in o .. p - 1 /\ s[2] # n
    BY <1>0, <2>1, <2>4, <2>6
  <2>8. s[2] = p - 1
    BY <2>1, <2>7
  <2>9. p # o
    BY <1>0, <2>1, <2>4, <2>6
  <2> QED
    BY <2>1, <2>4, <2>8, <2>9 DEF r
<1>5. CASE p = o
  <2>1. RunsFrom(src, sep, o) = RunsFrom(src, sep, p + 1)
    BY <1>3, <1>4, <1>5
  <2> QED
    BY <1>5, <2>1
<1>6. CASE p # o
  <2>1. RunsFrom(src, sep, o) = RunsFrom(src, sep, p + 1) \cup {r}
    BY <1>2, <1>3, <1>4, <1>6
  <2> QED
    BY <1>6, <2>1 DEF r
<1> QED
  BY <1>5, <1>6

(* What the loop of Split has found from a place on that follows a         *)
(* separator: the runs from there on, in order.                            *)
Lists(src, sep, from, fields) ==
  \E q : Enumerates(q, RunsFrom(src, sep, from)) /\ fields = TextsOf(src, q)

(* The fields from a place on are the texts of the runs from there on. *)
LEMMA FieldsAreRuns ==
  ASSUME NEW X, NEW src \in Seq(X), NEW sep, NEW f, IsFields(f, src, sep, 1)
  PROVE  \A o \in 1 .. Len(src) + 1 :
           o = 1 \/ src[o - 1] = sep => Lists(src, sep, o, f[o])
<1> DEFINE n == Len(src)
           Begins(o) == o = 1 \/ src[o - 1] = sep
           T == {j \in Nat : \A o \in 1 .. n + 1 :
                               o + j >= n + 1 /\ Begins(o) => Lists(src, sep, o, f[o])}
<1>0. n \in Nat
  OBVIOUS
<1>1. \A o \in 1 .. n + 1 : f[o] = FieldsAt(f, src, sep, o)
  BY FieldsEquation
<1>2. \A o \in 1 .. n + 1 : IsFirst(src, sep, o, Find(src, sep, o))
  BY FindIsFirst
<1>3. Enumerates(<<>>, {}) /\ TextsOf(src, <<>>) = <<>>
  <2>1. Enumerates(<<>>, {})
    BY DEF Enumerates
  <2>2. TextsOf(src, <<>>) = <<>>
    BY DEF TextsOf
  <2> QED
    BY <2>1, <2>2
<1>4. Lists(src, sep, n + 1, f[n + 1])
  <2>1. n + 1 \in 1 .. n + 1 /\ n + 1 > n
    BY <1>0
  <2>2. f[n + 1] = <<>>
    BY <1>1, <2>1 DEF FieldsAt
  <2>3. RunsFrom(src, sep, n + 1) = {}
    BY NoRunAtEnd
  <2> QED
    BY <1>3, <2>2, <2>3 DEF Lists
<1>5. 0 \in T
  <2> SUFFICES ASSUME NEW o \in 1 .. n + 1, o + 0 >= n + 1 PROVE Lists(src, sep, o, f[o])
    OBVIOUS
  <2>1. o = n + 1
    BY <1>0
  <2> QED
    BY <1>4, <2>1
<1>6. ASSUME NEW j \in Nat, j \in T PROVE j + 1 \in T
  <2> SUFFICES ASSUME NEW o \in 1 .. n + 1, o + (j + 1) >= n + 1, Begins(o)
               PROVE Lists(src, sep, o, f[o])
    OBVIOUS
  <2>1. CASE o = n + 1
    BY <1>4, <2>1
  <2>2. CASE o # n + 1
    <3> DEFINE pos == Find(src, sep, o)
    <3>1. o \in 1 .. n /\ ~(o > n) /\ o \in Nat
      BY <1>0, <2>2
    <3>2. IsFirst(src, sep, o, pos)
      BY <1>2
    <3>3. f[o] = IF pos = 0 THEN <<SubSeq(src, o, n)>>
                 ELSE (IF pos = o THEN <<>> ELSE <<SubSeq(src, o, pos - 1)>>) \o f[pos + 1]
      BY <1>1, <3>1 DEF FieldsAt, Suffix
    <3> HIDE DEF pos
    <3>4. CASE pos = 0
      <4>1. RunsFrom(src, sep, o) = {<<o, n>>}
        BY <3>1, <3>2, <3>4, LastRun DEF IsFirst
      <4> DEFINE r == <<o, n>>
      <4>2. r[1] = o /\ r[2] = n
        OBVIOUS
      <4> HIDE DEF r
      <4>3. InFront(r, {})
        BY <3>1, <4>2 DEF InFront
      <4>4. /\ Enumerates(<<r>> \o <<>>, {} \cup {r})
            /\ TextsOf(src, <<r>> \o <<>>) = <<SubSeq(src, r[1], r[2])>> \o TextsOf(src, <<>>)
        <5>1. PutInFront(r, <<>>, {}, src)
          BY <1>3, <4>3, RunInFront
        <5> QED
          BY <5>1 DEF PutInFront
      <4>7. {} \cup {r} = {r}
        OBVIOUS
      <4>5. <<SubSeq(src, o, n)>> \o <<>> = <<SubSeq(src, o, n)>>
        OBVIOUS
      <4>6. f[o] = TextsOf(src, <<r>> \o <<>>)
        BY <1>3, <3>3, <3>4, <4>2, <4>4, <4>5
      <4> QED
        BY <4>1, <4>4, <4>6, <4>7 DEF Lists, r
    <3>5. CASE pos # 0
      <4>1. /\ pos \in o .. n /\ src[pos] = sep
            /\ \A i \in o .. pos - 1 : src[i] # sep
        BY <3>2, <3>5 DEF IsFirst
      <4> DEFINE b == pos + 1
      <4>2. /\ b \in 1 .. n + 1 /\ b + j >= n + 1 /\ b - 1 = pos /\ pos \in Nat
        BY <1>0, <3>1, <4>1
      <4> HIDE DEF b
      <4>3. Lists(src, sep, b, f[b])
        BY <1>6, <4>1, <4>2
      <4>4. PICK q : Enumerates(q, RunsFrom(src, sep, b)) /\ f[b] = TextsOf(src, q)
        BY <4>3 DEF Lists
      <4>5. RunsFrom(src, sep, o) =
              RunsFrom(src, sep, b) \cup (IF pos = o THEN {} ELSE {<<o, pos - 1>>})
        BY <3>1, <4>1, NextRun DEF b
      <4>6. CASE pos = o
        <5>1. f[o] = <<>> \o f[b]
          BY <3>3, <3>5, <4>6 DEF b
        <5>2. <<>> \o f[b] = f[b]
          <6>1. q \in Seq(RunsFrom(src, sep, b))
            BY <4>4 DEF Enumerates
          <6>2. TextsOf(src, q) = [i \in 1 .. Len(q) |-> SubSeq(src, q[i][1], q[i][2])]
            BY <6>1 DEF TextsOf
          <6> DEFINE t == TextsOf(src, q)
          <6>3. Len(q) \in Nat
            BY <6>1
          <6> HIDE DEF t
          <6>4. t \in Seq({t[i] : i \in 1 .. Len(q)})
            <7> DEFINE V == {t[i] : i \in 1 .. Len(q)}
                       m == Len(q)
            <7>1. t = [i \in 1 .. m |-> t[i]] /\ \A i \in 1 .. m : t[i] \in V
              BY <6>2, Zenon DEF t
            <7> HIDE DEF V
            <7>2. t \in [1 .. m -> V]
              BY <7>1
            <7> QED
              BY <6>3, <7>2 DEF V
          <6>5. <<>> \o t = t
            BY <6>4, ConcatEmptySeq
          <6> QED
            BY <4>4, <6>5 DEF t
        <5> QED
          BY <4>4, <4>5, <4>6, <5>1, <5>2 DEF Lists
      <4>7. CASE pos # o
        <5> DEFINE r == <<o, pos - 1>>
        <5>1. r[1] = o /\ r[2] = pos - 1
          OBVIOUS
        <5> HIDE DEF r
        <5>2. RunsFrom(src, sep, o) = RunsFrom(src, sep, b) \cup {r}
          BY <4>5, <4>7 DEF r
        <5>3. \A s \in RunsFrom(src, sep, b) : r[1] < s[1] /\ s[1] \in Nat
          <6> TAKE s \in RunsFrom(src, sep, b)
          <6>1. s[1] \in Nat /\ s[1] >= b
            BY RunIs DEF RunsFrom
          <6> QED
            BY <3>1, <4>1, <4>2, <5>1, <6>1
        <5>4. r[1] \in Nat
          BY <3>1, <5>1
        <5>7. InFront(r, RunsFrom(src, sep, b))
          BY <5>3, <5>4 DEF InFront
        <5>5. /\ Enumerates(<<r>> \o q, RunsFrom(src, sep, b) \cup {r})
              /\ TextsOf(src, <<r>> \o q) = <<SubSeq(src, r[1], r[2])>> \o TextsOf(src, q)
          <6>1. PutInFront(r, q, RunsFrom(src, sep, b), src)
            BY <4>4, <5>7, RunInFront
          <6> QED
            BY <6>1 DEF PutInFront
        <5>6. f[o] = <<SubSeq(src, o, pos - 1)>> \o f[b]
          BY <3>3, <3>5, <4>7 DEF b
        <5> QED
          BY <4>4, <5>1, <5>2, <5>5, <5>6 DEF Lists
      <4> QED
        BY <4>6, <4>7
    <3> QED
      BY <3>4, <3>5
  <2> QED
    BY <2>1, <2>2
<1> HIDE DEF T
<1>7. Nat \subseteq T
  BY <1>5, <1>6, SetInduction
<1>8. ASSUME NEW o \in 1 .. n + 1, Begins(o) PROVE Lists(src, sep, o, f[o])
  <2>1. n \in T /\ o + n >= n + 1
    BY <1>0, <1>7
  <2> QED
    BY <1>8, <2>1 DEF T
<1> QED
  BY <1>8

(* Split returns the texts of the runs, in order. *)
LEMMA SplitFindsRuns ==
  ASSUME NEW X, NEW src \in Seq(X), NEW sep
  PROVE  \E q : Enumerates(q, Runs(src, sep)) /\ Split(src, sep) = TextsOf(src, q)
<1>1. PICK f : IsFields(f, src, sep, 1) /\ Split(src, sep) = f[1]
  BY SplitIsFields
<1>2. 1 \in 1 .. Len(src) + 1
  OBVIOUS
<1>3. Lists(src, sep, 1, f[1])
  BY <1>1, <1>2, FieldsAreRuns
<1>4. RunsFrom(src, sep, 1) = Runs(src, sep)
  BY RunIs DEF RunsFrom
<1> QED
  BY <1>1, <1>3, <1>4 DEF Lists

(* The number of the elements that come no later than the i-th. *)
LEMMA PlaceIs ==
  ASSUME NEW R, NEW q, Enumerates(q, R), \A r \in R : r[1] \in Nat
  PROVE  /\ Cardinality(R) = Len(q)
         /\ \A i \in DOMAIN q : Cardinality({s \in R : s[1] <= q[i][1]}) = i
<1> DEFINE m == Len(q)
<1>1. m \in Nat /\ DOMAIN q = 1 .. m /\ q \in [1 .. m -> R]
  BY DEF Enumerates
<1>2. \A i, j \in 1 .. m : i < j => q[i][1] < q[j][1]
  BY <1>1 DEF Enumerates
<1>3. \A i \in 1 .. m : q[i] \in R /\ q[i][1] \in Nat
  BY <1>1
<1> HIDE DEF m
<1>4. \A i, j \in 1 .. m : i <= j <=> q[i][1] <= q[j][1]
  <2> TAKE i, j \in 1 .. m
  <2> DEFINE a == q[i][1]
             b == q[j][1]
  <2>1. a \in Nat /\ b \in Nat
    BY <1>3
  <2>2. (i < j => a < b) /\ (j < i => b < a) /\ (i = j => a = b)
    BY <1>2
  <2> HIDE DEF a, b
  <2>3. i <= j <=> a <= b
    BY <1>1, <2>1, <2>2
  <2> QED
    BY <2>3 DEF a, b
<1>5. \A i, j \in 1 .. m : q[i] = q[j] => i = j
  <2> SUFFICES ASSUME NEW i \in 1 .. m, NEW j \in 1 .. m, q[i] = q[j] PROVE i = j
    OBVIOUS
  <2>1. q[i][1] <= q[j][1] /\ q[j][1] <= q[i][1]
    BY <1>3
  <2>2. i <= j /\ j <= i
    BY <1>4, <2>1
  <2> QED
    BY <1>1, <2>2
<1>6. \A r \in R : \E i \in 1 .. m : q[i] = r
  BY <1>1 DEF Enumerates
<1>7. Cardinality(R) = m
  <2>1. q \in Bijection(1 .. m, R)
    BY <1>1, <1>5, <1>6 DEF Bijection, Injection, Surjection, IsInjective
  <2> QED
    BY <1>1, <2>1, FS_CountingElements DEF ExistsBijection
<1>8. ASSUME NEW i \in 1 .. m
      PROVE  Cardinality({s \in R : s[1] <= q[i][1]}) = i
  <2> DEFINE S == {s \in R : s[1] <= q[i][1]}
             g == [k \in 1 .. i |-> q[k]]
  <2>1. i \in Nat /\ \A k \in 1 .. i : k \in 1 .. m /\ k <= i
    BY <1>1
  <2>2. \A k \in 1 .. i : q[k] \in S
    BY <1>3, <1>4, <2>1
  <2>3. \A s \in S : \E k \in 1 .. i : q[k] = s
    <3> TAKE s \in S
    <3>1. PICK k \in 1 .. m : q[k] = s
      BY <1>6
    <3>2. k <= i
      BY <1>4, <3>1
    <3> QED
      BY <1>1, <3>1, <3>2
  <2> HIDE DEF S
  <2>4. g \in [1 .. i -> S]
    BY <2>2
  <2>5. g \in Bijection(1 .. i, S)
    <3>1. \A a, b \in 1 .. i : g[a] = g[b] => a = b
      BY <1>5, <2>1
    <3>2. \A s \in S : \E k \in 1 .. i : g[k] = s
      BY <2>3
    <3>3. DOMAIN g = 1 .. i
      OBVIOUS
    <3> HIDE DEF g
    <3> QED
      BY <2>4, <3>1, <3>2, <3>3 DEF Bijection, Injection, Surjection, IsInjective
  <2>6. ExistsBijection(1 .. i, S)
    BY <2>5 DEF ExistsBijection
  <2>7. Cardinality(S) = i
    BY <2>1, <2>6, FS_CountingElements
  <2> QED
    BY <2>7 DEF S
<1> QED
  BY <1>1, <1>7, <1>8 DEF m

(* Split finds each field in its place, in any text and with any separator. *)
THEOREM SplitIsRight ==
  ASSUME NEW X, NEW src \in Seq(X), NEW sep
  PROVE  SplitFinds(src, sep)
<1> DEFINE R == Runs(src, sep)
           d == Split(src, sep)
<1>1. PICK q : Enumerates(q, R) /\ d = TextsOf(src, q)
  BY SplitFindsRuns
<1>2. \A r \in R : r[1] \in Nat
  BY RunIs
<1> HIDE DEF R, d
<1>3. /\ Cardinality(R) = Len(q)
      /\ \A i \in DOMAIN q : Cardinality({s \in R : s[1] <= q[i][1]}) = i
  BY <1>1, <1>2, PlaceIs
<1>4. q \in Seq(R) /\ \A r \in R : \E i \in DOMAIN q : q[i] = r
  BY <1>1 DEF Enumerates
<1>5. d = [i \in 1 .. Len(q) |-> SubSeq(src, q[i][1], q[i][2])] /\ Len(q) \in Nat
  BY <1>1, <1>4 DEF TextsOf
<1>6. Len(d) = Cardinality(R)
  BY <1>3, <1>5
<1>7. ASSUME NEW r \in R
      PROVE  d[Cardinality({s \in R : s[1] <= r[1]})] = SubSeq(src, r[1], r[2])
  <2>1. PICK i \in 1 .. Len(q) : q[i] = r
    BY <1>4
  <2>2. Cardinality({s \in R : s[1] <= r[1]}) = i
    <3>1. i \in DOMAIN q
      BY <1>4
    <3>2. Cardinality({s \in R : s[1] <= q[i][1]}) = i
      BY <1>3, <3>1, Zenon
    <3>3. {s \in R : s[1] <= q[i][1]} = {s \in R : s[1] <= r[1]}
      BY <2>1
    <3> QED
      BY <3>2, <3>3, Zenon
  <2>3. d[i] = SubSeq(src, r[1], r[2])
    BY <1>5, <2>1
  <2> QED
    BY <2>2, <2>3
<1> QED
  BY <1>6, <1>7 DEF SplitFinds, R, d

(* What a text is made of. *)
TextOK == alphabet \in {TargetBytes, PathBytes} /\ text \in Seq(alphabet)

(* A text only ever grows by bytes of its alphabet. *)
LEMMA TextCorrect == Spec => []TextOK
<1>1. Init => TextOK
  BY DEF Init, TextOK
<1>2. TextOK /\ [Grow]_<<text, alphabet>> => TextOK'
  BY DEF TextOK, Grow
<1> QED
  BY <1>1, <1>2, PTL DEF Spec

(* Split agrees with the runs of a text, however long the texts get. *)
THEOREM SplitAlwaysAgrees == Spec => []SplitAgrees
<1>1. TextOK => SplitAgrees
  BY SplitIsRight DEF TextOK, SplitAgrees
<1> QED
  BY <1>1, TextCorrect, PTL
-----------------------------------------------------------------------------
(* What LET iter, in the fold of Level over d, is to be. *)
IsIter(f, d, n) ==
  f = [S \in SUBSET (1 .. n) |-> IF S = {} THEN 0 ELSE Level(f[S \ {Max(S)}], d[Max(S)])]

(* What such a function is of one set. *)
IterOf(f, d, S) == f[S] = IF S = {} THEN 0 ELSE Level(f[S \ {Max(S)}], d[Max(S)])

(* IsIter says so of each set. *)
LEMMA IterAt ==
  ASSUME NEW f, NEW d, NEW n, IsIter(f, d, n), NEW S \in SUBSET (1 .. n)
  PROVE  IterOf(f, d, S)
<1> DEFINE g == [s \in SUBSET (1 .. n) |->
                   IF s = {} THEN 0 ELSE Level(f[s \ {Max(s)}], d[Max(s)])]
<1>1. f = g
  BY DEF IsIter
<1>2. g[S] = IF S = {} THEN 0 ELSE Level(f[S \ {Max(S)}], d[Max(S)])
  OBVIOUS
<1> HIDE DEF g
<1> QED
  BY <1>1, <1>2 DEF IterOf

(* The last of the numbers that are folded. *)
LEMMA MaxIs ==
  ASSUME NEW n \in Nat, NEW S \in SUBSET (1 .. n), n \in S
  PROVE  Max(S) = n
<1>1. \A x \in S : x \in Nat /\ n >= x
  OBVIOUS
<1> DEFINE m == Max(S)
<1>2. m \in S /\ m >= n
  BY <1>1 DEF Max
<1> HIDE DEF m
<1>3. m = n
  BY <1>1, <1>2
<1> QED
  BY <1>3 DEF m

(* The recursion of the fold is well founded. *)
LEMMA IterExists ==
  ASSUME NEW d PROVE \A n \in Nat : \E f : IsIter(f, d, n)
<1> DEFINE T == {n \in Nat : \E f : IsIter(f, d, n)}
<1>1. 0 \in T
  <2> DEFINE f == [S \in SUBSET (1 .. 0) |-> 0]
  <2>1. \A S \in SUBSET (1 .. 0) : S = {}
    OBVIOUS
  <2>2. f = [S \in SUBSET (1 .. 0) |->
               IF S = {} THEN 0 ELSE Level(f[S \ {Max(S)}], d[Max(S)])]
    BY <2>1
  <2>3. IsIter(f, d, 0)
    BY <2>2 DEF IsIter
  <2> QED
    BY <2>3
<1>2. ASSUME NEW n \in Nat, n \in T PROVE n + 1 \in T
  <2>1. PICK f : IsIter(f, d, n)
    BY <1>2
  <2> DEFINE m == n + 1
  <2>2. m \in Nat /\ \A S \in SUBSET (1 .. m) : S \ {m} \in SUBSET (1 .. n)
    OBVIOUS
  <2>3. SUBSET (1 .. n) \subseteq SUBSET (1 .. m) /\ \A S \in SUBSET (1 .. n) : m \notin S
    OBVIOUS
  <2> HIDE DEF m
  <2> DEFINE g == [S \in SUBSET (1 .. m) |->
                     IF m \in S THEN Level(f[S \ {m}], d[m]) ELSE f[S]]
  <2>4. \A S \in SUBSET (1 .. n) : g[S] = f[S]
    BY <2>3
  <2>5. ASSUME NEW S \in SUBSET (1 .. m)
        PROVE  g[S] = IF S = {} THEN 0 ELSE Level(g[S \ {Max(S)}], d[Max(S)])
    <3>1. CASE m \in S
      <4>1. Max(S) = m /\ S # {}
        BY <2>2, <3>1, MaxIs
      <4>2. g[S] = Level(f[S \ {m}], d[m])
        BY <3>1
      <4>3. g[S \ {m}] = f[S \ {m}]
        BY <2>2, <2>4
      <4> HIDE DEF g
      <4> QED
        BY <4>1, <4>2, <4>3
    <3>2. CASE m \notin S
      <4> DEFINE r == S \ {Max(S)}
      <4>1. S \in SUBSET (1 .. n) /\ r \in SUBSET (1 .. n)
        <5>1. S \ {m} = S
          BY <3>2
        <5> QED
          BY <2>2, <5>1
      <4>2. g[S] = f[S] /\ g[r] = f[r]
        BY <2>4, <4>1
      <4>3. f[S] = IF S = {} THEN 0 ELSE Level(f[r], d[Max(S)])
        BY <2>1, <4>1, IterAt DEF IterOf
      <4> HIDE DEF g
      <4> QED
        BY <4>2, <4>3
    <3> QED
      BY <3>1, <3>2
  <2>6. g = [S \in SUBSET (1 .. m) |-> g[S]]
    OBVIOUS
  <2> HIDE DEF g
  <2>7. IsIter(g, d, m)
    BY <2>5, <2>6 DEF IsIter
  <2> QED
    BY <2>2, <2>7 DEF m
<1> HIDE DEF T
<1>3. Nat \subseteq T
  BY <1>1, <1>2, SetInduction
<1> QED
  BY <1>3 DEF T

(* The levels on the way along the directories d. *)
Levels(l, d) ==
  /\ l[0] = 0
  /\ \A k \in 1 .. Len(d) : l[k] = Level(l[k - 1], d[k])

(* The fold returns the last of the levels. *)
LEMMA FoldIsLastLevel ==
  ASSUME NEW X, NEW d \in Seq(X)
  PROVE  \E l : Levels(l, d) /\ FoldLeft(Level, 0, d) = l[Len(d)]
<1> DEFINE n == Len(d)
<1>1. n \in Nat /\ DOMAIN d = 1 .. n
  OBVIOUS
<1> HIDE DEF n
<1> DEFINE F == CHOOSE f : IsIter(f, d, n)
<1>2. FoldLeft(Level, 0, d) = F[1 .. n]
  BY <1>1, Zenon DEF FoldLeft, MapThenFoldSet, IsIter
<1>3. IsIter(F, d, n)
  BY <1>1, IterExists
<1> HIDE DEF F
<1> DEFINE l == [k \in 0 .. n |-> F[1 .. k]]
<1>4. l[n] = F[1 .. n]
  BY <1>1
<1>5. l[0] = 0
  <2>1. 1 .. 0 = {} /\ {} \in SUBSET (1 .. n) /\ 0 \in 0 .. n
    BY <1>1
  <2>2. F[{}] = 0
    BY <1>3, <2>1, IterAt DEF IterOf
  <2> QED
    BY <2>1, <2>2
<1>6. ASSUME NEW k \in 1 .. n PROVE l[k] = Level(l[k - 1], d[k])
  <2> DEFINE S == 1 .. k
  <2>1. /\ k \in Nat /\ k - 1 \in 0 .. n /\ k \in 0 .. n /\ k \in S /\ S # {}
        /\ S \in SUBSET (1 .. n) /\ S \in SUBSET (1 .. k)
    BY <1>1
  <2>2. S \ {k} = 1 .. k - 1
    BY <1>1
  <2> HIDE DEF S
  <2>3. Max(S) = k
    BY <2>1, MaxIs
  <2>4. F[S] = Level(F[S \ {k}], d[k])
    <3>1. S \in SUBSET (1 .. n)
      BY <2>1
    <3>2. IterOf(F, d, S)
      BY <1>3, <3>1, IterAt
    <3> QED
      BY <2>1, <2>3, <3>2, Zenon DEF IterOf
  <2>5. l[k] = F[S] /\ l[k - 1] = F[1 .. k - 1]
    BY <2>1 DEF S
  <2> QED
    BY <2>2, <2>4, <2>5
<1> HIDE DEF l
<1>7. Levels(l, d)
  BY <1>5, <1>6 DEF Levels, n
<1> QED
  BY <1>2, <1>4, <1>7 DEF n

(* The ways up are counted one by one. *)
LEMMA UpsStep ==
  ASSUME NEW d, NEW n \in Nat
  PROVE  /\ Ups(d, 0) = 0 /\ Ups(d, n) \in Nat
         /\ Ups(d, n + 1) = IF d[n + 1] = Up THEN Ups(d, n) + 1 ELSE Ups(d, n)
<1> DEFINE S == {i \in 1 .. n : d[i] = Up}
           U == {i \in 1 .. n + 1 : d[i] = Up}
           v == n + 1
<1>1. IsFiniteSet(S) /\ v \notin S
  <2>1. IsFiniteSet(1 .. n)
    BY FS_Interval
  <2> QED
    BY <2>1, FS_Subset
<1>2. U = IF d[v] = Up THEN S \cup {v} ELSE S
  OBVIOUS
<1>3. {i \in 1 .. 0 : d[i] = Up} = {}
  OBVIOUS
<1> HIDE DEF S, U, v
<1>4. Cardinality(S) \in Nat /\ Cardinality(S \cup {v}) = Cardinality(S) + 1
  BY <1>1, FS_CardinalityType, FS_AddElement
<1>5. Ups(d, 0) = 0
  BY <1>3, FS_EmptySet DEF Ups
<1>6. Cardinality(U) = IF d[v] = Up THEN Cardinality(S) + 1 ELSE Cardinality(S)
  BY <1>2, <1>4
<1>7. Ups(d, n) = Cardinality(S) /\ Ups(d, n + 1) = Cardinality(U)
  BY DEF Ups, S, U
<1> QED
  BY <1>4, <1>5, <1>6, <1>7 DEF v

(* The level is the ways down less the ways up, and at least 0, as long as *)
(* one went up no more often than down; and once below 0 it stays there.   *)
StaysBelow(d, n) == \A m \in 1 .. n : 2 * Ups(d, m) <= m

(* The last level is not negative if none on the way is: until then a      *)
(* level is the number of directories minus twice the ways up.             *)
LEMMA LevelsCount ==
  ASSUME NEW X, NEW d \in Seq(X), NEW l, Levels(l, d)
  PROVE  l[Len(d)] >= 0 <=> StaysBelow(d, Len(d))
<1> DEFINE n == Len(d)
           Counts(k) == /\ l[k] \in Int
                        /\ l[k] >= 0 => l[k] = k - 2 * Ups(d, k) /\ StaysBelow(d, k)
                        /\ l[k] < 0 => ~StaysBelow(d, k)
           T == {k \in Nat : k <= n => Counts(k)}
<1>0. n \in Nat
  OBVIOUS
<1>1. 0 \in T
  <2>1. l[0] = 0 /\ Ups(d, 0) = 0
    BY UpsStep DEF Levels
  <2>2. StaysBelow(d, 0)
    BY DEF StaysBelow
  <2> QED
    BY <2>1, <2>2
<1>2. ASSUME NEW k \in Nat, k \in T PROVE k + 1 \in T
  <2> SUFFICES ASSUME k + 1 <= n PROVE Counts(k + 1)
    OBVIOUS
  <2> DEFINE j == k + 1
             a == l[k]
             b == l[j]
             u == Ups(d, k)
             v == Ups(d, j)
  <2>1. Counts(k)
    BY <1>0, <1>2
  <2>2. b = Level(a, d[j])
    <3>1. j \in 1 .. Len(d) /\ j - 1 = k
      BY <1>0
    <3> QED
      BY <3>1 DEF Levels
  <2>3. u \in Nat /\ v = IF d[j] = Up THEN u + 1 ELSE u
    BY UpsStep
  <2>4. StaysBelow(d, j) <=> StaysBelow(d, k) /\ 2 * v <= j
    <3>1. \A m \in 1 .. j : m \in 1 .. k \/ m = j
      OBVIOUS
    <3>2. \A m \in 1 .. k : m \in 1 .. j
      OBVIOUS
    <3>3. j \in 1 .. j
      OBVIOUS
    <3> HIDE DEF j
    <3> QED
      BY <3>1, <3>2, <3>3 DEF StaysBelow, v
  <2>5. /\ a \in Int
        /\ a >= 0 => a = k - 2 * u /\ StaysBelow(d, k)
        /\ a < 0 => ~StaysBelow(d, k)
    BY <2>1
  <2>6. j \in Nat /\ j = k + 1
    OBVIOUS
  <2> HIDE DEF a, b, u, v, j
  <2>7. CASE a < 0
    <3>1. b = a
      BY <2>2, <2>7 DEF Level
    <3> QED
      BY <2>4, <2>5, <2>7, <3>1 DEF b, j
  <2>8. CASE a >= 0
    <3>1. b = IF d[j] = Up THEN a - 1 ELSE a + 1
      BY <2>2, <2>5, <2>8 DEF Level
    <3>2. b \in Int /\ b = j - 2 * v
      BY <2>3, <2>5, <2>6, <2>8, <3>1
    <3>3. b >= 0 <=> 2 * v <= j
      BY <2>3, <2>6, <3>2
    <3>4. StaysBelow(d, j) <=> b >= 0
      BY <2>4, <2>5, <2>8, <3>3
    <3> QED
      BY <3>2, <3>4 DEF b, j, v
  <2> QED
    BY <2>5, <2>7, <2>8
<1> HIDE DEF T
<1>3. Nat \subseteq T
  BY <1>1, <1>2, SetInduction
<1>4. Counts(n)
  BY <1>0, <1>3 DEF T
<1> HIDE DEF n
<1>5. l[n] >= 0 <=> StaysBelow(d, n)
  BY <1>4
<1> QED
  BY <1>5 DEF n

(* Split returns a sequence. *)
LEMMA SplitType ==
  ASSUME NEW X, NEW src \in Seq(X), NEW sep
  PROVE  Split(src, sep) \in Seq(Seq(X))
<1> DEFINE d == Split(src, sep)
<1>1. PICK q : Enumerates(q, Runs(src, sep)) /\ d = TextsOf(src, q)
  BY SplitFindsRuns
<1>2. q \in Seq(Runs(src, sep))
  BY <1>1 DEF Enumerates
<1>3. d = [i \in 1 .. Len(q) |-> SubSeq(src, q[i][1], q[i][2])] /\ Len(q) \in Nat
  BY <1>1, <1>2 DEF TextsOf
<1>4. \A i \in 1 .. Len(q) : SubSeq(src, q[i][1], q[i][2]) \in Seq(X)
  <2> TAKE i \in 1 .. Len(q)
  <2> DEFINE r == q[i]
  <2>1. r \in Runs(src, sep)
    BY <1>2
  <2> HIDE DEF r
  <2>2. r[1] \in 1 .. Len(src) /\ r[2] \in r[1] .. Len(src)
    BY <2>1, RunIs
  <2>3. \A k \in r[1] .. r[2] : src[k] \in X
    BY <2>2
  <2>4. SubSeq(src, r[1], r[2]) \in Seq(X)
    BY <2>2, <2>3, SubSeqProperties
  <2> QED
    BY <2>4 DEF r
<1> HIDE DEF d
<1>5. d \in Seq(Seq(X))
  BY <1>3, <1>4
<1> QED
  BY <1>5 DEF d

(* The ways down are counted one by one. *)
LEMMA DownsStep ==
  ASSUME NEW d, NEW n \in Nat
  PROVE  /\ Downs(d, 0) = 0 /\ Downs(d, n) \in Nat
         /\ Downs(d, n + 1) = IF d[n + 1] \in {Up, Stay} THEN Downs(d, n)
                                                         ELSE Downs(d, n) + 1
<1> DEFINE S == {i \in 1 .. n : d[i] \notin {Up, Stay}}
           U == {i \in 1 .. n + 1 : d[i] \notin {Up, Stay}}
           v == n + 1
<1>1. IsFiniteSet(S) /\ v \notin S
  <2>1. IsFiniteSet(1 .. n)
    BY FS_Interval
  <2> QED
    BY <2>1, FS_Subset
<1>2. U = IF d[v] \in {Up, Stay} THEN S ELSE S \cup {v}
  OBVIOUS
<1>3. {i \in 1 .. 0 : d[i] \notin {Up, Stay}} = {}
  OBVIOUS
<1>7. Downs(d, n) = Cardinality(S) /\ Downs(d, n + 1) = Cardinality(U)
  BY DEF Downs, S, U
<1> HIDE DEF S, U, v
<1>4. Cardinality(S) \in Nat /\ Cardinality(S \cup {v}) = Cardinality(S) + 1
  BY <1>1, FS_CardinalityType, FS_AddElement
<1>5. Downs(d, 0) = 0
  BY <1>3, FS_EmptySet DEF Downs
<1>6. Cardinality(U) = IF d[v] \in {Up, Stay} THEN Cardinality(S) ELSE Cardinality(S) + 1
  BY <1>2, <1>4
<1> QED
  BY <1>4, <1>5, <1>6, <1>7 DEF v

(* Up and Stay are different names. *)
LEMMA StayIsNotUp == Stay # Up
  BY DEF Stay, Up, Dot

(* Of the first n directories none goes both up and down, and each that is *)
(* not "." does one of them.                                               *)
LEMMA WaysCount ==
  ASSUME NEW d, NEW n \in Nat
  PROVE  /\ Ups(d, n) \in Nat /\ Downs(d, n) \in Nat
         /\ Ups(d, n) + Downs(d, n) <= n
         /\ (\A i \in 1 .. n : d[i] # Stay) => Ups(d, n) + Downs(d, n) = n
<1> DEFINE Sum(k) == Ups(d, k) + Downs(d, k)
           NoStay(k) == \A i \in 1 .. k : d[i] # Stay
           T == {k \in Nat : Sum(k) <= k /\ (NoStay(k) => Sum(k) = k)}
<1>1. 0 \in T
  BY UpsStep, DownsStep
<1>2. ASSUME NEW k \in Nat, k \in T PROVE k + 1 \in T
  <2> DEFINE j == k + 1
             u == Ups(d, k)
             v == Downs(d, k)
             x == Ups(d, j)
             y == Downs(d, j)
  <2>1. u \in Nat /\ x = IF d[j] = Up THEN u + 1 ELSE u
    BY UpsStep
  <2>2. v \in Nat /\ y = IF d[j] \in {Up, Stay} THEN v ELSE v + 1
    BY DownsStep
  <2>3. u + v <= k /\ (NoStay(k) => u + v = k)
    BY <1>2
  <2>4. NoStay(j) => NoStay(k) /\ d[j] # Stay
    OBVIOUS
  <2>5. j \in Nat /\ j = k + 1
    OBVIOUS
  <2> HIDE DEF u, v, x, y, j, NoStay
  <2>6. x + y <= j /\ (d[j] # Stay => x + y = u + v + 1)
    BY <2>1, <2>2, <2>3, <2>5, StayIsNotUp
  <2>7. NoStay(j) => x + y = j
    BY <2>1, <2>2, <2>3, <2>4, <2>5, <2>6
  <2> QED
    BY <2>5, <2>6, <2>7 DEF x, y
<1> HIDE DEF T
<1>3. Nat \subseteq T
  BY <1>1, <1>2, SetInduction
<1>4. Sum(n) <= n /\ (NoStay(n) => Sum(n) = n)
  BY <1>3 DEF T
<1> QED
  BY <1>4, UpsStep, DownsStep

(* Going up more often than down on some part of the way. *)
Leaves(d) == \E n \in 1 .. Len(d) : Ups(d, n) > Downs(d, n)

(* What ValidPath counts, and the way a file system takes. *)
LEMMA BelowOrLeaves ==
  ASSUME NEW X, NEW d \in Seq(X)
  PROVE  /\ ~Leaves(d) => StaysBelow(d, Len(d))
         /\ Leaves(d) /\ (\A i \in 1 .. Len(d) : d[i] # Stay) => ~StaysBelow(d, Len(d))
<1>1. ASSUME ~Leaves(d), NEW m \in 1 .. Len(d) PROVE 2 * Ups(d, m) <= m
  <2>1. m \in Nat /\ ~(Ups(d, m) > Downs(d, m))
    BY <1>1 DEF Leaves
  <2>2. Ups(d, m) \in Nat /\ Downs(d, m) \in Nat /\ Ups(d, m) + Downs(d, m) <= m
    BY <2>1, WaysCount
  <2> QED
    BY <2>1, <2>2
<1>2. ASSUME Leaves(d), \A i \in 1 .. Len(d) : d[i] # Stay
      PROVE  \E m \in 1 .. Len(d) : ~(2 * Ups(d, m) <= m)
  <2>1. PICK m \in 1 .. Len(d) : Ups(d, m) > Downs(d, m)
    BY <1>2 DEF Leaves
  <2>2. m \in Nat /\ \A i \in 1 .. m : d[i] # Stay
    BY <1>2
  <2>3. Ups(d, m) \in Nat /\ Downs(d, m) \in Nat /\ Ups(d, m) + Downs(d, m) = m
    BY <2>2, WaysCount
  <2>4. ~(2 * Ups(d, m) <= m)
    BY <2>1, <2>2, <2>3
  <2> QED
    BY <2>4
<1> QED
  BY <1>1, <1>2 DEF StaysBelow

(* A path, whatever it is made of, is refused only if it leaves the root,  *)
(* and every one without "." that leaves it is refused.  (Of the paths     *)
(* with "." some that leave it are accepted: see PathNeverLeaves.)         *)
THEOREM PathIsRight ==
  ASSUME NEW X, NEW path \in Seq(X)
  PROVE  /\ ~LeavesRoot(path) => ValidPath(path)
         /\ LeavesRoot(path) /\ Stay \notin Range(Split(path, Slash)) => ~ValidPath(path)
<1> DEFINE d == Split(path, Slash)
<1>1. d \in Seq(Seq(X))
  BY SplitType
<1>2. ValidPath(path) <=> FoldLeft(Level, 0, d) >= 0
  BY DEF ValidPath
<1>3. LeavesRoot(path) <=> \E n \in DOMAIN d : Ups(d, n) > Downs(d, n)
  BY DEF LeavesRoot
<1>4. Stay \notin Range(Split(path, Slash)) => \A i \in DOMAIN d : d[i] # Stay
  BY DEF Range
<1> HIDE DEF d
<1>5. PICK l : Levels(l, d) /\ FoldLeft(Level, 0, d) = l[Len(d)]
  BY <1>1, FoldIsLastLevel
<1>6. l[Len(d)] >= 0 <=> StaysBelow(d, Len(d))
  BY <1>1, <1>5, LevelsCount
<1>7. DOMAIN d = 1 .. Len(d)
  BY <1>1
<1>8. LeavesRoot(path) <=> Leaves(d)
  BY <1>3, <1>7 DEF Leaves
<1>9. Stay \notin Range(Split(path, Slash)) => \A i \in 1 .. Len(d) : d[i] # Stay
  BY <1>4, <1>7
<1>10. ValidPath(path) <=> StaysBelow(d, Len(d))
  BY <1>2, <1>5, <1>6
<1> QED
  BY <1>1, <1>8, <1>9, <1>10, BelowOrLeaves

(* A path of any length is refused only if it leaves the root, and without *)
(* "." always if it does.                                                  *)
THEOREM PathAlwaysBelow == Spec => []PathStaysBelow
<1>1. ASSUME TextOK PROVE PathStaysBelow
  <2>1. text \in Seq(alphabet)
    BY <1>1 DEF TextOK
  <2> QED
    BY <2>1, PathIsRight DEF PathStaysBelow
<1> QED
  BY <1>1, TextCorrect, PTL
-----------------------------------------------------------------------------
Byte == 0 .. 255

(* The loop of UrlDecode, at one place. *)
DecodedAt(f, url, plus, i) ==
  CASE i > Len(url) -> <<>>
    [] i <= Len(url) /\ url[i] = Plus /\ plus -> <<Space>> \o f[i + 1]
    [] i + 2 <= Len(url) /\ url[i] = Percent ->
         <<(HEXTOI(url[i + 1]) * 16 + HEXTOI(url[i + 2])) % 256>> \o f[i + 3]
    [] OTHER -> <<url[i]>> \o f[i + 1]

(* What LET from in UrlDecode is to be, from a place on. *)
IsDecoded(f, url, plus, a) ==
  f = [i \in a .. Len(url) + 1 |-> DecodedAt(f, url, plus, i)]

(* What such a function is at one place. *)
LEMMA DecodedEquation ==
  ASSUME NEW f, NEW url, NEW plus, NEW a, IsDecoded(f, url, plus, a),
         NEW i \in a .. Len(url) + 1
  PROVE  f[i] = DecodedAt(f, url, plus, i)
<1> DEFINE g == [j \in a .. Len(url) + 1 |-> DecodedAt(f, url, plus, j)]
<1>1. f = g
  BY DEF IsDecoded
<1>2. g[i] = DecodedAt(f, url, plus, i)
  OBVIOUS
<1> HIDE DEF g
<1> QED
  BY <1>1, <1>2

(* The cases of the loop: the end, a '+', an escape, and any other byte. *)
DecodeSteps(f, url, plus, i) ==
  /\ i > Len(url) => DecodedAt(f, url, plus, i) = <<>>
  /\ i <= Len(url) /\ url[i] = Plus /\ plus =>
       DecodedAt(f, url, plus, i) = <<Space>> \o f[i + 1]
  /\ i + 2 <= Len(url) /\ url[i] = Percent =>
       DecodedAt(f, url, plus, i) =
         <<(HEXTOI(url[i + 1]) * 16 + HEXTOI(url[i + 2])) % 256>> \o f[i + 3]
  /\ i <= Len(url) /\ ~(url[i] = Plus /\ plus) /\ ~(i + 2 <= Len(url) /\ url[i] = Percent) =>
       DecodedAt(f, url, plus, i) = <<url[i]>> \o f[i + 1]

(* The cases exclude each other. *)
LEMMA DecodedCases ==
  ASSUME NEW X, NEW url \in Seq(X), NEW plus \in BOOLEAN, NEW i \in 1 .. Len(url) + 1, NEW f
  PROVE  DecodeSteps(f, url, plus, i)
<1> DEFINE n == Len(url)
           a == i > n
           b == i <= n /\ url[i] = Plus /\ plus
           c == i + 2 <= n /\ url[i] = Percent
           P == <<Space>> \o f[i + 1]
           Q == <<(HEXTOI(url[i + 1]) * 16 + HEXTOI(url[i + 2])) % 256>> \o f[i + 3]
           R == <<url[i]>> \o f[i + 1]
           D == DecodedAt(f, url, plus, i)
<1>1. D = CASE a -> <<>> [] b -> P [] c -> Q [] OTHER -> R
  BY DEF DecodedAt
<1>2. ~(a /\ b) /\ ~(a /\ c) /\ ~(b /\ c) /\ (~a <=> i <= n)
  BY DEF Plus, Percent
<1> HIDE DEF P, Q, R, D
<1>3. (a => D = <<>>) /\ (b => D = P) /\ (c => D = Q) /\ (~a /\ ~b /\ ~c => D = R)
  BY <1>1, <1>2
<1> QED
  BY <1>2, <1>3 DEF DecodeSteps, P, Q, R, D

(* Each step of the loop looks only at what is behind it. *)
LEMMA DecodedLocal ==
  ASSUME NEW X, NEW url \in Seq(X), NEW plus \in BOOLEAN, NEW i \in 1 .. Len(url) + 1,
         NEW f, NEW g, \A p \in i + 1 .. Len(url) + 1 : f[p] = g[p]
  PROVE  DecodedAt(f, url, plus, i) = DecodedAt(g, url, plus, i)
<1>1. i <= Len(url) => f[i + 1] = g[i + 1]
  OBVIOUS
<1>2. i + 2 <= Len(url) => f[i + 3] = g[i + 3]
  OBVIOUS
<1> QED
  BY <1>1, <1>2 DEF DecodedAt

(* The recursion of UrlDecode is well founded. *)
LEMMA DecodedExists ==
  ASSUME NEW X, NEW url \in Seq(X), NEW plus \in BOOLEAN
  PROVE  \E f : IsDecoded(f, url, plus, 1)
<1> DEFINE n == Len(url)
           T == {j \in Nat : j <= n + 1 => \E f : IsDecoded(f, url, plus, n + 2 - j)}
<1>0. n \in Nat
  OBVIOUS
<1>1. 0 \in T
  <2> DEFINE f == [i \in n + 2 .. n + 1 |-> <<>>]
  <2>1. n + 2 - 0 = n + 2 /\ n + 2 .. n + 1 = {}
    BY <1>0
  <2>2. IsDecoded(f, url, plus, n + 2)
    BY <2>1 DEF IsDecoded
  <2> QED
    BY <2>1, <2>2
<1>2. ASSUME NEW j \in Nat, j \in T PROVE j + 1 \in T
  <2> SUFFICES ASSUME j + 1 <= n + 1 PROVE \E g : IsDecoded(g, url, plus, n + 2 - (j + 1))
    OBVIOUS
  <2> DEFINE a == n + 2 - (j + 1)
  <2>1. /\ j <= n + 1 /\ n + 2 - j = a + 1 /\ a \in 1 .. n + 1
        /\ \A i \in a .. n + 1 : i = a \/ i \in a + 1 .. n + 1
        /\ \A i \in a + 1 .. n + 1 : i # a /\ i \in a .. n + 1
        /\ \A i \in a .. n + 1 : i \in 1 .. n + 1
    BY <1>0
  <2>2. PICK f : IsDecoded(f, url, plus, a + 1)
    BY <1>2, <2>1
  <2> HIDE DEF a, n
  <2> DEFINE g == [i \in a .. n + 1 |-> IF i = a THEN DecodedAt(f, url, plus, a) ELSE f[i]]
  <2>3. \A i \in a + 1 .. n + 1 : g[i] = f[i]
    BY <2>1
  <2>4. ASSUME NEW i \in a .. n + 1 PROVE g[i] = DecodedAt(g, url, plus, i)
    <3>1. \A p \in i + 1 .. n + 1 : p \in a + 1 .. n + 1
      BY <1>0, <2>1
    <3>2. \A p \in i + 1 .. Len(url) + 1 : f[p] = g[p]
      BY <2>3, <3>1 DEF n
    <3>3. DecodedAt(f, url, plus, i) = DecodedAt(g, url, plus, i)
      <4>1. i \in 1 .. Len(url) + 1
        <5>1. i \in 1 .. n + 1
          BY <2>1, Zenon
        <5> QED
          BY <5>1 DEF n
      <4> HIDE DEF g
      <4> QED
        BY <3>2, <4>1, DecodedLocal
    <3>4. CASE i = a
      <4>1. g[a] = DecodedAt(f, url, plus, a)
        BY <3>4
      <4> HIDE DEF g
      <4> QED
        BY <3>3, <3>4, <4>1, Zenon
    <3>5. CASE i \in a + 1 .. n + 1
      <4>1. f[i] = DecodedAt(f, url, plus, i)
        BY <2>2, <3>5, DecodedEquation DEF n
      <4> QED
        BY <2>3, <3>3, <3>5, <4>1
    <3> QED
      BY <2>1, <3>4, <3>5
  <2>5. g = [i \in a .. n + 1 |-> g[i]]
    OBVIOUS
  <2> HIDE DEF g
  <2>6. g = [i \in a .. n + 1 |-> DecodedAt(g, url, plus, i)]
    BY <2>4, <2>5
  <2>7. IsDecoded(g, url, plus, a)
    BY <2>6 DEF IsDecoded, n
  <2> QED
    BY <2>7 DEF a
<1> HIDE DEF T
<1>3. Nat \subseteq T
  BY <1>1, <1>2, SetInduction
<1>4. n + 1 \in T
  BY <1>0, <1>3
<1>5. n + 1 <= n + 1 /\ n + 2 - (n + 1) = 1
  BY <1>0
<1> QED
  BY <1>4, <1>5 DEF T

(* UrlDecode returns the first value of such a function. *)
LEMMA UrlDecodeIsDecoded ==
  ASSUME NEW X, NEW url \in Seq(X), NEW plus \in BOOLEAN
  PROVE  \E f : IsDecoded(f, url, plus, 1) /\ UrlDecode(url, plus) = f[1]
<1> DEFINE F == CHOOSE f : IsDecoded(f, url, plus, 1)
<1>1. UrlDecode(url, plus) = F[1]
  BY Zenon DEF UrlDecode, IsDecoded, DecodedAt
<1>2. IsDecoded(F, url, plus, 1)
  BY DecodedExists
<1> QED
  BY <1>1, <1>2
-----------------------------------------------------------------------------
(* A digit is read as what it was written for, ... *)
LEMMA DigitIsRead ==
  ASSUME NEW n \in 0 .. 15, NEW style
  PROVE  HEXTOI(Digit(n, style)) = n /\ Digit(n, style) \in Digits \cup Capitals \cup Smalls
<1> DEFINE c == Digit(n, style)
<1>1. c = IF style = "small" /\ n > 9 THEN 97 + n - 10 ELSE IF n < 10 THEN 48 + n ELSE 65 + n - 10
  BY DEF Digit, Hex
<1>2. CASE n < 10
  <2>1. c = 48 + n /\ c \in 48 .. 57
    BY <1>1, <1>2
  <2> HIDE DEF c
  <2>2. HEXTOI(c) = c - 48
    BY <2>1 DEF HEXTOI, Digits, Capitals, Smalls
  <2> QED
    BY <2>1, <2>2 DEF c, Digits
<1>3. CASE n >= 10 /\ style = "small"
  <2>1. c = 97 + n - 10 /\ c \in 97 .. 122 /\ c \notin 48 .. 57 /\ c \notin 65 .. 90
    BY <1>1, <1>3
  <2> HIDE DEF c
  <2>2. HEXTOI(c) = c - 97 + 10
    BY <2>1 DEF HEXTOI, Digits, Capitals, Smalls
  <2> QED
    BY <2>1, <2>2 DEF c, Smalls
<1>4. CASE n >= 10 /\ style # "small"
  <2>1. c = 65 + n - 10 /\ c \in 65 .. 90 /\ c \notin 48 .. 57 /\ c \notin 97 .. 122
    BY <1>1, <1>4
  <2> HIDE DEF c
  <2>2. HEXTOI(c) = c - 65 + 10
    BY <2>1 DEF HEXTOI, Digits, Capitals, Smalls
  <2> QED
    BY <2>1, <2>2 DEF c, Capitals
<1> QED
  BY <1>2, <1>3, <1>4

(* ... and two of them as the byte. *)
Halves(b) ==
  /\ b \div 16 \in 0 .. 15 /\ b % 16 \in 0 .. 15
  /\ ((b \div 16) * 16 + (b % 16)) % 256 = b

(* They are the halves of every byte. *)
LEMMA TwoDigits ==
  ASSUME NEW b \in Byte
  PROVE  Halves(b)
<1> DEFINE m == b \div 16
           n == b % 16
<1>1. b \in Nat /\ b < 256
  BY DEF Byte
<1>2. m \in Int /\ n \in 0 .. 15
  BY <1>1
<1>3. b = 16 * m + n
  BY <1>1
<1> HIDE DEF m, n
<1>4. m \in 0 .. 15
  BY <1>1, <1>2, <1>3
<1>5. m * 16 + n = b
  BY <1>2, <1>3
<1>6. b % 256 = b
  BY <1>1
<1>7. (m * 16 + n) % 256 = b
  BY <1>5, <1>6
<1> QED
  BY <1>2, <1>4, <1>7 DEF Halves, m, n

(* An escape is joined of the percent sign and its digits. *)
LEMMA ThreeTogether ==
  ASSUME NEW a, NEW h, NEW l PROVE <<a>> \o <<h, l>> = <<a, h, l>>
<1> DEFINE u == <<a>>
           v == <<h, l>>
           w == <<a, h, l>>
<1>1. Len(u) = 1 /\ Len(v) = 2 /\ u[1] = a /\ v[1] = h /\ v[2] = l
  OBVIOUS
<1>2. w = [i \in 1 .. 3 |-> IF i = 1 THEN a ELSE IF i = 2 THEN h ELSE l]
  OBVIOUS
<1>3. u \o v = [i \in 1 .. Len(u) + Len(v) |-> IF i <= Len(u) THEN u[i] ELSE v[i - Len(u)]]
  OBVIOUS
<1> HIDE DEF u, v, w
<1>4. u \o v = [i \in 1 .. 3 |-> IF i = 1 THEN a ELSE IF i = 2 THEN h ELSE l]
  BY <1>1, <1>3
<1> QED
  BY <1>2, <1>4 DEF u, v, w

(* How one byte is written in a target. *)
PartOf(b, style, plus) ==
  IF style = "own"
  THEN IF b \in Unreserved THEN <<b>> ELSE IF b = Space /\ plus THEN <<Plus>> ELSE Escape(b)
  ELSE CASE style = "plain" /\ b \in Unreserved -> <<b>>
         [] style = "plain" /\ b = Space /\ plus -> <<Plus>>
         [] OTHER -> <<Percent, Digit(b \div 16, style), Digit(b % 16, style)>>

(* The bytes that do not separate anything in a target. *)
Safe == Byte \ {Ampersand, Equals, Question}

(* What a part is read as: a byte that stands for itself, a space that is  *)
(* written as a plus, or an escape.                                        *)
Stands(p, b, plus) == p = <<b>> /\ b # Percent /\ ~(b = Plus /\ plus)
IsSpace(p, b, plus) == p = <<Plus>> /\ b = Space /\ plus
Escapes(p, b) ==
  p = <<Percent, p[2], p[3]>> /\ (HEXTOI(p[2]) * 16 + HEXTOI(p[3])) % 256 = b

PartReads(p, b, plus) ==
  p \in Seq(Safe) /\ (Stands(p, b, plus) \/ IsSpace(p, b, plus) \/ Escapes(p, b))

(* UrlEncode is right for bytes up to 127. *)
Writable(b, style) == b \in Byte /\ (style = "own" => b < 128)

(* Each part is read as the byte it was written for. *)
LEMMA PartIsRead ==
  ASSUME NEW b, NEW style, Writable(b, style), NEW plus \in BOOLEAN
  PROVE  PartReads(PartOf(b, style, plus), b, plus)
<1> DEFINE p == PartOf(b, style, plus)
           h == Digit(b \div 16, style)
           l == Digit(b % 16, style)
<1>0. b \in Byte /\ Halves(b)
  BY TwoDigits DEF Writable
<1>1. /\ HEXTOI(h) = b \div 16 /\ HEXTOI(l) = b % 16
      /\ h \in Digits \cup Capitals \cup Smalls /\ l \in Digits \cup Capitals \cup Smalls
  <2> DEFINE m == b \div 16
             n == b % 16
  <2>1. m \in 0 .. 15 /\ n \in 0 .. 15
    BY <1>0 DEF Halves
  <2> HIDE DEF m, n
  <2>2. HEXTOI(Digit(m, style)) = m /\ Digit(m, style) \in Digits \cup Capitals \cup Smalls
    BY <2>1, DigitIsRead
  <2>3. HEXTOI(Digit(n, style)) = n /\ Digit(n, style) \in Digits \cup Capitals \cup Smalls
    BY <2>1, DigitIsRead
  <2> QED
    BY <2>2, <2>3 DEF m, n
<1>2. /\ Digits \cup Capitals \cup Smalls \subseteq Safe /\ Unreserved \subseteq Safe
      /\ Percent \in Safe /\ Plus \in Safe
      /\ Percent \notin Unreserved /\ Plus \notin Unreserved /\ Space \notin Unreserved
  BY DEF Digits, Capitals, Smalls, Unreserved, Safe, Byte, Percent, Plus, Space, Ampersand,
         Equals, Question, Dot
<1>3. \/ b \in Unreserved /\ p = <<b>>
      \/ b = Space /\ plus /\ p = <<Plus>>
      \/ p = <<Percent, h, l>>
  <2>1. CASE style = "own"
    <3>1. \/ b \in Unreserved /\ p = <<b>>
          \/ b = Space /\ plus /\ p = <<Plus>>
          \/ p = Escape(b)
      BY <2>1 DEF PartOf
    <3>2. Escape(b) = <<Percent, h, l>>
      <4>1. b < 128 /\ style # "small"
        BY <2>1 DEF Writable
      <4>2. h = Hex(b \div 16) /\ l = Hex(b % 16)
        BY <4>1 DEF Digit
      <4> HIDE DEF h, l
      <4>3. Escape(b) = <<Percent>> \o <<h, l>>
        BY <4>1, <4>2, Zenon DEF Escape
      <4>4. <<Percent>> \o <<h, l>> = <<Percent, h, l>>
        BY ThreeTogether
      <4> QED
        BY <4>3, <4>4
    <3> QED
      BY <3>1, <3>2
  <2>2. CASE style # "own"
    <3> DEFINE A == style = "plain" /\ b \in Unreserved
               B == style = "plain" /\ b = Space /\ plus
               P == <<b>>
               Q == <<Plus>>
               R == <<Percent, h, l>>
    <3>1. p = CASE A -> P [] B -> Q [] OTHER -> R
      BY <2>2 DEF PartOf
    <3>2. ~(A /\ B)
      BY <1>2
    <3> HIDE DEF P, Q, R, p
    <3>3. (A => p = P) /\ (B => p = Q) /\ (~A /\ ~B => p = R)
      BY <3>1, <3>2
    <3> QED
      BY <3>3 DEF P, Q, R
  <2> QED
    BY <2>1, <2>2
<1> HIDE DEF p, h, l
<1>4. CASE b \in Unreserved /\ p = <<b>>
  <2>1. Stands(p, b, plus)
    BY <1>2, <1>4 DEF Stands
  <2>2. p \in Seq(Safe)
    BY <1>2, <1>4
  <2> QED
    BY <2>1, <2>2 DEF PartReads, p
<1>5. CASE b = Space /\ plus /\ p = <<Plus>>
  <2>1. p \in Seq(Safe)
    BY <1>2, <1>5
  <2> QED
    BY <1>5, <2>1 DEF PartReads, IsSpace, p
<1>6. CASE p = <<Percent, h, l>>
  <2>1. p[2] = h /\ p[3] = l
    BY <1>6
  <2>2. h \in Safe /\ l \in Safe
    BY <1>1, <1>2
  <2>3. p \in Seq(Safe)
    BY <1>2, <1>6, <2>2
  <2>4. ((b \div 16) * 16 + (b % 16)) % 256 = b
    BY <1>0 DEF Halves
  <2>5. Escapes(p, b)
    <3>1. p = <<Percent, p[2], p[3]>>
      BY <1>6, <2>1
    <3>2. HEXTOI(p[2]) = b \div 16 /\ HEXTOI(p[3]) = b % 16
      BY <1>1, <2>1
    <3>3. (HEXTOI(p[2]) * 16 + HEXTOI(p[3])) % 256 = b
      BY <2>4, <3>2
    <3> QED
      BY <3>1, <3>3, Zenon DEF Escapes
  <2> QED
    BY <2>3, <2>5 DEF PartReads, p
<1> QED
  BY <1>3, <1>4, <1>5, <1>6

(* A text whose bytes can be written in a style, and its parts. *)
CanWrite(bytes, style) == bytes \in Seq(Byte) /\ \A i \in DOMAIN bytes : Writable(bytes[i], style)

Parts(bytes, style, plus) == [i \in DOMAIN bytes |-> PartOf(bytes[i], style, plus)]

(* So are all the parts of a text. *)
LEMMA PartsRead ==
  ASSUME NEW bytes, NEW style, CanWrite(bytes, style), NEW plus \in BOOLEAN
  PROVE  /\ Parts(bytes, style, plus) \in Seq(Seq(Safe))
         /\ Len(Parts(bytes, style, plus)) = Len(bytes)
         /\ \A i \in 1 .. Len(bytes) : PartReads(Parts(bytes, style, plus)[i], bytes[i], plus)
<1> DEFINE P == Parts(bytes, style, plus)
           n == Len(bytes)
<1>1. n \in Nat /\ DOMAIN bytes = 1 .. n
  BY DEF CanWrite
<1>2. P = [i \in 1 .. n |-> PartOf(bytes[i], style, plus)]
  BY <1>1 DEF Parts
<1>3. \A i \in 1 .. n : PartReads(PartOf(bytes[i], style, plus), bytes[i], plus)
  BY <1>1, PartIsRead DEF CanWrite
<1> HIDE DEF P, n
<1>4. \A i \in 1 .. n : P[i] = PartOf(bytes[i], style, plus)
  BY <1>2
<1>5. \A i \in 1 .. n : PartReads(P[i], bytes[i], plus)
  BY <1>3, <1>4
<1>6. \A i \in 1 .. n : P[i] \in Seq(Safe)
  BY <1>5 DEF PartReads
<1>7. P \in Seq(Seq(Safe)) /\ Len(P) = n
  <2>1. P \in [1 .. n -> Seq(Safe)]
    <3>1. P = [i \in 1 .. n |-> P[i]]
      BY <1>2, <1>4
    <3> QED
      BY <1>6, <3>1
  <2> QED
    BY <1>1, <2>1
<1> QED
  BY <1>5, <1>7 DEF P, n

(* What is written are the parts, one behind the other. *)
LEMMA WrittenIsJoined ==
  ASSUME NEW bytes, NEW style, CanWrite(bytes, style), NEW plus \in BOOLEAN
  PROVE  Written(bytes, style, plus) = Joined(Parts(bytes, style, plus), Len(bytes))
<1> DEFINE P == Parts(bytes, style, plus)
           n == Len(bytes)
<1>1. n \in Nat /\ DOMAIN bytes = 1 .. n
  BY DEF CanWrite
<1>2. P = [i \in DOMAIN bytes |-> PartOf(bytes[i], style, plus)]
  BY DEF Parts
<1>3. UpTo(P, n) = P
  <2>1. P = [i \in 1 .. n |-> PartOf(bytes[i], style, plus)]
    BY <1>1, <1>2
  <2> HIDE DEF P, n
  <2>2. \A i \in 1 .. n : P[i] = PartOf(bytes[i], style, plus)
    BY <2>1
  <2>3. UpTo(P, n) = [i \in 1 .. n |-> P[i]]
    BY DEF UpTo
  <2> QED
    BY <2>1, <2>2, <2>3
<1>4. Written(bytes, style, plus) = FlattenSeq(P)
  <2>1. CASE style = "own"
    <3>1. \A i \in DOMAIN bytes :
            PartOf(bytes[i], style, plus) =
              IF bytes[i] \in Unreserved THEN <<bytes[i]>>
              ELSE IF bytes[i] = Space /\ plus THEN <<Plus>> ELSE Escape(bytes[i])
      BY <2>1, Zenon DEF PartOf
    <3>2. P = [i \in DOMAIN bytes |->
                 IF bytes[i] \in Unreserved THEN <<bytes[i]>>
                 ELSE IF bytes[i] = Space /\ plus THEN <<Plus>> ELSE Escape(bytes[i])]
      BY <1>2, <3>1, Zenon
    <3> HIDE DEF P
    <3> QED
      BY <2>1, <3>2, Zenon DEF Written, UrlEncode
  <2>2. CASE style # "own"
    <3> DEFINE Q == [i \in DOMAIN bytes |->
                       CASE style = "plain" /\ bytes[i] \in Unreserved -> <<bytes[i]>>
                         [] style = "plain" /\ bytes[i] = Space /\ plus -> <<Plus>>
                         [] OTHER -> <<Percent, Digit(bytes[i] \div 16, style),
                                       Digit(bytes[i] % 16, style)>>]
    <3>1. Written(bytes, style, plus) = FlattenSeq(Q)
      BY <2>2, Zenon DEF Written
    <3>2. \A i \in DOMAIN bytes : Q[i] = PartOf(bytes[i], style, plus)
      BY <2>2 DEF PartOf
    <3>3. Q = [i \in DOMAIN bytes |-> Q[i]]
      OBVIOUS
    <3> HIDE DEF Q
    <3>4. Q = P
      BY <1>2, <3>2, <3>3, Zenon
    <3> QED
      BY <3>1, <3>4
  <2> QED
    BY <2>1, <2>2
<1> QED
  BY <1>3, <1>4 DEF Joined

(* What is written separates nothing in a target. *)
LEMMA WrittenIsSafe ==
  ASSUME NEW bytes, NEW style, CanWrite(bytes, style), NEW plus \in BOOLEAN
  PROVE  Written(bytes, style, plus) \in Seq(Safe)
<1> DEFINE P == Parts(bytes, style, plus)
           n == Len(bytes)
<1>1. P \in Seq(Seq(Safe)) /\ Len(P) = n
  BY PartsRead
<1>2. n \in Nat
  BY DEF CanWrite
<1>3. n \in 0 .. Len(P)
  BY <1>1, <1>2
<1> HIDE DEF P, n
<1>4. Joined(P, n) \in Seq(Safe)
  BY <1>1, <1>3, JoinedType
<1> QED
  BY <1>4, WrittenIsJoined DEF P, n

(* A part is decoded to its byte, wherever it is in a text. *)
PartIn(url, o, p) ==
  /\ o \in Nat /\ o + Len(p) <= Len(url)
  /\ \A i \in 1 .. Len(p) : url[o + i] = p[i]

(* The loop of UrlDecode takes a part from the text and goes on behind it. *)
LEMMA PartIsDecoded ==
  ASSUME NEW url \in Seq(Safe), NEW plus \in BOOLEAN, NEW f, IsDecoded(f, url, plus, 1),
         NEW p, NEW b, PartReads(p, b, plus), NEW o, PartIn(url, o, p)
  PROVE  f[o + 1] = <<b>> \o f[o + Len(p) + 1]
<1> DEFINE k == o + 1
           n == Len(url)
           D == DecodedAt(f, url, plus, k)
<1>1. n \in Nat /\ o \in Nat /\ k \in Nat
  BY DEF PartIn
<1>2. p \in Seq(Safe)
  BY DEF PartReads
<1>3. CASE Stands(p, b, plus) \/ IsSpace(p, b, plus)
  <2>1. Len(p) = 1 /\ p[1] = (IF IsSpace(p, b, plus) THEN Plus ELSE b)
    <3>1. CASE IsSpace(p, b, plus)
      BY <3>1 DEF IsSpace
    <3>2. CASE ~IsSpace(p, b, plus)
      BY <1>3, <3>2 DEF Stands
    <3> QED
      BY <3>1, <3>2
  <2>2. k \in 1 .. n /\ 1 \in 1 .. Len(p)
    BY <1>1, <2>1 DEF PartIn
  <2>3. url[k] = p[1]
    BY <2>2 DEF PartIn
  <2>4. f[k] = D
    BY <1>1, <2>2, DecodedEquation
  <2>5. /\ k <= n /\ url[k] = Plus /\ plus => D = <<Space>> \o f[k + 1]
        /\ k <= n /\ ~(url[k] = Plus /\ plus) /\ ~(k + 2 <= n /\ url[k] = Percent) =>
             D = <<url[k]>> \o f[k + 1]
    <3>1. k \in 1 .. Len(url) + 1
      BY <1>1, <2>2
    <3> HIDE DEF k
    <3>2. DecodeSteps(f, url, plus, k)
      BY <3>1, DecodedCases
    <3> QED
      BY <3>2 DEF DecodeSteps, n, D
  <2>6. D = <<b>> \o f[k + 1]
    <3>1. CASE IsSpace(p, b, plus)
      <4>1. url[k] = Plus /\ plus /\ b = Space /\ k <= n
        BY <2>1, <2>2, <2>3, <3>1 DEF IsSpace
      <4> HIDE DEF D, k
      <4> QED
        BY <2>5, <4>1
    <3>2. CASE ~IsSpace(p, b, plus)
      <4>1. url[k] = b /\ b # Percent /\ ~(b = Plus /\ plus) /\ k <= n
        BY <1>3, <2>1, <2>2, <2>3, <3>2 DEF Stands
      <4> HIDE DEF D, k
      <4> QED
        BY <2>5, <4>1
    <3> QED
      BY <3>1, <3>2
  <2>7. k + 1 = o + Len(p) + 1
    BY <1>1, <2>1
  <2> HIDE DEF D, n
  <2> QED
    BY <2>4, <2>6, <2>7
<1>4. CASE Escapes(p, b)
  <2> DEFINE x == p[2]
             y == p[3]
  <2>1. p = <<Percent, x, y>> /\ (HEXTOI(x) * 16 + HEXTOI(y)) % 256 = b
    BY <1>4 DEF Escapes
  <2>2. Len(p) = 3 /\ p[1] = Percent
    <3> HIDE DEF x, y
    <3> QED
      BY <2>1
  <2>3. k \in 1 .. n /\ k + 2 <= n
    BY <1>1, <2>2 DEF PartIn
  <2>4. url[k] = Percent /\ url[k + 1] = x /\ url[k + 2] = y
    <3>1. url[o + 1] = p[1] /\ url[o + 2] = p[2] /\ url[o + 3] = p[3]
      BY <2>2 DEF PartIn
    <3>2. k + 1 = o + 2 /\ k + 2 = o + 3
      BY <1>1
    <3> QED
      BY <2>2, <3>1, <3>2
  <2>5. f[k] = D
    BY <1>1, <2>3, DecodedEquation
  <2>6. k + 2 <= n /\ url[k] = Percent =>
          D = <<(HEXTOI(url[k + 1]) * 16 + HEXTOI(url[k + 2])) % 256>> \o f[k + 3]
    <3>1. k \in 1 .. Len(url) + 1
      BY <1>1, <2>3
    <3> HIDE DEF k
    <3>2. DecodeSteps(f, url, plus, k)
      BY <3>1, DecodedCases
    <3> QED
      BY <3>2 DEF DecodeSteps, n, D
  <2>7. k + 3 = o + Len(p) + 1
    BY <1>1, <2>2
  <2> HIDE DEF D, n, k, x, y
  <2>8. (HEXTOI(url[k + 1]) * 16 + HEXTOI(url[k + 2])) % 256 = b
    BY <2>1, <2>4
  <2>9. D = <<b>> \o f[k + 3]
    BY <2>3, <2>4, <2>6, <2>8, Zenon
  <2>10. f[k] = <<b>> \o f[o + Len(p) + 1]
    BY <2>5, <2>7, <2>9, Zenon
  <2> QED
    BY <2>10 DEF k
<1> QED
  BY <1>3, <1>4 DEF PartReads

(* What is written in any style is decoded to what it was written for,     *)
(* the escapes at its end as well.                                         *)
THEOREM WrittenIsDecoded ==
  ASSUME NEW bytes, NEW style, CanWrite(bytes, style), NEW plus \in BOOLEAN
  PROVE  UrlDecode(Written(bytes, style, plus), plus) = bytes
<1> DEFINE P == Parts(bytes, style, plus)
           n == Len(bytes)
           w == Written(bytes, style, plus)
           Place(k) == Len(Joined(P, k))
<1>1. n \in Nat /\ bytes \in Seq(Byte)
  BY DEF CanWrite
<1>2. /\ P \in Seq(Seq(Safe)) /\ Len(P) = n
      /\ \A i \in 1 .. n : PartReads(P[i], bytes[i], plus)
  BY PartsRead
<1>3. w = Joined(P, n) /\ w \in Seq(Safe)
  BY WrittenIsJoined, WrittenIsSafe
<1>4. PICK f : IsDecoded(f, w, plus, 1) /\ UrlDecode(w, plus) = f[1]
  BY <1>3, UrlDecodeIsDecoded
<1> HIDE DEF P, w
<1> DEFINE T == {j \in Nat : \A k \in 0 .. n :
                   k + j >= n => f[Place(k) + 1] = SubSeq(bytes, k + 1, n)}
<1>5. f[Place(n) + 1] = SubSeq(bytes, n + 1, n)
  <2>1. Place(n) = Len(w) /\ Len(w) \in Nat
    BY <1>3
  <2> DEFINE m == Len(w) + 1
  <2>2. m \in 1 .. Len(w) + 1 /\ m > Len(w)
    BY <2>1
  <2> HIDE DEF m
  <2>3. f[m] = DecodedAt(f, w, plus, m)
    BY <1>4, <2>2, DecodedEquation
  <2>4. f[m] = <<>>
    <3>1. DecodeSteps(f, w, plus, m)
      BY <1>3, <2>2, DecodedCases
    <3> QED
      BY <2>2, <2>3, <3>1 DEF DecodeSteps
  <2>5. SubSeq(bytes, n + 1, n) = <<>>
    <3>1. n + 1 \in Int /\ n \in Int /\ n < n + 1
      BY <1>1
    <3> QED
      BY <3>1, SubSeqEmpty
  <2> QED
    BY <2>1, <2>4, <2>5 DEF m
<1>6. 0 \in T
  <2> SUFFICES ASSUME NEW k \in 0 .. n, k + 0 >= n
               PROVE f[Place(k) + 1] = SubSeq(bytes, k + 1, n)
    OBVIOUS
  <2>1. k = n
    BY <1>1
  <2> QED
    BY <1>5, <2>1
<1>7. ASSUME NEW j \in Nat, j \in T PROVE j + 1 \in T
  <2> SUFFICES ASSUME NEW k \in 0 .. n, k + (j + 1) >= n
               PROVE f[Place(k) + 1] = SubSeq(bytes, k + 1, n)
    OBVIOUS
  <2>1. CASE k = n
    BY <1>5, <2>1
  <2>2. CASE k # n
    <3> DEFINE m == k + 1
               p == P[m]
               b == bytes[m]
               o == Place(k)
    <3>1. k \in 0 .. n - 1 /\ m \in 0 .. n /\ m + j >= n /\ m \in 1 .. n /\ n \in 0 .. Len(P)
      BY <1>1, <1>2, <2>2
    <3>2. f[Place(m) + 1] = SubSeq(bytes, m + 1, n)
      BY <1>7, <3>1
    <3>3. PartAt(P, n, k, Safe)
      BY <1>2, <3>1, JoinedParts
    <3>4. /\ o \in Nat /\ p \in Seq(Safe) /\ Place(m) = o + Len(p) /\ Place(m) <= Len(w)
          /\ \A i \in 1 .. Len(p) : w[o + i] = p[i]
      BY <1>3, <3>3, Zenon DEF PartAt
    <3>5. PartReads(p, b, plus)
      BY <1>2, <3>1
    <3>6. PartIn(w, o, p)
      <4> HIDE DEF o, p
      <4>1. o + Len(p) <= Len(w)
        BY <3>4
      <4> QED
        BY <3>4, <4>1 DEF PartIn
    <3> HIDE DEF o, p, b
    <3>7. f[o + 1] = <<b>> \o f[o + Len(p) + 1]
      BY <1>3, <1>4, <3>5, <3>6, PartIsDecoded
    <3>8. f[o + 1] = <<b>> \o SubSeq(bytes, k + 2, n)
      <4>1. m + 1 = k + 2
        BY <3>1
      <4> QED
        BY <3>2, <3>4, <3>7, <4>1
    <3>9. <<bytes[k + 1]>> \o SubSeq(bytes, k + 2, n) = SubSeq(bytes, k + 1, n)
      <4>1. m \in 1 .. Len(bytes) /\ n \in m .. Len(bytes) /\ m + 1 = k + 2
        BY <1>1, <3>1
      <4> HIDE DEF m, n
      <4>2. SubSeq(bytes, m, n) = <<bytes[m]>> \o SubSeq(bytes, m + 1, n)
        BY <1>1, <4>1, SubSeqRecursiveFirst
      <4> QED
        BY <4>1, <4>2 DEF m
    <3> QED
      BY <3>8, <3>9 DEF o, b
  <2> QED
    BY <2>1, <2>2
<1> HIDE DEF T
<1>8. n \in T
  BY <1>1, <1>6, <1>7, SetInduction
<1>9. f[Place(0) + 1] = SubSeq(bytes, 0 + 1, n)
  BY <1>1, <1>8 DEF T
<1>10. Place(0) = 0
  BY JoinedEmpty
<1>11. SubSeq(bytes, 1, n) = bytes
  BY <1>1, SubSeqFull
<1> QED
  BY <1>4, <1>9, <1>10, <1>11 DEF w
-----------------------------------------------------------------------------
(* A text that is u, the separator c, and v. *)
IsCut(t, u, c, v) ==
  /\ Len(t) = Len(u) + 1 + Len(v)
  /\ t[Len(u) + 1] = c
  /\ \A i \in 1 .. Len(u) : t[i] = u[i]
  /\ \A i \in 1 .. Len(v) : t[Len(u) + 1 + i] = v[i]

(* Such a text is made by joining them. *)
LEMMA CutIs ==
  ASSUME NEW X, NEW u \in Seq(X), NEW c \in X, NEW v \in Seq(X)
  PROVE  u \o <<c>> \o v \in Seq(X) /\ IsCut(u \o <<c>> \o v, u, c, v)
<1> DEFINE s == <<c>>
           w == u \o s
           t == w \o v
<1>1. s \in Seq(X) /\ Len(s) = 1 /\ s[1] = c
  OBVIOUS
<1>2. Len(u) \in Nat /\ Len(v) \in Nat
  OBVIOUS
<1> HIDE DEF s
<1>3. /\ w \in Seq(X) /\ Len(w) = Len(u) + Len(s)
      /\ \A i \in 1 .. Len(u) + Len(s) : w[i] = IF i <= Len(u) THEN u[i] ELSE s[i - Len(u)]
  BY <1>1, ConcatProperties
<1> HIDE DEF w
<1>4. /\ t \in Seq(X) /\ Len(t) = Len(w) + Len(v)
      /\ \A i \in 1 .. Len(w) + Len(v) : t[i] = IF i <= Len(w) THEN w[i] ELSE v[i - Len(w)]
  <2>1. w \in Seq(X)
    BY <1>3
  <2> QED
    BY <2>1, ConcatProperties
<1> HIDE DEF t
<1>5. Len(w) = Len(u) + 1 /\ Len(t) = Len(u) + 1 + Len(v)
  BY <1>1, <1>3, <1>4
<1>6. \A i \in 1 .. Len(u) : t[i] = u[i]
  BY <1>1, <1>2, <1>3, <1>4, <1>5
<1>7. t[Len(u) + 1] = c
  <2>1. w[Len(u) + 1] = s[(Len(u) + 1) - Len(u)] /\ (Len(u) + 1) - Len(u) = 1
    BY <1>1, <1>2, <1>3
  <2> QED
    BY <1>1, <1>2, <1>4, <1>5, <2>1
<1>8. ASSUME NEW i \in 1 .. Len(v) PROVE t[Len(u) + 1 + i] = v[i]
  <2>1. (Len(u) + 1 + i) - Len(w) = i /\ ~(Len(u) + 1 + i <= Len(w))
        /\ Len(u) + 1 + i \in 1 .. Len(w) + Len(v)
    BY <1>2, <1>5
  <2> QED
    BY <1>4, <2>1
<1>9. IsCut(t, u, c, v)
  BY <1>5, <1>6, <1>7, <1>8 DEF IsCut
<1> QED
  BY <1>4, <1>9 DEF t, w, s

(* If c is not in u, Find finds the separator, and the pieces before and   *)
(* behind it are u and v.                                                  *)
Pieces(t, u, c, v) ==
  Find(t, c, 1) = Len(u) + 1 /\ SubSeq(t, 1, Len(u)) = u /\ Suffix(t, Len(u) + 2) = v

(* Find stops at this separator and not before it. *)
LEMMA CutIsFound ==
  ASSUME NEW X, NEW t \in Seq(X), NEW c, NEW u \in Seq(X \ {c}), NEW v \in Seq(X),
         IsCut(t, u, c, v)
  PROVE  Pieces(t, u, c, v)
<1> DEFINE m == Len(u)
           n == Len(v)
           p == Find(t, c, 1)
<1>1. /\ m \in Nat /\ n \in Nat /\ Len(t) = m + 1 + n
      /\ \A i \in 1 .. m : u[i] \in X /\ u[i] # c
  BY DEF IsCut
<1>2. /\ t[m + 1] = c
      /\ \A i \in 1 .. m : t[i] = u[i]
      /\ \A i \in 1 .. n : t[m + 1 + i] = v[i]
  BY DEF IsCut
<1>3. p = m + 1
  <2>1. IsFirst(t, c, 1, p)
    BY <1>1, FindIsFirst
  <2> HIDE DEF p, m
  <2>2. m + 1 \in 1 .. Len(t) /\ \A i \in 1 .. m : i \in 1 .. Len(t) /\ t[i] # c
    BY <1>1, <1>2
  <2>3. p \in 1 .. Len(t) /\ t[p] = c /\ \A i \in 1 .. p - 1 : t[i] # c
    BY <1>2, <2>1, <2>2 DEF IsFirst
  <2>4. ~(p <= m)
    BY <1>1, <2>2, <2>3
  <2>5. ~(p > m + 1)
    BY <1>1, <1>2, <2>3
  <2> QED
    BY <1>1, <2>3, <2>4, <2>5
<1>4. SubSeq(t, 1, m) = u
  <2> DEFINE a == SubSeq(t, 1, m)
  <2>1. \A i \in 1 .. m : t[i] \in X
    BY <1>1, <1>2
  <2>2. /\ a \in Seq(X) /\ Len(a) = IF 1 <= m THEN m - 1 + 1 ELSE 0
        /\ \A i \in 1 .. m - 1 + 1 : a[i] = t[1 + i - 1]
    BY <1>1, <2>1, SubSeqProperties
  <2> HIDE DEF a, m
  <2>3. Len(a) = m /\ \A i \in 1 .. m : a[i] = u[i]
    <3>1. ASSUME NEW i \in 1 .. m PROVE a[i] = u[i]
      <4>1. i \in 1 .. m - 1 + 1 /\ 1 + i - 1 = i
        BY <1>1
      <4> QED
        BY <1>2, <2>2, <4>1
    <3> QED
      BY <1>1, <2>2, <3>1
  <2>4. u \in Seq(X) /\ Len(u) = m
    BY DEF m
  <2> QED
    BY <2>2, <2>3, <2>4, SeqEqual DEF a
<1>5. SubSeq(t, m + 2, Len(t)) = v
  <2> DEFINE a == SubSeq(t, m + 2, Len(t))
             q == m + 2
             r == Len(t)
  <2>1. q \in Int /\ r \in Int /\ q = m + 2 /\ r = m + 1 + n
    BY <1>1
  <2>2. \A i \in q .. r : t[i] \in X
    BY <1>1
  <2> HIDE DEF m, n, q, r
  <2>3. /\ SubSeq(t, q, r) \in Seq(X) /\ Len(SubSeq(t, q, r)) = IF q <= r THEN r - q + 1 ELSE 0
        /\ \A i \in 1 .. r - q + 1 : SubSeq(t, q, r)[i] = t[q + i - 1]
    BY <2>1, <2>2, SubSeqProperties
  <2>4. a = SubSeq(t, q, r)
    BY DEF q, r
  <2> HIDE DEF a
  <2>5. Len(a) = n
    BY <1>1, <2>1, <2>3, <2>4
  <2>6. ASSUME NEW i \in 1 .. n PROVE a[i] = v[i]
    <3>1. i \in 1 .. r - q + 1 /\ q + i - 1 = m + 1 + i
      BY <1>1, <2>1
    <3> QED
      BY <1>2, <2>3, <2>4, <3>1
  <2>7. v \in Seq(X) /\ Len(v) = n
    BY DEF n
  <2>8. a = v
    BY <2>3, <2>4, <2>5, <2>6, <2>7, SeqEqual
  <2> QED
    BY <2>8 DEF a
<1> QED
  BY <1>3, <1>4, <1>5 DEF Pieces, Suffix
-----------------------------------------------------------------------------
(* Split of two fields that are not empty. *)
LEMMA SplitInTwo ==
  ASSUME NEW X, NEW t \in Seq(X), NEW c, NEW u \in Seq(X \ {c}), NEW v \in Seq(X \ {c}),
         u # <<>>, v # <<>>, IsCut(t, u, c, v)
  PROVE  Split(t, c) = <<u>> \o <<v>>
<1> DEFINE m == Len(u) + 2
<1>1. /\ Len(u) \in Nat \ {0} /\ Len(v) \in Nat \ {0} /\ m \in Nat
      /\ Len(t) = Len(u) + 1 + Len(v) /\ Len(t) \in Nat
      /\ u \in Seq(X) /\ v \in Seq(X) /\ \A i \in 1 .. Len(v) : v[i] # c
      /\ \A i \in 1 .. Len(v) : t[Len(u) + 1 + i] = v[i]
  BY DEF IsCut
<1>2. Pieces(t, u, c, v)
  BY <1>1, CutIsFound
<1>3. PICK f : IsFields(f, t, c, 1) /\ Split(t, c) = f[1]
  BY SplitIsFields
<1>4. f[1] = <<u>> \o f[m]
  <2> DEFINE pos == Find(t, c, 1)
  <2>1. pos = Len(u) + 1 /\ SubSeq(t, 1, Len(u)) = u
    BY <1>2 DEF Pieces
  <2>2. f[1] = FieldsAt(f, t, c, 1)
    <3>1. 1 \in 1 .. Len(t) + 1
      BY <1>1
    <3> QED
      BY <1>3, <3>1, FieldsEquation
  <2>3. FieldsAt(f, t, c, 1) =
          IF 1 > Len(t) THEN <<>>
          ELSE IF pos = 0 THEN <<Suffix(t, 1)>>
          ELSE (IF pos = 1 THEN <<>> ELSE <<SubSeq(t, 1, pos - 1)>>) \o f[pos + 1]
    BY Zenon DEF FieldsAt
  <2> HIDE DEF pos
  <2>4. ~(1 > Len(t)) /\ pos # 0 /\ pos # 1 /\ pos - 1 = Len(u) /\ pos + 1 = m
    BY <1>1, <2>1
  <2> HIDE DEF m
  <2>5. FieldsAt(f, t, c, 1) = <<SubSeq(t, 1, pos - 1)>> \o f[pos + 1]
    BY <2>3, <2>4, Zenon
  <2> QED
    BY <2>1, <2>2, <2>4, <2>5, Zenon
<1>5. f[m] = <<v>>
  <2> DEFINE pos == Find(t, c, m)
  <2>1. Suffix(t, m) = v
    BY <1>2 DEF Pieces
  <2>2. m \in 1 .. Len(t) + 1 /\ ~(m > Len(t))
    BY <1>1
  <2>3. pos = 0
    <3>1. IsFirst(t, c, m, pos)
      BY <2>2, FindIsFirst
    <3> HIDE DEF pos
    <3>2. ASSUME NEW i \in m .. Len(t) PROVE t[i] # c
      <4> DEFINE j == i - (Len(u) + 1)
      <4>1. j \in 1 .. Len(v) /\ Len(u) + 1 + j = i
        BY <1>1
      <4> HIDE DEF j
      <4> QED
        BY <1>1, <4>1
    <3> QED
      BY <3>1, <3>2 DEF IsFirst
  <2>4. f[m] = FieldsAt(f, t, c, m)
    <3> HIDE DEF m
    <3> QED
      BY <1>3, <2>2, FieldsEquation
  <2> HIDE DEF m
  <2>5. FieldsAt(f, t, c, m) =
          IF m > Len(t) THEN <<>>
          ELSE IF pos = 0 THEN <<Suffix(t, m)>>
          ELSE (IF pos = m THEN <<>> ELSE <<SubSeq(t, m, pos - 1)>>) \o f[pos + 1]
    BY Zenon DEF FieldsAt
  <2> HIDE DEF pos
  <2>6. FieldsAt(f, t, c, m) = <<Suffix(t, m)>>
    BY <2>2, <2>3, <2>5, Zenon
  <2> QED
    BY <2>1, <2>4, <2>6, Zenon
<1> HIDE DEF m
<1> QED
  BY <1>3, <1>4, <1>5, Zenon
-----------------------------------------------------------------------------
(* What LET iter, in the fold of AddField over two fields, is to be. *)
IsFold(f, base, d, n) ==
  f = [S \in SUBSET (1 .. n) |->
         IF S = {} THEN base ELSE AddField(f[S \ {Max(S)}], d[Max(S)])]

(* Such a function for two fields. *)
LEMMA FoldOfTwo ==
  ASSUME NEW base, NEW a, NEW b, NEW d, d[1] = a, d[2] = b,
         NEW f, IsFold(f, base, d, 2)
  PROVE  f[1 .. 2] = AddField(AddField(base, a), b)
<1> DEFINE g == [S \in SUBSET (1 .. 2) |->
                   IF S = {} THEN base ELSE AddField(f[S \ {Max(S)}], d[Max(S)])]
<1>1. f = g
  BY DEF IsFold
<1>2. /\ g[1 .. 2] = AddField(f[(1 .. 2) \ {Max(1 .. 2)}], d[Max(1 .. 2)])
      /\ g[{1}] = AddField(f[{1} \ {Max({1})}], d[Max({1})])
      /\ g[{}] = base
  <2>1. 1 .. 2 \in SUBSET (1 .. 2) /\ {1} \in SUBSET (1 .. 2) /\ {} \in SUBSET (1 .. 2)
        /\ 1 .. 2 # {} /\ {1} # {}
    OBVIOUS
  <2> QED
    BY <2>1
<1>3. Max(1 .. 2) = 2 /\ (1 .. 2) \ {2} = {1}
  BY MaxIs
<1>4. Max({1}) = 1 /\ {1} \ {1} = {}
  BY MaxIs
<1> HIDE DEF g
<1>5. f[1 .. 2] = AddField(f[{1}], b)
  BY <1>1, <1>2, <1>3, Zenon
<1>6. f[{1}] = AddField(f[{}], a)
  BY <1>1, <1>2, <1>4, Zenon
<1> QED
  BY <1>1, <1>2, <1>5, <1>6, Zenon

(* There is one. *)
LEMMA FoldExists ==
  ASSUME NEW base, NEW d PROVE \E f : IsFold(f, base, d, 2)
<1> DEFINE x == AddField(base, d[1])
           y == AddField(base, d[2])
           z == AddField(x, d[2])
           f == [S \in SUBSET (1 .. 2) |->
                   IF S = {} THEN base ELSE IF 2 \notin S THEN x ELSE IF 1 \notin S THEN y ELSE z]
<1>1. f[{}] = base /\ f[{1}] = x
  <2>1. {} \in SUBSET (1 .. 2) /\ {1} \in SUBSET (1 .. 2) /\ 2 \notin {1} /\ {1} # {}
    OBVIOUS
  <2> HIDE DEF x, y, z
  <2> QED
    BY <2>1
<1>2. ASSUME NEW S \in SUBSET (1 .. 2), S # {}
      PROVE  f[S] = AddField(f[S \ {Max(S)}], d[Max(S)])
  <2>0. f[S] = IF 2 \notin S THEN x ELSE IF 1 \notin S THEN y ELSE z
    <3> HIDE DEF x, y, z
    <3> QED
      BY <1>2
  <2> HIDE DEF f
  <2>1. CASE 2 \notin S
    <3>1. S = {1} /\ S \ {1} = {}
      <4>1. \A i \in S : i = 1
        BY <1>2, <2>1
      <4> QED
        BY <1>2, <4>1
    <3>2. Max(S) = 1
      BY <3>1, MaxIs
    <3>3. f[S] = x
      BY <2>0, <2>1, Zenon
    <3> QED
      BY <1>1, <3>1, <3>2, <3>3, Zenon
  <2>2. CASE 2 \in S /\ 1 \notin S
    <3>1. S \ {2} = {} /\ 2 \in Nat
      BY <2>2
    <3>2. Max(S) = 2
      BY <2>2, <3>1, MaxIs
    <3>3. f[S] = y
      BY <2>0, <2>2, Zenon
    <3> QED
      BY <1>1, <3>1, <3>2, <3>3, Zenon
  <2>3. CASE 2 \in S /\ 1 \in S
    <3>1. S \ {2} = {1} /\ 2 \in Nat
      <4>1. \A i \in S : i = 1 \/ i = 2
        BY <1>2
      <4>2. 1 # 2 /\ 2 \in Nat
        OBVIOUS
      <4> QED
        BY <2>3, <4>1, <4>2, Zenon
    <3>2. Max(S) = 2
      BY <2>3, <3>1, MaxIs
    <3>3. f[S] = z
      BY <2>0, <2>3, Zenon
    <3> QED
      BY <1>1, <3>1, <3>2, <3>3, Zenon
  <2> QED
    BY <2>1, <2>2, <2>3
<1>3. f = [S \in SUBSET (1 .. 2) |-> f[S]]
  <2> HIDE DEF x, y, z
  <2> QED
    OBVIOUS
<1> HIDE DEF f
<1>4. ASSUME NEW S \in SUBSET (1 .. 2)
      PROVE  f[S] = IF S = {} THEN base ELSE AddField(f[S \ {Max(S)}], d[Max(S)])
  BY <1>1, <1>2, Zenon
<1>5. IsFold(f, base, d, 2)
  BY <1>3, <1>4, Zenon DEF IsFold
<1> QED
  BY <1>5

(* The fold adds one field after the other. *)
AddsTwo(base, a, b) ==
  FoldLeft(AddField, base, <<a>> \o <<b>>) = AddField(AddField(base, a), b)

(* For any two fields. *)
LEMMA TwoFieldsAdded ==
  ASSUME NEW base, NEW a, NEW b PROVE AddsTwo(base, a, b)
<1> DEFINE d == <<a>> \o <<b>>
<1>1. d[1] = a /\ d[2] = b /\ DOMAIN d = 1 .. 2
  OBVIOUS
<1> HIDE DEF d
<1> DEFINE F == CHOOSE f : IsFold(f, base, d, 2)
<1>2. FoldLeft(AddField, base, d) = F[1 .. 2]
  BY <1>1, Zenon DEF FoldLeft, MapThenFoldSet, IsFold
<1>3. IsFold(F, base, d, 2)
  BY FoldExists
<1> HIDE DEF F
<1>4. F[1 .. 2] = AddField(AddField(base, a), b)
  BY <1>1, <1>3, FoldOfTwo
<1> QED
  BY <1>2, <1>4, Zenon DEF AddsTwo, d
-----------------------------------------------------------------------------
(* What Written makes of a text, as the key or the value of a parameter. *)
Parameter(t, bytes) ==
  /\ t \in Seq(Byte)
  /\ t \in Seq(Byte \ {Equals}) /\ t \in Seq(Byte \ {Ampersand})
  /\ UrlDecode(t, TRUE) = bytes

(* What is written has no separator in it and is decoded again. *)
LEMMA WrittenIsParameter ==
  ASSUME NEW bytes, NEW style, CanWrite(bytes, style)
  PROVE  Parameter(Written(bytes, style, TRUE), bytes)
<1> DEFINE w == Written(bytes, style, TRUE)
<1>1. w \in Seq(Safe)
  BY WrittenIsSafe
<1>2. UrlDecode(w, TRUE) = bytes
  BY WrittenIsDecoded
<1> HIDE DEF w
<1>3. Safe \subseteq Byte /\ Safe \subseteq Byte \ {Equals} /\ Safe \subseteq Byte \ {Ampersand}
  BY DEF Safe
<1>4. w \in Seq(Byte) /\ w \in Seq(Byte \ {Equals}) /\ w \in Seq(Byte \ {Ampersand})
  BY <1>1, <1>3, SeqMonotonic
<1> QED
  BY <1>2, <1>4 DEF Parameter, w

(* A field with a key and a value, and that it is added. *)
FieldFor(field, key, val) ==
  /\ field \in Seq(Byte) /\ field \in Seq(Byte \ {Ampersand}) /\ field # <<>>
  /\ \A r : r.resp # 400 => AddField(r, field) = [r EXCEPT !.params = SetParam(@, key, val)]

(* A key and a value with an equals sign between them make one. *)
LEMMA FieldIsAdded ==
  ASSUME NEW k, NEW v, NEW key, NEW val, Parameter(k, key), Parameter(v, val)
  PROVE  FieldFor(k \o <<Equals>> \o v, key, val)
<1> DEFINE field == k \o <<Equals>> \o v
           pos == Find(field, Equals, 1)
<1>1. Equals \in Byte /\ Equals \in Byte \ {Ampersand}
  BY DEF Equals, Ampersand, Byte
<1>2. field \in Seq(Byte) /\ IsCut(field, k, Equals, v)
  BY <1>1, CutIs DEF Parameter
<1>3. field \in Seq(Byte \ {Ampersand})
  BY <1>1, CutIs DEF Parameter
<1>4. Pieces(field, k, Equals, v)
  <2> HIDE DEF field
  <2> QED
    BY <1>2, CutIsFound DEF Parameter
<1>5. Len(k) \in Nat /\ Len(v) \in Nat
  BY DEF Parameter
<1>6. field # <<>>
  <2> HIDE DEF field
  <2>1. Len(field) = Len(k) + 1 + Len(v)
    BY <1>2 DEF IsCut
  <2> QED
    BY <1>5, <2>1
<1> HIDE DEF field
<1>7. /\ pos # 0 /\ SubSeq(field, 1, pos - 1) = k /\ Suffix(field, pos + 1) = v
  <2>1. pos = Len(k) + 1 /\ SubSeq(field, 1, Len(k)) = k /\ Suffix(field, Len(k) + 2) = v
    BY <1>4 DEF Pieces
  <2> HIDE DEF pos
  <2>2. pos # 0 /\ pos - 1 = Len(k) /\ pos + 1 = Len(k) + 2
    BY <1>5, <2>1
  <2> QED
    BY <2>1, <2>2
<1>8. ASSUME NEW r, r.resp # 400
      PROVE  AddField(r, field) = [r EXCEPT !.params = SetParam(@, key, val)]
  <2>1. AddField(r, field) =
          IF r.resp = 400 \/ pos = 0 THEN [r EXCEPT !.resp = 400]
          ELSE [r EXCEPT !.params = SetParam(@, UrlDecode(SubSeq(field, 1, pos - 1), TRUE),
                                                UrlDecode(Suffix(field, pos + 1), TRUE))]
    BY DEF AddField
  <2> HIDE DEF pos
  <2>2. UrlDecode(SubSeq(field, 1, pos - 1), TRUE) = key /\ UrlDecode(Suffix(field, pos + 1), TRUE) = val
    BY <1>7, Zenon DEF Parameter
  <2>3. ~(r.resp = 400 \/ pos = 0)
    BY <1>7, <1>8
  <2> QED
    BY <2>1, <2>2, <2>3, Zenon
<1>9. FieldFor(field, key, val)
  BY <1>2, <1>3, <1>6, <1>8, Zenon DEF FieldFor
<1> QED
  BY <1>9 DEF field

(* Two parameters are set: the second one counts if its key is another one. *)
LEMMA TwoParameters ==
  ASSUME NEW key, NEW val
  PROVE  SetParam(SetParam({}, key, val), val, key) =
           {[key |-> key, val |-> val]} \cup (IF key = val THEN {} ELSE {[key |-> val, val |-> key]})
<1> DEFINE p == [key |-> key, val |-> val]
           q == [key |-> val, val |-> key]
<1>1. SetParam({}, key, val) = {p}
  BY DEF SetParam
<1>2. p.key = key
  OBVIOUS
<1> HIDE DEF p
<1>3. SetParam({p}, val, key) = IF key = val THEN {p} ELSE {p} \cup {q}
  BY <1>2 DEF SetParam
<1> HIDE DEF q
<1>4. SetParam({p}, val, key) = {p} \cup IF key = val THEN {} ELSE {q}
  BY <1>3
<1> QED
  BY <1>1, <1>4, Zenon DEF p, q

(* Sequences are joined in any order. *)
Associates(a, b, c) == a \o b \o c = a \o (b \o c)

(* Sequences over one set are. *)
LEMMA ConcatAssociates ==
  ASSUME NEW X, NEW a \in Seq(X), NEW b \in Seq(X), NEW c \in Seq(X)
  PROVE  Associates(a, b, c)
<1>1. (a \o b) \o c = a \o (b \o c)
  BY ConcatAssociative
<1> QED
  BY <1>1 DEF Associates

(* A target, as it is bracketed in TargetIsUnderstood, is the path, a '?'  *)
(* and the query, which is two fields with an '&' between them.            *)
IsBracketed(p, q, k, e, v, a) ==
  p \o q \o k \o e \o v \o a \o v \o e \o k =
    (p \o q) \o ((k \o e \o v) \o a \o (v \o e \o k))

(* Both ways to bracket it are the same. *)
LEMMA Bracketed ==
  ASSUME NEW X, NEW p \in Seq(X), NEW q \in Seq(X), NEW k \in Seq(X), NEW e \in Seq(X),
         NEW v \in Seq(X), NEW a \in Seq(X)
  PROVE  IsBracketed(p, q, k, e, v, a)
<1> DEFINE x == p \o q
           f == k \o e \o v
           g == v \o e \o k
           w == f \o a
           y == x \o w
<1>1. x \in Seq(X) /\ k \o e \in Seq(X) /\ f \in Seq(X) /\ v \o e \in Seq(X) /\ g \in Seq(X)
      /\ w \in Seq(X)
  OBVIOUS
<1> HIDE DEF x
<1>2. y \in Seq(X)
  <2> HIDE DEF w
  <2> QED
    BY <1>1, ConcatProperties
<1> HIDE DEF w, y
<1>3. /\ Associates(x, k, e) /\ Associates(x, k \o e, v) /\ Associates(x, f, a)
      /\ Associates(y, v, e) /\ Associates(y, v \o e, k) /\ Associates(x, w, g)
  <2>1. Associates(x, k, e) /\ Associates(y, v, e)
    BY <1>1, <1>2, ConcatAssociates
  <2>2. Associates(x, k \o e, v) /\ Associates(y, v \o e, k)
    BY <1>1, <1>2, ConcatAssociates
  <2> HIDE DEF f, g
  <2>3. Associates(x, f, a) /\ Associates(x, w, g)
    BY <1>1, <1>2, ConcatAssociates
  <2> QED
    BY <2>1, <2>2, <2>3
<1>4. x \o k \o e \o v = x \o f
  BY <1>3, Zenon DEF Associates
<1> HIDE DEF f
<1>5. x \o f \o a = y
  BY <1>3, Zenon DEF Associates, w, y
<1>6. y \o v \o e \o k = y \o g
  BY <1>3, Zenon DEF Associates
<1> HIDE DEF g
<1>7. y \o g = x \o (w \o g)
  BY <1>3, Zenon DEF Associates, y
<1>8. x \o k \o e \o v \o a \o v \o e \o k = x \o (w \o g)
  BY <1>4, <1>5, <1>6, <1>7, Zenon
<1> QED
  BY <1>8, Zenon DEF IsBracketed, x, w, f, g

(* The parameters a client writes twice over, in both orders. *)
Both(key, val) ==
  {[key |-> key, val |-> val]} \cup (IF key = val THEN {} ELSE {[key |-> val, val |-> key]})

(* What the server makes of a target is what the target was written for. *)
Understood(path, key, val, s) ==
  ParseTarget(Written(path, s, FALSE) \o <<Question>>
                \o Written(key, s, TRUE) \o <<Equals>>
                \o Written(val, s, TRUE) \o <<Ampersand>>
                \o Written(val, s, TRUE) \o <<Equals>>
                \o Written(key, s, TRUE))
  = [resp |-> 200, path |-> path, params |-> Both(key, val)]

(* The server understands a target, whatever it is made of and however     *)
(* long its pieces are: it finds the path and the parameters in it that it *)
(* was written for.                                                        *)
THEOREM TargetIsRight ==
  ASSUME NEW path, NEW key, NEW val, NEW s,
         CanWrite(path, s), CanWrite(key, s), CanWrite(val, s)
  PROVE  Understood(path, key, val, s)
<1> DEFINE p == Written(path, s, FALSE)
           k == Written(key, s, TRUE)
           v == Written(val, s, TRUE)
           f == k \o <<Equals>> \o v
           g == v \o <<Equals>> \o k
           query == f \o <<Ampersand>> \o g
           target == p \o <<Question>> \o query
           base == [resp |-> 200, path |-> path, params |-> {}]
<1>1. /\ Question \in Byte /\ Equals \in Byte /\ Ampersand \in Byte
      /\ <<Question>> \in Seq(Byte) /\ <<Equals>> \in Seq(Byte) /\ <<Ampersand>> \in Seq(Byte)
  BY DEF Question, Equals, Ampersand, Byte
<1>2. p \in Seq(Byte) /\ p \in Seq(Byte \ {Question}) /\ UrlDecode(p, FALSE) = path
  <2>1. p \in Seq(Safe)
    BY WrittenIsSafe
  <2>2. Safe \subseteq Byte /\ Safe \subseteq Byte \ {Question}
    BY DEF Safe
  <2>3. UrlDecode(p, FALSE) = path
    BY WrittenIsDecoded
  <2> HIDE DEF p
  <2> QED
    BY <2>1, <2>2, <2>3, SeqMonotonic
<1>3. Parameter(k, key) /\ Parameter(v, val)
  BY WrittenIsParameter
<1>4. k \in Seq(Byte) /\ v \in Seq(Byte)
  BY <1>3 DEF Parameter
<1> HIDE DEF p, k, v
<1>5. FieldFor(f, key, val) /\ FieldFor(g, val, key)
  BY <1>3, FieldIsAdded
<1>6. p \o <<Question>> \o k \o <<Equals>> \o v \o <<Ampersand>> \o v \o <<Equals>> \o k = target
  <2> DEFINE q == <<Question>>
             e == <<Equals>>
             a == <<Ampersand>>
  <2>1. q \in Seq(Byte) /\ e \in Seq(Byte) /\ a \in Seq(Byte)
    BY <1>1
  <2> HIDE DEF q, e, a
  <2>2. IsBracketed(p, q, k, e, v, a)
    BY <1>2, <1>4, <2>1, Bracketed
  <2> QED
    BY <2>2, Zenon DEF IsBracketed, q, e, a
<1>7. f \in Seq(Byte) /\ g \in Seq(Byte)
  BY <1>5, Zenon DEF FieldFor
<1> HIDE DEF f, g
<1>8. query \in Seq(Byte) /\ IsCut(query, f, Ampersand, g)
  BY <1>1, <1>7, CutIs
<1>9. Split(query, Ampersand) = <<f>> \o <<g>>
  <2>1. f \in Seq(Byte \ {Ampersand}) /\ g \in Seq(Byte \ {Ampersand}) /\ f # <<>> /\ g # <<>>
    BY <1>5, Zenon DEF FieldFor
  <2> HIDE DEF query
  <2> QED
    BY <1>8, <2>1, SplitInTwo
<1> HIDE DEF query
<1>10. target \in Seq(Byte) /\ IsCut(target, p, Question, query)
  BY <1>1, <1>2, <1>8, CutIs
<1> HIDE DEF target
<1>11. Pieces(target, p, Question, query)
  BY <1>2, <1>8, <1>10, CutIsFound
<1>12. ParseTarget(target) = FoldLeft(AddField, base, Split(query, Ampersand))
  <2> DEFINE pos == Find(target, Question, 1)
  <2>1. pos = Len(p) + 1 /\ SubSeq(target, 1, Len(p)) = p /\ Suffix(target, Len(p) + 2) = query
    BY <1>11 DEF Pieces
  <2>2. Len(p) \in Nat
    BY <1>2
  <2>3. ParseTarget(target) =
          FoldLeft(AddField,
                   [resp |-> 200,
                    path |-> UrlDecode(IF pos = 0 THEN target ELSE SubSeq(target, 1, pos - 1), FALSE),
                    params |-> {}],
                   Split(IF pos = 0 THEN <<>> ELSE Suffix(target, pos + 1), Ampersand))
    BY Zenon DEF ParseTarget
  <2> HIDE DEF pos
  <2>4. pos # 0 /\ pos - 1 = Len(p) /\ pos + 1 = Len(p) + 2
    BY <2>1, <2>2
  <2>5. (IF pos = 0 THEN target ELSE SubSeq(target, 1, pos - 1)) = p
    BY <2>1, <2>4, Zenon
  <2>6. (IF pos = 0 THEN <<>> ELSE Suffix(target, pos + 1)) = query
    BY <2>1, <2>4, Zenon
  <2> QED
    BY <1>2, <2>3, <2>5, <2>6, Zenon
<1>13. FoldLeft(AddField, base, <<f>> \o <<g>>) = AddField(AddField(base, f), g)
  <2> HIDE DEF base
  <2>1. AddsTwo(base, f, g)
    BY TwoFieldsAdded
  <2> QED
    BY <2>1, Zenon DEF AddsTwo
<1> DEFINE one == [resp |-> 200, path |-> path, params |-> SetParam({}, key, val)]
           two == [resp |-> 200, path |-> path, params |-> SetParam(SetParam({}, key, val), val, key)]
<1>14. AddField(base, f) = one
  <2>1. base.resp # 400 /\ [base EXCEPT !.params = SetParam(@, key, val)] = one
    OBVIOUS
  <2> HIDE DEF base, one
  <2> QED
    BY <1>5, <2>1, Zenon DEF FieldFor
<1>15. AddField(one, g) = two
  <2>1. one.resp # 400 /\ [one EXCEPT !.params = SetParam(@, val, key)] = two
    OBVIOUS
  <2> HIDE DEF one, two
  <2> QED
    BY <1>5, <2>1, Zenon DEF FieldFor
<1>16. two = [resp |-> 200, path |-> path, params |-> Both(key, val)]
  BY TwoParameters DEF Both
<1> HIDE DEF base, one, two
<1>17. ParseTarget(target) = two
  BY <1>9, <1>12, <1>13, <1>14, <1>15, Zenon
<1> QED
  BY <1>6, <1>16, <1>17, Zenon DEF Understood, p, k, v

(* Whatever the path, the key and the value of a parameter are, and in     *)
(* whatever style they are written, the server understands the target.     *)
THEOREM TargetAlwaysUnderstood == Spec => []TargetIsUnderstood
<1>1. ASSUME TextOK PROVE TargetIsUnderstood
  <2> SUFFICES ASSUME alphabet = TargetBytes, NEW i \in 0 .. Len(text), NEW j \in 0 .. Len(text),
                      i <= j,
                      NEW s \in IF High \in Range(text) THEN Styles \ {"own"} ELSE Styles
               PROVE  Understood(SubSeq(text, 1, i), SubSeq(text, i + 1, j),
                                 SubSeq(text, j + 1, Len(text)), s)
    BY Zenon DEF TargetIsUnderstood, Understood, Both
  <2> DEFINE path == SubSeq(text, 1, i)
             key  == SubSeq(text, i + 1, j)
             val  == SubSeq(text, j + 1, Len(text))
  <2>1. text \in Seq(TargetBytes) /\ Len(text) \in Nat
    BY <1>1 DEF TextOK
  <2>2. ASSUME NEW k \in 1 .. Len(text) PROVE Writable(text[k], s)
    <3>1. text[k] \in TargetBytes /\ text[k] \in Range(text)
      BY <2>1 DEF Range
    <3>2. s = "own" => text[k] # High
      BY <3>1
    <3>3. TargetBytes \subseteq Byte /\ \A b \in TargetBytes : b # High => b < 128
      BY DEF TargetBytes, Byte, Space, Percent, Ampersand, Plus, Equals, Question, Four, Letter, High
    <3> QED
      BY <3>1, <3>2, <3>3 DEF Writable
  <2>3. ASSUME NEW m \in 1 .. Len(text) + 1, NEW n \in 0 .. Len(text)
        PROVE  CanWrite(SubSeq(text, m, n), s)
    <3> DEFINE a == SubSeq(text, m, n)
    <3>1. \A k \in m .. n : text[k] \in Byte
      BY <2>1, <2>2 DEF Writable
    <3>2. /\ a \in Seq(Byte) /\ Len(a) = IF m <= n THEN n - m + 1 ELSE 0
          /\ \A k \in 1 .. n - m + 1 : a[k] = text[m + k - 1]
      BY <2>1, <3>1, SubSeqProperties
    <3> HIDE DEF a
    <3>3. ASSUME NEW k \in DOMAIN a PROVE Writable(a[k], s)
      <4>1. k \in 1 .. n - m + 1
        <5>1. k \in 1 .. Len(a)
          BY <3>2
        <5> QED
          BY <3>2, <5>1
      <4>2. m + k - 1 \in 1 .. Len(text)
        BY <2>1, <4>1
      <4> QED
        BY <2>2, <3>2, <4>1, <4>2
    <3> QED
      BY <3>2, <3>3 DEF CanWrite, a
  <2>4. CanWrite(path, s)
    BY <2>1, <2>3
  <2>5. CanWrite(key, s)
    <3>1. i + 1 \in 1 .. Len(text) + 1
      BY <2>1
    <3> QED
      BY <2>3, <3>1
  <2>6. CanWrite(val, s)
    <3>1. j + 1 \in 1 .. Len(text) + 1 /\ Len(text) \in 0 .. Len(text)
      BY <2>1
    <3> QED
      BY <2>3, <3>1
  <2> HIDE DEF path, key, val
  <2>7. Understood(path, key, val, s)
    BY <2>4, <2>5, <2>6, TargetIsRight
  <2> QED
    BY <2>7, Zenon DEF path, key, val
<1> QED
  BY <1>1, TextCorrect, PTL
=============================================================================
