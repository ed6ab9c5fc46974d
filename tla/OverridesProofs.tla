--------------------------- MODULE OverridesProofs ---------------------------
(***************************************************************************)
(* What is true of the answers without upstream for every configuration,   *)
(* every content of the hosts files and every set of rules.                *)
(***************************************************************************)
EXTENDS Overrides, FiniteSetTheorems, WellFoundedInduction, NaturalsInduction,
        SequenceTheorems, TLAPS

-----------------------------------------------------------------------------
(* Sequences *)

LEMMA Cat ==
    ASSUME NEW X, NEW s \in Seq(X), NEW t \in Seq(X)
    PROVE  /\ s \o t \in Seq(X) /\ Len(s \o t) = Len(s) + Len(t)
           /\ \A i \in 1 .. Len(s) : (s \o t)[i] = s[i]
           /\ \A i \in 1 .. Len(t) : (s \o t)[Len(s) + i] = t[i]
<1>1. Len(s) \in Nat /\ Len(t) \in Nat
  OBVIOUS
<1>2. \A i \in 1 .. Len(s) + Len(t) :
         (s \o t)[i] = IF i <= Len(s) THEN s[i] ELSE t[i - Len(s)]
  BY ConcatProperties
<1>3. s \o t \in Seq(X) /\ Len(s \o t) = Len(s) + Len(t)
  BY ConcatProperties
<1>4. ASSUME NEW i \in 1 .. Len(s) PROVE (s \o t)[i] = s[i]
  BY <1>1, <1>2
<1>5. ASSUME NEW i \in 1 .. Len(t) PROVE (s \o t)[Len(s) + i] = t[i]
  BY <1>1, <1>2
<1> QED
  BY <1>3, <1>4, <1>5

LEMMA Slice ==
    ASSUME NEW X, NEW s \in Seq(X), NEW a \in Nat, NEW b \in Nat, a <= b, b <= Len(s)
    PROVE  /\ SubSeq(s, a + 1, b) \in Seq(X) /\ Len(SubSeq(s, a + 1, b)) = b - a
           /\ \A i \in 1 .. b - a : SubSeq(s, a + 1, b)[i] = s[a + i]
<1>1. Len(s) \in Nat /\ \A i \in a + 1 .. b : s[i] \in X
  OBVIOUS
<1>2. /\ SubSeq(s, a + 1, b) \in Seq(X)
      /\ Len(SubSeq(s, a + 1, b)) = IF a + 1 <= b THEN b - (a + 1) + 1 ELSE 0
      /\ \A i \in 1 .. b - (a + 1) + 1 : SubSeq(s, a + 1, b)[i] = s[a + 1 + i - 1]
  BY <1>1, SubSeqProperties
<1> QED
  BY <1>2

-----------------------------------------------------------------------------
(* FlattenSeq, by induction on the number of sequences *)

LEMMA LeastElement ==
    ASSUME NEW S \in SUBSET Nat, S # {}
    PROVE  \E m \in S : \A k \in S : m <= k
<1> DEFINE R == OpToRel(<, Nat)
<1>1. IsWellFoundedOn(R, Nat)
  BY NatLessThanWellFounded
<1> HIDE DEF R
<1>2. PICK m \in S : \A k \in S : ~(<<k, m>> \in R)
  BY <1>1, WFMin
<1>3. \A k \in Nat : k < m => <<k, m>> \in R
  BY DEF R, OpToRel
<1>4. \A k \in S : ~(k < m)
  BY <1>2, <1>3
<1> QED
  BY <1>2, <1>4

\* f is what FlattenSeq defines recursively, up to the n-th sequence.
Flat(f, s, n) == f = [i \in 1 .. n |-> IF i = 1 THEN s[i] ELSE f[i - 1] \o s[i]]

LEMMA FlatAt ==
    ASSUME NEW s, NEW n \in Nat, NEW f, Flat(f, s, n), NEW i \in 1 .. n
    PROVE  f[i] = IF i = 1 THEN s[i] ELSE f[i - 1] \o s[i]
<1> DEFINE g == [j \in 1 .. n |-> IF j = 1 THEN s[j] ELSE f[j - 1] \o s[j]]
<1>1. f = g
  BY DEF Flat
<1>2. g[i] = IF i = 1 THEN s[i] ELSE f[i - 1] \o s[i]
  OBVIOUS
<1> HIDE DEF g
<1> QED
  BY <1>1, <1>2

LEMMA FlatStep ==
    ASSUME NEW s, NEW n \in Nat, NEW f, Flat(f, s, n)
    PROVE  \E g : Flat(g, s, n + 1)
<1> DEFINE g == [i \in 1 .. n + 1 |->
                   IF i <= n THEN f[i] ELSE IF i = 1 THEN s[i] ELSE f[i - 1] \o s[i]]
           h == [i \in 1 .. n + 1 |-> IF i = 1 THEN s[i] ELSE g[i - 1] \o s[i]]
<1>1. ASSUME NEW i \in 1 .. n + 1 PROVE g[i] = IF i = 1 THEN s[i] ELSE g[i - 1] \o s[i]
  <2>1. CASE i <= n
    <3>1. i \in 1 .. n /\ g[i] = f[i] /\ (i # 1 => i - 1 \in 1 .. n /\ g[i - 1] = f[i - 1])
      BY <2>1
    <3>2. f[i] = IF i = 1 THEN s[i] ELSE f[i - 1] \o s[i]
      BY <3>1 DEF Flat
    <3> QED
      BY <3>1, <3>2
  <2>2. CASE ~(i <= n)
    <3>1. i # 1 => i - 1 \in 1 .. n /\ i - 1 <= n /\ g[i - 1] = f[i - 1]
      BY <2>2
    <3> QED
      BY <2>2, <3>1
  <2> QED
    BY <2>1, <2>2
<1>2. g = h
  <2>1. \A i \in 1 .. n + 1 : g[i] = h[i]
    BY <1>1
  <2> HIDE DEF g
  <2>2. g = [i \in 1 .. n + 1 |-> g[i]]
    BY DEF g
  <2> QED
    BY <2>1, <2>2
<1> QED
  BY <1>2 DEF Flat

LEMMA FlatExists ==
    ASSUME NEW s, NEW n \in Nat
    PROVE  \E f : Flat(f, s, n)
<1> DEFINE S == {m \in Nat : ~ \E f : Flat(f, s, m)}
<1> SUFFICES ASSUME S # {} PROVE FALSE
  OBVIOUS
<1>1. PICK m \in S : \A k \in S : m <= k
  BY LeastElement
<1>2. m # 0
  <2> DEFINE f == [i \in 1 .. 0 |-> s]
  <2>1. f = [i \in 1 .. 0 |-> IF i = 1 THEN s[i] ELSE f[i - 1] \o s[i]]
    OBVIOUS
  <2>2. Flat(f, s, 0)
    BY <2>1 DEF Flat
  <2> QED
    BY <1>1, <2>2
<1>3. m - 1 \in Nat /\ m - 1 \notin S
  BY <1>1, <1>2
<1>4. PICK f : Flat(f, s, m - 1)
  BY <1>3
<1>5. \E g : Flat(g, s, m - 1 + 1)
  BY <1>3, <1>4, FlatStep
<1> QED
  BY <1>1, <1>5

\* It is a sequence over the same set, and what it is at i depends on the first
\* i sequences only.
LEMMA FlatType ==
    ASSUME NEW X, NEW s \in Seq(Seq(X)), NEW n \in Nat, n <= Len(s), NEW f, Flat(f, s, n)
    PROVE  \A i \in 1 .. n : f[i] \in Seq(X)
<1> DEFINE S == {i \in 1 .. n : f[i] \notin Seq(X)}
<1> SUFFICES ASSUME S # {} PROVE FALSE
  OBVIOUS
<1>0. S \in SUBSET Nat
  OBVIOUS
<1>1. PICK m \in S : \A k \in S : m <= k
  <2> HIDE DEF S
  <2> QED
    BY <1>0, LeastElement
<1>2. m \in 1 .. n /\ f[m] \notin Seq(X) /\ s[m] \in Seq(X)
  BY <1>1
<1>3. f[m] = IF m = 1 THEN s[m] ELSE f[m - 1] \o s[m]
  BY <1>2, FlatAt
<1>4. m # 1 => m - 1 \in 1 .. n /\ f[m - 1] \in Seq(X)
  BY <1>1, <1>2
<1> QED
  BY <1>2, <1>3, <1>4, Cat

LEMMA FlatAgree ==
    ASSUME NEW s, NEW t, NEW m \in Nat, NEW n \in Nat, m <= n, \A i \in 1 .. m : s[i] = t[i]
    PROVE  \A f, g : Flat(f, s, m) /\ Flat(g, t, n) => \A i \in 1 .. m : f[i] = g[i]
<1> SUFFICES ASSUME NEW f, NEW g, Flat(f, s, m), Flat(g, t, n)
             PROVE  \A i \in 1 .. m : f[i] = g[i]
  OBVIOUS
<1> DEFINE S == {i \in 1 .. m : f[i] # g[i]}
<1> SUFFICES ASSUME S # {} PROVE FALSE
  OBVIOUS
<1>0. S \in SUBSET Nat
  OBVIOUS
<1>1. PICK j \in S : \A k \in S : j <= k
  <2> HIDE DEF S
  <2> QED
    BY <1>0, LeastElement
<1>2. j \in 1 .. m /\ j \in 1 .. n /\ f[j] # g[j]
  BY <1>1
<1>3. f[j] = IF j = 1 THEN s[j] ELSE f[j - 1] \o s[j]
  BY <1>2, FlatAt
<1>4. g[j] = IF j = 1 THEN t[j] ELSE g[j - 1] \o t[j]
  BY <1>2, FlatAt
<1>5. j # 1 => f[j - 1] = g[j - 1]
  BY <1>1, <1>2
<1> QED
  BY <1>2, <1>3, <1>4, <1>5

LEMMA FlattenIs ==
    ASSUME NEW s, Len(s) \in Nat \ {0}
    PROVE  \E f : Flat(f, s, Len(s)) /\ FlattenSeq(s) = f[Len(s)]
<1> DEFINE flatten == CHOOSE f : f = [i \in 1 .. Len(s) |-> IF i = 1 THEN s[i] ELSE f[i - 1] \o s[i]]
<1>1. \E f : f = [i \in 1 .. Len(s) |-> IF i = 1 THEN s[i] ELSE f[i - 1] \o s[i]]
  BY FlatExists DEF Flat
<1>2. Flat(flatten, s, Len(s))
  BY <1>1 DEF Flat
<1>3. FlattenSeq(s) = flatten[Len(s)]
  BY DEF FlattenSeq
<1> QED
  BY <1>2, <1>3

LEMMA FlattenAppend ==
    ASSUME NEW X, NEW s \in Seq(Seq(X)), NEW x \in Seq(X)
    PROVE  /\ FlattenSeq(s) \in Seq(X)
           /\ FlattenSeq(Append(s, x)) = FlattenSeq(s) \o x
<1> DEFINE n == Len(s)
           t == Append(s, x)
<1>1. /\ n \in Nat /\ t \in Seq(Seq(X)) /\ Len(t) = n + 1 /\ t[n + 1] = x
      /\ \A i \in 1 .. n : s[i] = t[i]
  OBVIOUS
<1> HIDE DEF t
<1>2. PICK g : Flat(g, t, n + 1) /\ FlattenSeq(t) = g[n + 1]
  <2>1. Len(t) \in Nat \ {0}
    BY <1>1
  <2>2. \E g : Flat(g, t, Len(t)) /\ FlattenSeq(t) = g[Len(t)]
    BY <2>1, FlattenIs, Zenon
  <2> HIDE DEF n
  <2> QED
    BY <1>1, <2>2, Zenon
<1>3. g[n + 1] = IF n + 1 = 1 THEN t[n + 1] ELSE g[n + 1 - 1] \o t[n + 1]
  <2>1. n + 1 \in Nat /\ n + 1 \in 1 .. n + 1
    BY <1>1
  <2> QED
    BY <1>2, <2>1, FlatAt
<1>4. CASE n = 0
  <2>1. FlattenSeq(s) = <<>> /\ s = <<>>
    BY <1>4 DEF FlattenSeq
  <2>2. <<>> \o x = x
    BY ConcatEmptySeq
  <2> QED
    BY <1>1, <1>2, <1>3, <1>4, <2>1, <2>2 DEF t
<1>5. CASE n # 0
  <2>1. PICK f : Flat(f, s, n) /\ FlattenSeq(s) = f[n]
    BY <1>1, <1>5, FlattenIs
  <2>0. n \in 1 .. n /\ n <= n /\ n <= n + 1 /\ n + 1 \in Nat
    BY <1>1, <1>5
  <2>2. f[n] \in Seq(X)
    <3>1. \A i \in 1 .. n : f[i] \in Seq(X)
      BY <1>1, <2>0, <2>1, FlatType
    <3> QED
      BY <2>0, <3>1
  <2>3. f[n] = g[n]
    <3>1. \A i \in 1 .. n : f[i] = g[i]
      <4> HIDE DEF n
      <4>1. n \in Nat /\ \A i \in 1 .. n : s[i] = t[i]
        BY <1>1, <2>0
      <4>2. PICK k \in Nat : n <= k /\ Flat(g, t, k)
        BY <1>2, <2>0
      <4>3. Flat(f, s, n)
        BY <2>1
      <4>4. PICK u : u = t
        OBVIOUS
      <4>5. \A i \in 1 .. n : s[i] = u[i]
        BY <4>1, <4>4
      <4>6. \A a, b : Flat(a, s, n) /\ Flat(b, u, k) => \A i \in 1 .. n : a[i] = b[i]
        BY <4>1, <4>2, <4>5, FlatAgree
      <4> QED
        BY <4>2, <4>3, <4>4, <4>6
    <3> QED
      BY <2>0, <3>1
  <2>4. n + 1 # 1 /\ n + 1 - 1 = n
    BY <1>1, <1>5
  <2> QED
    BY <1>1, <1>2, <1>3, <2>1, <2>2, <2>3, <2>4 DEF t
<1> QED
  BY <1>4, <1>5
-----------------------------------------------------------------------------
(* Prefixes *)

LEMMA PrefixIs ==
    ASSUME NEW X, NEW s \in Seq(X), NEW t \in Seq(X)
    PROVE  IsPrefix(s, t) <=> Len(s) <= Len(t) /\ \A i \in 1 .. Len(s) : s[i] = t[i]
<1>1. Len(s) \in Nat /\ Len(t) \in Nat
  OBVIOUS
<1> SUFFICES ASSUME Len(s) <= Len(t)
             PROVE  SubSeq(s, 1, Len(s)) = SubSeq(t, 1, Len(s))
                       <=> \A i \in 1 .. Len(s) : s[i] = t[i]
  BY DEF IsPrefix
<1>2. /\ SubSeq(s, 1, Len(s)) \in Seq(X) /\ Len(SubSeq(s, 1, Len(s))) = Len(s)
      /\ \A i \in 1 .. Len(s) : SubSeq(s, 1, Len(s))[i] = s[i]
  BY <1>1
<1>3. /\ SubSeq(t, 1, Len(s)) \in Seq(X) /\ Len(SubSeq(t, 1, Len(s))) = Len(s)
      /\ \A i \in 1 .. Len(s) : SubSeq(t, 1, Len(s))[i] = t[i]
  BY <1>1
<1>4. ASSUME \A i \in 1 .. Len(s) : s[i] = t[i]
      PROVE  SubSeq(s, 1, Len(s)) = SubSeq(t, 1, Len(s))
  BY <1>2, <1>3, <1>4, SeqEqual
<1>5. ASSUME SubSeq(s, 1, Len(s)) = SubSeq(t, 1, Len(s)), NEW i \in 1 .. Len(s)
      PROVE  s[i] = t[i]
  BY <1>2, <1>3, <1>5
<1> QED
  BY <1>4, <1>5
-----------------------------------------------------------------------------
(* Among *)

\* What it keeps is in the set, and it takes the elements one by one.
LEMMA AmongType ==
    ASSUME NEW X, NEW s \in Seq(X), NEW S
    PROVE  Among(s, S) \in Seq(X \cap S) /\ Among(s, S) \in Seq(X)
<1> DEFINE p == [k \in DOMAIN s |-> IF s[k] \in S THEN <<s[k]>> ELSE <<>>]
<1>1. DOMAIN s = 1 .. Len(s) /\ Len(s) \in Nat /\ \A k \in 1 .. Len(s) : s[k] \in X
  OBVIOUS
<1>2. ASSUME NEW k \in 1 .. Len(s)
      PROVE  (IF s[k] \in S THEN <<s[k]>> ELSE <<>>) \in Seq(X \cap S)
  <2>1. PICK Y, x : Y = X \cap S /\ x = s[k] /\ x \in X
    BY <1>1
  <2>2. x \in Y => <<x>> \in Seq(Y)
    OBVIOUS
  <2>3. <<>> \in Seq(Y)
    OBVIOUS
  <2> QED
    BY <2>1, <2>2, <2>3
<1>3. p \in Seq(Seq(X \cap S))
  BY <1>1, <1>2
<1> HIDE DEF p
<1>4. <<>> \in Seq(X \cap S)
  OBVIOUS
<1>5. FlattenSeq(p) \in Seq(X \cap S)
  BY <1>3, <1>4, FlattenAppend
<1>6. PICK r : r = FlattenSeq(p)
  OBVIOUS
<1>7. r \in Seq(X)
  BY <1>5, <1>6
<1> QED
  BY <1>5, <1>6, <1>7 DEF Among, p

LEMMA AmongEmpty == \A S : Among(<<>>, S) = <<>>
<1> SUFFICES ASSUME NEW S PROVE Among(<<>>, S) = <<>>
  OBVIOUS
<1> DEFINE s == <<>>
           p == [k \in DOMAIN s |-> IF s[k] \in S THEN <<s[k]>> ELSE <<>>]
<1>1. DOMAIN s = {}
  OBVIOUS
<1>2. p = <<>>
  OBVIOUS
<1>3. FlattenSeq(<<>>) = <<>>
  BY DEF FlattenSeq
<1> QED
  BY <1>2, <1>3 DEF Among

LEMMA AmongAppend ==
    ASSUME NEW X, NEW s \in Seq(X), NEW x \in X, NEW S
    PROVE  Among(Append(s, x), S) = Among(s, S) \o (IF x \in S THEN <<x>> ELSE <<>>)
<1> DEFINE t == Append(s, x)
           p == [k \in DOMAIN s |-> IF s[k] \in S THEN <<s[k]>> ELSE <<>>]
           q == [k \in DOMAIN t |-> IF t[k] \in S THEN <<t[k]>> ELSE <<>>]
           e == IF x \in S THEN <<x>> ELSE <<>>
<1>1. /\ DOMAIN s = 1 .. Len(s) /\ Len(s) \in Nat
      /\ DOMAIN t = 1 .. Len(s) + 1 /\ t[Len(s) + 1] = x
      /\ \A k \in 1 .. Len(s) : t[k] = s[k] /\ s[k] \in X
  OBVIOUS
<1>2. /\ e \in Seq(X)
      /\ \A k \in 1 .. Len(s) : (IF s[k] \in S THEN <<s[k]>> ELSE <<>>) \in Seq(X)
  BY <1>1
<1> HIDE DEF e, t
<1>3. p \in Seq(Seq(X)) /\ Len(p) = Len(s)
      /\ \A k \in 1 .. Len(s) : p[k] = IF s[k] \in S THEN <<s[k]>> ELSE <<>>
  BY <1>1, <1>2
<1>4. q = Append(p, e)
  <2>1. \A k \in 1 .. Len(s) + 1 : q[k] = IF k <= Len(s) THEN p[k] ELSE e
    BY <1>1, <1>3 DEF e
  <2>2. q = [k \in 1 .. Len(s) + 1 |-> IF k <= Len(s) THEN p[k] ELSE e]
    BY <1>1, <2>1
  <2> HIDE DEF p, q
  <2>3. Append(p, e) \in Seq(Seq(X)) /\ Len(Append(p, e)) = Len(s) + 1
        /\ \A k \in 1 .. Len(s) + 1 : Append(p, e)[k] = IF k <= Len(s) THEN p[k] ELSE e
    BY <1>1, <1>2, <1>3
  <2>4. q \in Seq(Seq(X)) /\ Len(q) = Len(s) + 1
    <3>1. PICK m \in Nat : m = Len(s) + 1
      BY <1>1
    <3>2. \A k \in 1 .. m : k <= Len(s) => p[k] \in Seq(X)
      BY <3>1, <1>3
    <3>3. q \in [1 .. m -> Seq(X)]
      BY <3>1, <3>2, <1>2, <2>2
    <3> QED
      BY <3>1, <3>3
  <2> QED
    BY <1>1, <2>1, <2>3, <2>4, SeqEqual
<1> HIDE DEF p, q
<1>5. FlattenSeq(q) = FlattenSeq(p) \o e
  BY <1>2, <1>3, <1>4, FlattenAppend
<1>6. Among(s, S) = FlattenSeq(p) /\ Among(t, S) = FlattenSeq(q)
  BY DEF Among, p, q
<1> QED
  BY <1>5, <1>6 DEF t, e

\* A sequence is empty, or a shorter one with an element more.
LEMMA Shorter ==
    ASSUME NEW X, NEW s \in Seq(X), Len(s) # 0
    PROVE  \E f \in Seq(X), x \in X : s = Append(f, x) /\ Len(f) = Len(s) - 1
<1> DEFINE n == Len(s)
           f == SubSeq(s, 1, n - 1)
<1>1. n \in Nat /\ n - 1 \in Nat /\ 0 \in Nat /\ 0 <= n - 1 /\ n - 1 <= Len(s) /\ s[n] \in X
  OBVIOUS
<1>2. /\ SubSeq(s, 0 + 1, n - 1) \in Seq(X) /\ Len(SubSeq(s, 0 + 1, n - 1)) = n - 1 - 0
      /\ \A i \in 1 .. n - 1 - 0 : SubSeq(s, 0 + 1, n - 1)[i] = s[0 + i]
  BY <1>1, Slice
<1>3. f \in Seq(X) /\ Len(f) = n - 1 /\ \A i \in 1 .. n - 1 : f[i] = s[i]
  BY <1>1, <1>2
<1> HIDE DEF f
<1>4. /\ Append(f, s[n]) \in Seq(X) /\ Len(Append(f, s[n])) = n
      /\ \A i \in 1 .. n : Append(f, s[n])[i] = IF i <= n - 1 THEN f[i] ELSE s[n]
  BY <1>1, <1>3
<1>5. \A i \in 1 .. n : Append(f, s[n])[i] = s[i]
  BY <1>1, <1>3, <1>4
<1>6. Append(f, s[n]) = s
  BY <1>4, <1>5, SeqEqual
<1> QED
  BY <1>1, <1>3, <1>6

\* Concatenation under a name that the provers leave alone.
Join(a, b) == a \o b

LEMMA Assoc ==
    ASSUME NEW X, NEW a \in Seq(X), NEW b \in Seq(X), NEW c \in Seq(X)
    PROVE  Join(Join(a, b), c) = Join(a, Join(b, c))
BY ConcatAssociative DEF Join

LEMMA CatAppend ==
    ASSUME NEW X, NEW s \in Seq(X), NEW f \in Seq(X), NEW x \in X
    PROVE  s \o Append(f, x) = Append(s \o f, x)
<1>0. <<x>> \in Seq(X)
  OBVIOUS
<1>1. PICK e \in Seq(X) : e = <<x>>
  BY <1>0, Zenon
<1>2. Append(f, x) = f \o e
  BY <1>1, AppendIsConcat
<1>3. PICK g \in Seq(X) : g = s \o f
  BY Cat
<1>4. Append(g, x) = g \o e
  BY <1>1, AppendIsConcat
<1>5. (s \o f) \o e = s \o (f \o e)
  <2>1. Join(Join(s, f), e) = Join(s, Join(f, e))
    BY Assoc
  <2> QED
    BY <2>1, Zenon DEF Join
<1> QED
  BY <1>2, <1>3, <1>4, <1>5

(* What is among s followed by f is what is among s, followed by what is among f. *)
Splits(s, f, S) ==
    Among(s \o f, S) = Among(s, S) \o Among(f, S)

LEMMA SplitsAppend ==
    ASSUME NEW X, NEW S, NEW s \in Seq(X), NEW f \in Seq(X), NEW x \in X, Splits(s, f, S)
    PROVE  Splits(s, Append(f, x), S)
<1>0. Among(s \o f, S) = Among(s, S) \o Among(f, S)
  BY DEF Splits
<1>1. PICK a \in Seq(X), b \in Seq(X), e \in Seq(X) :
        /\ a = Among(s, S) /\ b = Among(f, S)
        /\ e = (IF x \in S THEN <<x>> ELSE <<>>)
  <2>1. (IF x \in S THEN <<x>> ELSE <<>>) \in Seq(X)
    OBVIOUS
  <2>2. Among(s, S) \in Seq(X) /\ Among(f, S) \in Seq(X)
    BY AmongType
  <2> QED
    BY <2>1, <2>2
<1>2. s \o Append(f, x) = Append(s \o f, x)
  BY CatAppend
<1>3. Among(s \o Append(f, x), S) = (a \o b) \o e
  <2>1. s \o f \in Seq(X)
    BY Cat
  <2>2. Among(Append(s \o f, x), S) = Among(s \o f, S) \o e
    BY <2>1, <1>1, AmongAppend
  <2> QED
    BY <2>2, <1>0, <1>1, <1>2
<1>4. Among(Append(f, x), S) = b \o e
  BY <1>1, AmongAppend
<1>5. (a \o b) \o e = a \o (b \o e)
  <2>1. Join(Join(a, b), e) = Join(a, Join(b, e))
    BY Assoc
  <2> QED
    BY <2>1, Zenon DEF Join
<1> QED
  BY <1>1, <1>3, <1>4, <1>5 DEF Splits

LEMMA AmongCat ==
    ASSUME NEW X, NEW s \in Seq(X), NEW S
    PROVE  \A t \in Seq(X) : Splits(s, t, S)
<1> DEFINE B == {n \in Nat : \E t \in Seq(X) :
                    Len(t) = n /\ ~ Splits(s, t, S)}
<1> SUFFICES ASSUME B # {} PROVE FALSE
  OBVIOUS
<1>1. B \in SUBSET Nat
  OBVIOUS
<1>2. PICK n \in B : \A k \in B : n <= k
  <2> HIDE DEF B
  <2> QED
    BY <1>1, LeastElement
<1> HIDE DEF B
<1>3. PICK t \in Seq(X) : n \in Nat /\ Len(t) = n /\ ~ Splits(s, t, S)
  BY <1>2 DEF B
<1>4. Among(s, S) \in Seq(X)
  BY AmongType
<1>5. n # 0
  <2>1. ASSUME n = 0 PROVE FALSE
    <3>1. t = <<>>
      BY <1>3, <2>1
    <3>2. s \o t = s /\ Among(s, S) \o <<>> = Among(s, S)
      BY <3>1, <1>4, ConcatEmptySeq
    <3> QED
      BY <1>3, <3>1, <3>2, AmongEmpty DEF Splits
  <2> QED
    BY <2>1
<1>6. PICK f \in Seq(X), x \in X : t = Append(f, x) /\ Len(f) = n - 1
  <2>1. Len(t) # 0
    BY <1>3, <1>5
  <2> QED
    BY <1>3, <2>1, Shorter
<1>7. Splits(s, f, S)
  <2>1. n - 1 \in Nat /\ n - 1 \notin B
    BY <1>2, <1>3, <1>5
  <2> QED
    BY <1>6, <2>1 DEF B
<1>8. Splits(s, Append(f, x), S)
  BY <1>6, <1>7, SplitsAppend
<1> QED
  BY <1>3, <1>6, <1>8

LEMMA AmongAmong ==
    ASSUME NEW X, NEW P, NEW S
    PROVE  \A s \in Seq(X) : Among(Among(s, P), S) = Among(s, P \cap S)
<1> DEFINE B == {n \in Nat : \E s \in Seq(X) :
                    Len(s) = n /\ Among(Among(s, P), S) # Among(s, P \cap S)}
<1>0. ASSUME NEW s \in Seq(X), Among(Among(s, P), S) # Among(s, P \cap S) PROVE Len(s) \in B
  <2>1. Len(s) \in Nat
    OBVIOUS
  <2> QED
    BY <1>0, <2>1, Zenon
<1> SUFFICES ASSUME B # {} PROVE FALSE
  BY <1>0, Zenon
<1>1. B \in SUBSET Nat
  OBVIOUS
<1> HIDE DEF B
<1>2. PICK n \in B : \A k \in B : n <= k
  BY <1>1, LeastElement
<1>3. PICK s \in Seq(X) : n \in Nat /\ Len(s) = n /\ Among(Among(s, P), S) # Among(s, P \cap S)
  BY <1>2 DEF B
<1>4. n # 0
  <2>1. ASSUME n = 0 PROVE FALSE
    <3>1. s = <<>>
      BY <1>3, <2>1
    <3> QED
      BY <1>3, <3>1, AmongEmpty
  <2> QED
    BY <2>1
<1>5. PICK f \in Seq(X), x \in X : s = Append(f, x) /\ Len(f) = n - 1
  <2>1. Len(s) # 0
    BY <1>3, <1>4
  <2> QED
    BY <1>3, <2>1, Shorter
<1>6. Among(Among(f, P), S) = Among(f, P \cap S)
  <2>1. n - 1 \in Nat /\ n - 1 \notin B
    BY <1>2, <1>3, <1>4
  <2> QED
    BY <1>5, <2>1 DEF B
<1>7. PICK a : a = Among(f, P) /\ a \in Seq(X)
  BY AmongType
<1>8. Among(s, P) = a \o (IF x \in P THEN <<x>> ELSE <<>>)
  BY <1>5, <1>7, AmongAppend
<1>9. Among(s, P \cap S) = Among(f, P \cap S) \o (IF x \in P \cap S THEN <<x>> ELSE <<>>)
  BY <1>5, AmongAppend
<1>10. CASE x \in P
  <2>1. Among(s, P) = Append(a, x)
    BY <1>8, <1>10, <1>7, AppendIsConcat
  <2>2. Among(Append(a, x), S) = Among(a, S) \o (IF x \in S THEN <<x>> ELSE <<>>)
    BY <1>7, AmongAppend
  <2>3. (x \in P \cap S) <=> (x \in S)
    BY <1>10
  <2> QED
    BY <1>3, <1>6, <1>7, <1>9, <2>1, <2>2, <2>3
<1>11. CASE x \notin P
  <2>1. Among(s, P) = a
    BY <1>8, <1>11, <1>7, ConcatEmptySeq
  <2>2. PICK b : b = Among(f, P \cap S) /\ b \in Seq(X)
    BY AmongType
  <2>3. Among(s, P \cap S) = b
    <3>1. x \notin P \cap S
      BY <1>11
    <3> QED
      BY <1>9, <2>2, <3>1, ConcatEmptySeq
  <2> QED
    BY <1>3, <1>6, <1>7, <2>1, <2>2, <2>3
<1> QED
  BY <1>10, <1>11

\* Only which of the elements are in the set matters.
LEMMA AmongLocal ==
    ASSUME NEW X, NEW s \in Seq(X), NEW S, NEW T, \A x \in ToSet(s) : x \in S <=> x \in T
    PROVE  Among(s, S) = Among(s, T)
<1> DEFINE p == [k \in DOMAIN s |-> IF s[k] \in S THEN <<s[k]>> ELSE <<>>]
           q == [k \in DOMAIN s |-> IF s[k] \in T THEN <<s[k]>> ELSE <<>>]
<1>1. \A k \in DOMAIN s : s[k] \in S <=> s[k] \in T
  BY DEF ToSet
<1>2. p = q
  BY <1>1
<1> QED
  BY <1>2 DEF Among

\* The elements of a concatenation.
LEMMA ToSetCat ==
    ASSUME NEW X, NEW s \in Seq(X), NEW t \in Seq(X)
    PROVE  ToSet(s) \subseteq ToSet(s \o t) /\ ToSet(t) \subseteq ToSet(s \o t)
<1>0. PICK u : u = s \o t
  OBVIOUS
<1>1. /\ u \in Seq(X) /\ Len(u) = Len(s) + Len(t)
      /\ \A i \in 1 .. Len(s) : u[i] = s[i]
      /\ \A i \in 1 .. Len(t) : u[Len(s) + i] = t[i]
  BY <1>0, Cat
<1>2. /\ Len(s) \in Nat /\ Len(t) \in Nat /\ DOMAIN s = 1 .. Len(s) /\ DOMAIN t = 1 .. Len(t)
      /\ DOMAIN u = 1 .. Len(u)
  BY <1>1
<1>3. ToSet(s) \subseteq ToSet(u)
  <2> SUFFICES ASSUME NEW i \in 1 .. Len(s) PROVE s[i] \in ToSet(u)
    BY <1>2 DEF ToSet
  <2>1. i \in DOMAIN u /\ u[i] = s[i]
    BY <1>1, <1>2
  <2> QED
    BY <2>1 DEF ToSet
<1>4. ToSet(t) \subseteq ToSet(u)
  <2> SUFFICES ASSUME NEW i \in 1 .. Len(t) PROVE t[i] \in ToSet(u)
    BY <1>2 DEF ToSet
  <2>1. Len(s) + i \in DOMAIN u /\ u[Len(s) + i] = t[i]
    BY <1>1, <1>2
  <2> QED
    BY <2>1 DEF ToSet
<1> QED
  BY <1>0, <1>3, <1>4
-----------------------------------------------------------------------------
(* The entries of the configuration and of the files *)

Line == [ip : STRING, names : Seq(String)]

LEMMA StripType == \A n \in String : strip_dot(n) \in String
BY DEF String, strip_dot

LEMMA LineType ==
    ASSUME NEW line \in Line
    PROVE  LineEntries(line) \in Seq(HostEntry)
<1>1. CASE line.ip \notin Ips
  BY <1>1 DEF LineEntries
<1>2. CASE line.ip \in Ips
  <2>1. PICK names \in Seq(String), ip \in Ips : names = line.names /\ ip = line.ip
    BY <1>2 DEF Line
  <2>2. PICK n \in Nat : n = Len(names) /\ DOMAIN names = 1 .. n
    OBVIOUS
  <2>3. \A k \in 1 .. n : [domain |-> strip_dot(names[k]), ip |-> ip] \in HostEntry
    <3>1. \A k \in 1 .. n : strip_dot(names[k]) \in String
      BY <2>2, StripType
    <3> QED
      BY <3>1 DEF HostEntry
  <2>4. [k \in 1 .. n |-> [domain |-> strip_dot(names[k]), ip |-> ip]] \in Seq(HostEntry)
    BY <2>3
  <2> QED
    BY <1>2, <2>1, <2>2, <2>4 DEF LineEntries
<1> QED
  BY <1>1, <1>2

\* What a file with these lines adds.
Adds(lines) == FlattenSeq([k \in DOMAIN lines |-> LineEntries(lines[k])])

LEMMA AddsType ==
    ASSUME NEW lines \in Seq(Line)
    PROVE  Adds(lines) \in Seq(HostEntry)
<1> DEFINE p == [k \in DOMAIN lines |-> LineEntries(lines[k])]
<1>1. PICK n \in Nat : n = Len(lines) /\ DOMAIN lines = 1 .. n /\ \A k \in 1 .. n : lines[k] \in Line
  OBVIOUS
<1>2. \A k \in 1 .. n : LineEntries(lines[k]) \in Seq(HostEntry)
  BY <1>1, LineType
<1>3. p \in Seq(Seq(HostEntry))
  BY <1>1, <1>2
<1>4. <<>> \in Seq(HostEntry)
  OBVIOUS
<1> HIDE DEF p
<1>5. FlattenSeq(p) \in Seq(HostEntry)
  BY <1>3, <1>4, FlattenAppend
<1> QED
  BY <1>5 DEF Adds, p

LEMMA AddsNothing == Adds(<<>>) = <<>>
<1> DEFINE s == <<>>
<1>1. [k \in DOMAIN s |-> LineEntries(s[k])] = <<>>
  OBVIOUS
<1>2. FlattenSeq(<<>>) = <<>>
  BY DEF FlattenSeq
<1> QED
  BY <1>1, <1>2 DEF Adds

\* The entries of the configuration that parse.
Parsed == {e \in ToSet(Inline) : e.ip \in Ips}

InlineEntry == [domain : String, ip : STRING]

LEMMA ConfiguredIs == Configured = Among(Inline, Parsed) /\ Configured \in Seq(HostEntry)
<1>1. Inline \in Seq(InlineEntry)
  BY HostsAssumption DEF InlineEntry
<1>2. \A k \in DOMAIN Inline : with_entry(Inline[k]) =
         IF Inline[k] \in Parsed THEN <<Inline[k]>> ELSE <<>>
  BY DEF with_entry, Parsed, ToSet
<1>3. Configured = Among(Inline, Parsed)
  BY <1>2 DEF Configured, Among
<1>4. InlineEntry \cap Parsed \subseteq HostEntry
  BY DEF InlineEntry, Parsed, HostEntry
<1>5. PICK c : c = Among(Inline, Parsed) /\ c \in Seq(InlineEntry \cap Parsed)
  BY <1>1, AmongType
<1>6. c \in Seq(HostEntry)
  BY <1>4, <1>5
<1> QED
  BY <1>3, <1>5, <1>6
-----------------------------------------------------------------------------
(* The rules *)

LEMMA RuleType ==
    ASSUME NEW rule \in Rules \cup {SuffixRule(s) : s \in BlockedSuffixes}
    PROVE  rule \in Seq(Token)
<1>1. Multi \in Token
  BY DEF Multi, Token
<1>2. ASSUME NEW s \in BlockedSuffixes PROVE SuffixRule(s) \in Seq(Token)
  <2>1. s \in Seq(Token)
    BY OverridesAssumption
  <2>2. PICK m \in Seq(Token) : m = <<Multi>>
    <3>1. <<Multi>> \in Seq(Token)
      BY <1>1
    <3> QED
      BY <3>1, Zenon
  <2>3. m \o s \in Seq(Token)
    BY <2>1, Cat
  <2> QED
    BY <2>2, <2>3 DEF SuffixRule
<1>3. Rules \subseteq Seq(Token)
  BY OverridesAssumption
<1> QED
  BY <1>2, <1>3

LEMMA PathType ==
    ASSUME NEW rule \in Seq(Token), rule # <<>>
    PROVE  Reverse(normalize_rule(rule)) \in Seq(Token) \ {<<>>}
<1>1. Multi \in Token
  BY DEF Multi, Token
<1>2. PICK r : r = normalize_rule(rule)
  OBVIOUS
<1>3. r \in Seq(Token) /\ r # <<>>
  <2>1. Append(rule, Multi) \in Seq(Token) /\ Append(rule, Multi) # <<>>
    BY <1>1
  <2>2. r = Append(rule, Multi) \/ r = rule
    BY <1>2 DEF normalize_rule
  <2> QED
    BY <2>1, <2>2
<1>4. PICK n \in Nat : n = Len(r) /\ n # 0 /\ \A k \in 1 .. n : r[k] \in Token
  BY <1>3
<1>5. \A k \in 1 .. n : r[n - k + 1] \in Token
  BY <1>4
<1>6. Reverse(r) = [k \in 1 .. n |-> r[n - k + 1]]
  BY <1>4 DEF Reverse
<1>7. [k \in 1 .. n |-> r[n - k + 1]] \in Seq(Token)
  BY <1>5
<1>8. DOMAIN Reverse(r) = 1 .. n /\ 1 \in 1 .. n
  BY <1>4, <1>6
<1>9. Reverse(r) # <<>>
  BY <1>8
<1> QED
  BY <1>2, <1>6, <1>7, <1>9
-----------------------------------------------------------------------------
(* The invariant *)

MatcherInv ==
    /\ block_matcher.rule_count = Cardinality(block_matcher.rules)
    /\ block_matcher.rules \subseteq Seq(Token) \ {<<>>} /\ IsFiniteSet(block_matcher.rules)
    /\ built \in BOOLEAN

\* The files: their times are in the past, and one that is missing has no lines.
DiskInv ==
    /\ disk \in [1 .. Files -> [mtime : 0 .. MaxEdits, lines : Contents \cup {<<>>}]]
    /\ \A i \in 1 .. Files : /\ file_mtimes[i] <= now /\ disk[i].mtime <= now
                             /\ disk[i].mtime = None => disk[i].lines = <<>>

\* A file of the time that was last seen is in the table, unless its lines are
\* about to be read, or could not be.
Current ==
    \A i \in 1 .. Files :
        disk[i].mtime = file_mtimes[i] /\ loading # <<"read", i>> /\ i \notin unread =>
            ToSet(FileEntries(i)) \subseteq ToSet(entries)

\* The entries of the configuration come first.
InlineFirst == \E rest \in Seq(HostEntry) : entries = Configured \o rest

HostsInv ==
    /\ HostsTypeOK
    /\ loading # Idle => loading[2] \in 1 .. Files
    /\ DiskInv /\ Current /\ InlineFirst

OverridesInv == MatcherInv /\ HostsInv

LEMMA ContentsType == Contents \subseteq Seq(Line) /\ <<>> \in Seq(Line)
<1>1. Contents \subseteq Seq(Line)
  BY HostsAssumption, Zenon DEF Line
<1>2. <<>> \in Seq(Line)
  OBVIOUS
<1> QED
  BY <1>1, <1>2

LEMMA FileIs ==
    ASSUME NEW i
    PROVE  FileEntries(i) = Adds(disk[i].lines)
BY DEF FileEntries, Adds

LEMMA FileType ==
    ASSUME DiskInv, NEW i \in 1 .. Files
    PROVE  FileEntries(i) \in Seq(HostEntry)
<1>1. disk[i].lines \in Seq(Line)
  BY ContentsType DEF DiskInv
<1> QED
  BY <1>1, AddsType, FileIs

LEMMA OverridesInit == Init => OverridesInv
<1> SUFFICES ASSUME Init PROVE OverridesInv
  OBVIOUS
<1> USE DEF Init
<1>1. MatcherInv
  BY FS_EmptySet DEF MatcherInv, EmptyMatcher, Matcher
<1>2. HostsTypeOK
  <2>1. entries \in Seq(HostEntry)
    BY ConfiguredIs DEF HostsInit
  <2>2. file_mtimes \in [1 .. Files -> 0 .. MaxEdits] /\ now \in 0 .. MaxEdits
    BY HostsAssumption DEF HostsInit, None
  <2>3. loading \in {"idle", "stat", "read"} \X (0 .. Files)
    BY HostsAssumption DEF HostsInit, Idle
  <2>4. unread \subseteq 1 .. Files
    BY DEF HostsInit
  <2> QED
    BY <2>1, <2>2, <2>3, <2>4 DEF HostsTypeOK
<1>3. loading # Idle => loading[2] \in 1 .. Files
  BY HostsAssumption DEF HostsInit, Idle
<1>4. DiskInv
  BY HostsAssumption DEF HostsInit, DiskInv, None
<1>5. Current
  BY HostsAssumption DEF HostsInit, Current, None
<1>6. InlineFirst
  <2>1. <<>> \in Seq(HostEntry)
    OBVIOUS
  <2>2. Configured \o <<>> = Configured
    BY ConfiguredIs, ConcatEmptySeq
  <2> QED
    BY <2>1, <2>2 DEF HostsInit, InlineFirst
<1> QED
  BY <1>1, <1>2, <1>3, <1>4, <1>5, <1>6 DEF OverridesInv, HostsInv

LEMMA AddRuleStep == OverridesInv /\ AddRule => OverridesInv'
<1> SUFFICES ASSUME OverridesInv, AddRule PROVE OverridesInv'
  OBVIOUS
<1>1. UNCHANGED <<entries, file_mtimes, loading, disk, now, unread, built>>
  BY DEF AddRule, hostsVars
<1>2. HostsInv'
  BY <1>1 DEF OverridesInv, HostsInv, HostsTypeOK, DiskInv, Current, InlineFirst, FileEntries
<1>3. PICK rule \in Rules \cup {SuffixRule(s) : s \in BlockedSuffixes} :
        block_matcher' = add_pattern(block_matcher, rule)
  BY DEF AddRule
<1>4. rule \in Seq(Token)
  BY RuleType
<1>5. PICK path : path = Reverse(normalize_rule(rule))
  OBVIOUS
<1>6. CASE rule = <<>> \/ path \in block_matcher.rules
  <2>1. block_matcher' = block_matcher
    BY <1>3, <1>5, <1>6 DEF add_pattern
  <2> QED
    BY <1>1, <1>2, <2>1 DEF OverridesInv, MatcherInv
<1>7. CASE ~(rule = <<>> \/ path \in block_matcher.rules)
  <2>1. block_matcher' = Matcher(block_matcher.rules \cup {path}, block_matcher.rule_count + 1)
    BY <1>3, <1>5, <1>7 DEF add_pattern
  <2>2. path \in Seq(Token) \ {<<>>}
    BY <1>4, <1>5, <1>7, PathType
  <2>3. PICK R : R = block_matcher.rules /\ IsFiniteSet(R) /\ path \notin R
                 /\ block_matcher.rule_count = Cardinality(R) /\ R \subseteq Seq(Token) \ {<<>>}
    BY <1>7 DEF OverridesInv, MatcherInv
  <2>4. IsFiniteSet(R \cup {path}) /\ Cardinality(R \cup {path}) = Cardinality(R) + 1
    BY <2>3, FS_AddElement
  <2>5. block_matcher'.rules = R \cup {path} /\ block_matcher'.rule_count = Cardinality(R) + 1
    BY <2>1, <2>3 DEF Matcher
  <2>6. built' \in BOOLEAN
    BY <1>1 DEF OverridesInv, MatcherInv
  <2> QED
    BY <1>2, <2>2, <2>3, <2>4, <2>5, <2>6 DEF OverridesInv, MatcherInv
<1> QED
  BY <1>6, <1>7

LEMMA ReloadStep == HostsInv /\ ReloadIfChanged => HostsInv'
<1> SUFFICES ASSUME HostsInv, ReloadIfChanged PROVE HostsInv'
  OBVIOUS
<1>1. /\ UNCHANGED <<entries, file_mtimes, disk, now, unread>>
      /\ loading = <<"idle", 0>> /\ loading' = <<"stat", 1>>
  BY DEF ReloadIfChanged, Idle
<1>2. 1 \in 1 .. Files /\ 1 \in 0 .. Files
  BY HostsAssumption DEF ReloadIfChanged, has_file_changes
<1>3. HostsTypeOK'
  BY <1>1, <1>2 DEF HostsInv, HostsTypeOK
<1>4. loading'[2] \in 1 .. Files
  BY <1>1, <1>2
<1>5. DiskInv' /\ InlineFirst'
  BY <1>1 DEF HostsInv, DiskInv, InlineFirst
<1>6. Current'
  <2>1. \A i : loading # <<"read", i>>
    BY <1>1
  <2>2. \A i : FileEntries(i)' = FileEntries(i)
    BY <1>1 DEF FileEntries
  <2> QED
    BY <1>1, <2>1, <2>2 DEF HostsInv, Current
<1> QED
  BY <1>3, <1>4, <1>5, <1>6 DEF HostsInv

LEMMA StatStep == ASSUME NEW i \in 1 .. Files, HostsInv, Stat(i) PROVE HostsInv'
<1>1. /\ UNCHANGED <<entries, disk, now, unread>>
      /\ loading = <<"stat", i>> /\ loading' = <<"read", i>>
      /\ file_mtimes' = [file_mtimes EXCEPT ![i] = disk[i].mtime]
  BY DEF Stat
<1>2. i \in 0 .. Files /\ file_mtimes \in [1 .. Files -> 0 .. MaxEdits]
      /\ disk[i].mtime \in 0 .. MaxEdits /\ disk[i].mtime <= now
  BY HostsAssumption DEF HostsInv, HostsTypeOK, DiskInv
<1>3. /\ file_mtimes' \in [1 .. Files -> 0 .. MaxEdits]
      /\ \A j \in 1 .. Files : file_mtimes'[j] = IF j = i THEN disk[i].mtime ELSE file_mtimes[j]
  BY <1>1, <1>2
<1>4. HostsTypeOK'
  BY <1>1, <1>2, <1>3 DEF HostsInv, HostsTypeOK
<1>5. DiskInv' /\ InlineFirst'
  BY <1>1, <1>2, <1>3 DEF HostsInv, DiskInv, InlineFirst
<1>6. Current'
  <2> SUFFICES ASSUME NEW j \in 1 .. Files, disk'[j].mtime = file_mtimes'[j],
                      loading' # <<"read", j>>, j \notin unread'
               PROVE  ToSet(FileEntries(j)') \subseteq ToSet(entries')
    BY DEF Current
  <2>1. j # i /\ loading # <<"read", j>>
    BY <1>1
  <2>2. FileEntries(j)' = FileEntries(j)
    BY <1>1 DEF FileEntries
  <2> QED
    BY <1>1, <1>3, <2>1, <2>2 DEF HostsInv, Current
<1> QED
  BY <1>1, <1>4, <1>5, <1>6 DEF HostsInv

LEMMA ReadStep == ASSUME NEW i \in 1 .. Files, HostsInv, ReadLines(i) PROVE HostsInv'
<1>1. /\ UNCHANGED <<file_mtimes, disk, now>> /\ loading = <<"read", i>>
      /\ loading' = IF i = Files THEN Idle ELSE <<"stat", i + 1>>
      /\ entries' = entries \o FileEntries(i) /\ unread' = unread \ {i}
  BY DEF ReadLines
<1>2. /\ FileEntries(i) \in Seq(HostEntry) /\ entries \in Seq(HostEntry)
  BY FileType DEF HostsInv, HostsTypeOK
<1>3. /\ entries' \in Seq(HostEntry)
      /\ ToSet(entries) \subseteq ToSet(entries') /\ ToSet(FileEntries(i)) \subseteq ToSet(entries')
  BY <1>1, <1>2, Cat, ToSetCat
<1>4. /\ loading' \in {"idle", "stat", "read"} \X (0 .. Files)
      /\ loading' # Idle => loading'[2] \in 1 .. Files
  BY <1>1, HostsAssumption DEF Idle
<1>5. HostsTypeOK'
  BY <1>1, <1>3, <1>4 DEF HostsInv, HostsTypeOK
<1>6. DiskInv'
  BY <1>1 DEF HostsInv, DiskInv
<1>7. InlineFirst'
  <2>1. PICK rest \in Seq(HostEntry) : entries = Configured \o rest
    BY DEF HostsInv, InlineFirst
  <2>2. PICK f \in Seq(HostEntry) : f = FileEntries(i)
    BY <1>2
  <2>3. entries' = Configured \o (rest \o f)
    <3>1. PICK c \in Seq(HostEntry) : c = Configured
      BY ConfiguredIs
    <3>2. Join(Join(c, rest), f) = Join(c, Join(rest, f))
      BY Assoc
    <3>3. (c \o rest) \o f = c \o (rest \o f)
      BY <3>2, Zenon DEF Join
    <3>4. entries' = (c \o rest) \o f
      BY <1>1, <2>1, <2>2, <3>1
    <3> QED
      BY <3>1, <3>3, <3>4
  <2>4. rest \o f \in Seq(HostEntry)
    BY Cat
  <2> QED
    BY <2>3, <2>4 DEF InlineFirst
<1>8. Current'
  <2> SUFFICES ASSUME NEW j \in 1 .. Files, disk'[j].mtime = file_mtimes'[j], j \notin unread'
               PROVE  ToSet(FileEntries(j)') \subseteq ToSet(entries')
    BY DEF Current
  <2>1. FileEntries(j)' = FileEntries(j)
    BY <1>1 DEF FileEntries
  <2>2. CASE j = i
    BY <1>3, <2>1, <2>2
  <2>3. CASE j # i
    <3>1. loading # <<"read", j>> /\ j \notin unread
      BY <1>1, <2>3
    <3>2. ToSet(FileEntries(j)) \subseteq ToSet(entries)
      BY <1>1, <3>1 DEF HostsInv, Current
    <3> QED
      BY <1>3, <2>1, <3>2
  <2> QED
    BY <2>2, <2>3
<1> QED
  BY <1>4, <1>5, <1>6, <1>7, <1>8 DEF HostsInv

LEMMA FailStep == ASSUME NEW i \in 1 .. Files, HostsInv, ReadFails(i) PROVE HostsInv'
<1>1. /\ UNCHANGED <<entries, file_mtimes, disk, now>> /\ loading = <<"read", i>>
      /\ loading' = IF i = Files THEN Idle ELSE <<"stat", i + 1>>
      /\ unread' = unread \cup {i}
  BY DEF ReadFails
<1>2. /\ loading' \in {"idle", "stat", "read"} \X (0 .. Files)
      /\ loading' # Idle => loading'[2] \in 1 .. Files
  BY <1>1, HostsAssumption DEF Idle
<1>3. HostsTypeOK'
  BY <1>1, <1>2 DEF HostsInv, HostsTypeOK
<1>4. DiskInv' /\ InlineFirst'
  BY <1>1 DEF HostsInv, DiskInv, InlineFirst
<1>5. Current'
  <2> SUFFICES ASSUME NEW j \in 1 .. Files, disk'[j].mtime = file_mtimes'[j], j \notin unread'
               PROVE  ToSet(FileEntries(j)') \subseteq ToSet(entries')
    BY DEF Current
  <2>1. FileEntries(j)' = FileEntries(j)
    BY <1>1 DEF FileEntries
  <2>2. loading # <<"read", j>> /\ j \notin unread
    BY <1>1
  <2> QED
    BY <1>1, <2>1, <2>2 DEF HostsInv, Current
<1> QED
  BY <1>2, <1>3, <1>4, <1>5 DEF HostsInv

LEMMA EditStep == ASSUME NEW i \in 1 .. Files, HostsInv, EditFile(i) PROVE HostsInv'
<1>1. /\ UNCHANGED <<entries, file_mtimes, loading, unread>> /\ now < MaxEdits /\ now' = now + 1
      /\ now \in 0 .. MaxEdits /\ now' \in 0 .. MaxEdits
      /\ file_mtimes \in [1 .. Files -> 0 .. MaxEdits] /\ file_mtimes[i] <= now
  BY HostsAssumption DEF EditFile, HostsInv, HostsTypeOK, DiskInv
<1>2. PICK file : /\ disk' = [disk EXCEPT ![i] = file]
                  /\ \/ file = Missing
                     \/ \E lines \in Contents : file = [mtime |-> now', lines |-> lines]
  BY DEF EditFile
<1>3. /\ file \in [mtime : 0 .. MaxEdits, lines : Contents \cup {<<>>}] /\ file.mtime <= now'
      /\ file.mtime = None => file.lines = <<>>
  <2>1. CASE file = Missing
    BY <1>1, <2>1, HostsAssumption DEF Missing, None
  <2>2. CASE \E lines \in Contents : file = [mtime |-> now', lines |-> lines]
    BY <1>1, <2>2 DEF None
  <2> QED
    BY <1>2, <2>1, <2>2
<1>4. /\ disk \in [1 .. Files -> [mtime : 0 .. MaxEdits, lines : Contents \cup {<<>>}]]
      /\ disk' \in [1 .. Files -> [mtime : 0 .. MaxEdits, lines : Contents \cup {<<>>}]]
      /\ \A j \in 1 .. Files : disk'[j] = IF j = i THEN file ELSE disk[j]
  BY <1>2, <1>3 DEF HostsInv, DiskInv
<1>5. HostsTypeOK' /\ InlineFirst' /\ (loading' # Idle => loading'[2] \in 1 .. Files)
  BY <1>1 DEF HostsInv, HostsTypeOK, InlineFirst
<1>6. DiskInv'
  <2>1. ASSUME NEW j \in 1 .. Files
        PROVE  /\ file_mtimes'[j] <= now' /\ disk'[j].mtime <= now'
               /\ disk'[j].mtime = None => disk'[j].lines = <<>>
    <3>1. /\ file_mtimes[j] <= now /\ disk[j].mtime <= now /\ disk[j].mtime \in 0 .. MaxEdits
          /\ file_mtimes[j] \in 0 .. MaxEdits
          /\ disk[j].mtime = None => disk[j].lines = <<>>
      BY <1>1, <1>4 DEF HostsInv, DiskInv
    <3>2. file_mtimes'[j] <= now' /\ disk[j].mtime <= now'
      BY <1>1, <3>1
    <3> QED
      BY <1>3, <1>4, <3>1, <3>2
  <2> QED
    BY <1>4, <2>1 DEF DiskInv
<1>7. Current'
  <2> SUFFICES ASSUME NEW j \in 1 .. Files, disk'[j].mtime = file_mtimes'[j],
                      loading' # <<"read", j>>, j \notin unread'
               PROVE  ToSet(FileEntries(j)') \subseteq ToSet(entries')
    BY DEF Current
  <2>0. FileEntries(j)' = Adds(disk'[j].lines) /\ FileEntries(j) = Adds(disk[j].lines)
    BY DEF FileEntries, Adds
  <2>1. CASE j # i
    BY <1>1, <1>4, <2>0, <2>1 DEF HostsInv, Current
  <2>2. CASE j = i
    <3>1. file.mtime # now'
      BY <1>1, <1>3, <1>4, <2>2
    <3>2. file = Missing
      BY <1>2, <3>1
    <3>3. disk'[j].lines = <<>>
      BY <1>4, <2>2, <3>2 DEF Missing
    <3>4. ToSet(<<>>) = {}
      BY DEF ToSet
    <3> QED
      BY <2>0, <3>3, <3>4, AddsNothing
  <2> QED
    BY <2>1, <2>2
<1> QED
  BY <1>5, <1>6, <1>7 DEF HostsInv

LEMMA OverridesStep == OverridesInv /\ [Next]_vars => OverridesInv'
<1> SUFFICES ASSUME OverridesInv, [Next]_vars PROVE OverridesInv'
  OBVIOUS
<1>1. CASE AddRule
  BY <1>1, AddRuleStep
<1>2. CASE Built
  <2>1. UNCHANGED <<entries, file_mtimes, loading, disk, now, unread, block_matcher>> /\ built' = TRUE
    BY <1>2 DEF Built, hostsVars
  <2>2. HostsInv'
    BY <2>1 DEF OverridesInv, HostsInv, HostsTypeOK, DiskInv, Current, InlineFirst, FileEntries
  <2> QED
    BY <2>1, <2>2 DEF OverridesInv, MatcherInv
<1>3. CASE Serving
  <2>1. HostsNext /\ UNCHANGED <<block_matcher, built>>
    BY <1>3 DEF Serving
  <2>2. HostsInv'
    BY <2>1, ReloadStep, StatStep, ReadStep, FailStep, EditStep DEF HostsNext, OverridesInv
  <2> QED
    BY <2>1, <2>2 DEF OverridesInv, MatcherInv
<1>4. CASE UNCHANGED vars
  BY <1>4 DEF vars, OverridesInv, MatcherInv, HostsInv, HostsTypeOK, DiskInv, Current,
              InlineFirst, FileEntries
<1> QED
  BY <1>1, <1>2, <1>3, <1>4 DEF Next

LEMMA OverridesAlways == Spec => []OverridesInv
BY OverridesInit, OverridesStep, PTL DEF Spec

\* For every configuration, the table and the rules have their types: a rule is
\* never empty and is counted once.
THEOREM OverridesTypeCorrect == Spec => []TypeOK
<1>1. OverridesInv => TypeOK
  BY DEF OverridesInv, MatcherInv, HostsInv, TypeOK
<1> QED
  BY <1>1, OverridesAlways, PTL

\* For any number of files and edits, a table that has_file_changes lets stand
\* has every line of every file that could be read the last time.
THEOREM ReadFilesAreCurrentHolds == Spec => []ReadFilesAreCurrent
<1>1. OverridesInv => ReadFilesAreCurrent
  BY DEF OverridesInv, HostsInv, Current, ReadFilesAreCurrent, has_file_changes, Idle
<1> QED
  BY <1>1, OverridesAlways, PTL

Family(qtype) == IF qtype = "A" THEN IPv4 ELSE IPv6

\* The entries that answer a question, whether they are in the table or not.
Answering(name, qtype) ==
    {e \in HostEntry : e.domain = [name |-> name, dot |-> FALSE] /\ e.ip \in Family(qtype)}

LEMMA MatchIs ==
    ASSUME NEW name, NEW qtype \in Qtypes, entries \in Seq(HostEntry)
    PROVE  match_domain([name |-> name, dot |-> TRUE], qtype)
             = Among(entries, IF qtype = "HTTPS" THEN {} ELSE Answering(name, qtype))
<1> DEFINE n == [name |-> name, dot |-> TRUE]
           S == {e \in ToSet(entries) :
                      /\ e.domain = strip_dot(n)
                      /\ \/ qtype = "A" /\ e.ip \in IPv4
                         \/ qtype = "AAAA" /\ e.ip \in IPv6}
           T == IF qtype = "HTTPS" THEN {} ELSE Answering(name, qtype)
<1>1. strip_dot(n) = [name |-> name, dot |-> FALSE]
  <2>1. \A b, c : [[name |-> name, dot |-> b] EXCEPT !.dot = c] = [name |-> name, dot |-> c]
    OBVIOUS
  <2> QED
    BY <2>1, Zenon DEF strip_dot
<1>2. ToSet(entries) \subseteq HostEntry
  BY DEF ToSet
<1>3. ASSUME NEW x \in ToSet(entries) PROVE x \in S <=> x \in T
  <2>1. CASE qtype = "A"
    BY <1>1, <1>2, <2>1 DEF Answering, Family
  <2>2. CASE qtype = "AAAA"
    BY <1>1, <1>2, <2>2 DEF Answering, Family
  <2>3. CASE qtype = "HTTPS"
    BY <2>3
  <2> QED
    BY <2>1, <2>2, <2>3 DEF Qtypes
<1>4. match_domain(n, qtype) = Among(entries, S)
  BY DEF match_domain
<1> HIDE DEF S, T
<1>5. Among(entries, S) = Among(entries, T)
  BY <1>3, AmongLocal
<1> QED
  BY <1>4, <1>5 DEF T

\* For every table and every list of rules, a record has the type that was asked
\* for and an address of its family.
THEOREM RecordsFitTheirTypeHolds == Spec => []RecordsFitTheirType
<1>1. ASSUME entries \in Seq(HostEntry), NEW name \in Names, NEW qtype \in Qtypes
      PROVE  LET records == Override(name, qtype).records
             IN  \A k \in DOMAIN records :
                     records[k].type = qtype /\ records[k].ip \in Family(qtype)
  <2>1. PICK hosts : hosts = match_domain([name |-> name, dot |-> TRUE], qtype)
    OBVIOUS
  <2>2. PICK T : T = IF qtype = "HTTPS" THEN {} ELSE Answering(name, qtype)
    OBVIOUS
  <2>3. hosts \in Seq(HostEntry \cap T)
    BY <1>1, <2>1, <2>2, MatchIs, AmongType
  <2>4. \A k \in DOMAIN hosts : hosts[k].ip \in Family(qtype)
    <3>1. \A k \in DOMAIN hosts : hosts[k] \in T
      BY <2>3
    <3>2. \A e \in T : e.ip \in Family(qtype)
      BY <2>2 DEF Answering
    <3> QED
      BY <3>1, <3>2
  <2>5. PICK r : r = Override(name, qtype).records
    OBVIOUS
  <2> SUFFICES \A k \in DOMAIN r : r[k].type = qtype /\ r[k].ip \in Family(qtype)
    BY <2>5
  <2>6. CASE hosts # <<>>
    <3>1. r = [k \in DOMAIN hosts |-> Record(qtype, hosts[k].ip)]
      BY <2>1, <2>5, <2>6 DEF Override
    <3> QED
      BY <2>4, <3>1 DEF Record
  <2>7. CASE hosts = <<>>
    <3>1. r = build_block_response(qtype) \/ r = <<>>
      BY <2>1, <2>5, <2>7 DEF Override
    <3>2. \/ r = <<>>
          \/ qtype = "A" /\ r = <<Record("A", BlackholeV4)>>
          \/ qtype = "AAAA" /\ r = <<Record("AAAA", BlackholeV6)>>
      BY <3>1 DEF build_block_response
    <3> QED
      BY <3>2, OverridesAssumption DEF Record, Family
  <2> QED
    BY <2>6, <2>7
<1>2. OverridesInv => RecordsFitTheirType
  BY <1>1 DEF OverridesInv, HostsInv, HostsTypeOK, RecordsFitTheirType, Family
<1> QED
  BY <1>2, OverridesAlways, PTL

LEMMA RecordsPrefix ==
    ASSUME NEW a \in Seq(HostEntry), NEW b \in Seq(HostEntry), NEW c, c = a \o b,
           NEW qtype
    PROVE  IsPrefix([k \in DOMAIN a |-> Record(qtype, a[k].ip)],
                    [k \in DOMAIN c |-> Record(qtype, c[k].ip)])
<1> DEFINE R == [type : {qtype}, ip : Ips]
           p == [k \in DOMAIN a |-> Record(qtype, a[k].ip)]
           q == [k \in DOMAIN c |-> Record(qtype, c[k].ip)]
<1>0. \A e \in HostEntry : Record(qtype, e.ip) \in R
  BY DEF HostEntry, Record
<1> HIDE DEF R
<1>1. /\ c \in Seq(HostEntry) /\ Len(c) = Len(a) + Len(b) /\ \A i \in 1 .. Len(a) : c[i] = a[i]
  BY Cat
<1>1a. PICK m, n : m = Len(a) /\ n = Len(c)
  OBVIOUS
<1>2. /\ m \in Nat /\ n \in Nat /\ m <= n /\ DOMAIN a = 1 .. m /\ DOMAIN c = 1 .. n
      /\ \A i \in 1 .. m : a[i] \in HostEntry /\ c[i] = a[i]
      /\ \A i \in 1 .. n : c[i] \in HostEntry
  BY <1>1, <1>1a
<1>3. p \in Seq(R) /\ Len(p) = m /\ \A i \in 1 .. m : p[i] = Record(qtype, a[i].ip)
  <2>1. \A i \in 1 .. m : Record(qtype, a[i].ip) \in R
    BY <1>0, <1>2
  <2> QED
    BY <1>2, <2>1
<1>4. q \in Seq(R) /\ Len(q) = n /\ \A i \in 1 .. n : q[i] = Record(qtype, c[i].ip)
  <2>1. \A i \in 1 .. n : Record(qtype, c[i].ip) \in R
    BY <1>0, <1>2
  <2> QED
    BY <1>2, <2>1
<1> HIDE DEF p, q
<1>5. \A i \in 1 .. m : p[i] = q[i]
  BY <1>2, <1>3, <1>4
<1>6. IsPrefix(p, q)
  BY <1>2, <1>3, <1>4, <1>5, PrefixIs
<1> QED
  BY <1>6 DEF p, q

\* For every configuration and however often the files are reloaded, inline
\* entries answer, and before those of the files.
THEOREM InlineEntriesKeptHolds == Spec => []InlineEntriesKept
<1>1. ASSUME entries \in Seq(HostEntry), InlineFirst, NEW name \in Names,
             NEW qtype \in {"A", "AAAA"}, NEW inline, inline # <<>>,
             inline = Among(Inline, {e \in ToSet(Inline) :
                          /\ e.domain = [name |-> name, dot |-> FALSE]
                          /\ e.ip \in Family(qtype)})
      PROVE  /\ Override(name, qtype).source = "hosts"
             /\ IsPrefix([k \in DOMAIN inline |-> Record(qtype, inline[k].ip)],
                         Override(name, qtype).records)
  <2>1. PICK hosts : hosts = match_domain([name |-> name, dot |-> TRUE], qtype)
    OBVIOUS
  <2>2. PICK T : T = Answering(name, qtype)
    OBVIOUS
  <2>3. hosts = Among(entries, T)
    BY <1>1, <2>1, <2>2, MatchIs DEF Qtypes
  <2>4. PICK rest \in Seq(HostEntry) : entries = Configured \o rest
    BY <1>1 DEF InlineFirst
  <2>5. PICK a \in Seq(HostEntry), b \in Seq(HostEntry) :
          a = Among(Configured, T) /\ b = Among(rest, T)
    BY <2>4, ConfiguredIs, AmongType
  <2>6. hosts = a \o b
    <3>1. PICK c \in Seq(HostEntry) : c = Configured
      BY ConfiguredIs
    <3>2. Splits(c, rest, T)
      BY AmongCat
    <3> QED
      BY <2>3, <2>4, <2>5, <3>1, <3>2 DEF Splits
  <2>7. a = inline
    <3>0. Inline \in Seq(InlineEntry)
      BY HostsAssumption DEF InlineEntry
    <3>1. a = Among(Inline, Parsed \cap T)
      BY <3>0, <2>5, ConfiguredIs, AmongAmong
    <3>2. PICK I : I = {e \in ToSet(Inline) : /\ e.domain = [name |-> name, dot |-> FALSE]
                                              /\ e.ip \in Family(qtype)}
      OBVIOUS
    <3>3. ToSet(Inline) \subseteq InlineEntry
      BY <3>0 DEF ToSet
    <3>4. Family(qtype) \subseteq Ips
      BY DEF Family, Ips
    <3>5. \A x \in ToSet(Inline) : x \in Parsed \cap T <=> x \in I
      BY <2>2, <3>2, <3>3, <3>4 DEF Parsed, Answering, InlineEntry, HostEntry
    <3>6. Among(Inline, Parsed \cap T) = Among(Inline, I)
      BY <3>0, <3>5, AmongLocal
    <3> QED
      BY <1>1, <3>1, <3>2, <3>6
  <2>8. hosts # <<>>
    <3>1. Len(hosts) = Len(a) + Len(b) /\ Len(a) \in Nat /\ Len(b) \in Nat /\ Len(a) # 0
      BY <1>1, <2>6, <2>7, Cat
    <3> QED
      BY <3>1
  <2>9. Override(name, qtype) =
          [source |-> "hosts", records |-> [k \in DOMAIN hosts |-> Record(qtype, hosts[k].ip)]]
    BY <2>1, <2>8 DEF Override
  <2>10. IsPrefix([k \in DOMAIN a |-> Record(qtype, a[k].ip)],
                  [k \in DOMAIN hosts |-> Record(qtype, hosts[k].ip)])
    BY <2>6, RecordsPrefix
  <2> QED
    BY <2>7, <2>9, <2>10
<1>2. OverridesInv => InlineEntriesKept
  BY <1>1 DEF OverridesInv, HostsInv, HostsTypeOK, InlineEntriesKept, Family
<1> QED
  BY <1>2, OverridesAlways, PTL
-----------------------------------------------------------------------------
(* match_node: the pairs of a node and an index that it is true of, as the *)
(* least set that asks for itself.  No induction is needed for that one.   *)

ChildrenOf(rules, node) ==
    {m \in Nodes(rules) : m # <<>> /\ Front(m) = node /\ Last(m) # Multi}

Places(rules, labels) == Nodes(rules) \X (0 .. Len(labels))

\* What match_node asks of a node and an index, when T is where it is true.
Leads(T, rules, labels, node, index) ==
    \/ Accepts(rules, node, index = Len(labels))
    \/ Append(node, Multi) \in Nodes(rules) /\ <<Append(node, Multi), index>> \in T
    \/ /\ index < Len(labels)
       /\ \/ \E child \in ChildrenOf(rules, node) :
                /\ label_matches_glob(Last(child), labels[index + 1])
                /\ (is_multi(node) /\ child \in rules) \/ <<child, index + 1>> \in T
          \/ is_multi(node) /\ <<node, index + 1>> \in T
          \/ Append(node, Multi) \in Nodes(rules) /\ <<Append(node, Multi), index + 1>> \in T

Solves(T, rules, labels) ==
    /\ T \in SUBSET Places(rules, labels)
    /\ \A node \in Nodes(rules), index \in 0 .. Len(labels) :
          <<node, index>> \in T <=> Leads(T, rules, labels, node, index)

LEMMA LeadsMonotone ==
    ASSUME NEW rules, NEW labels, NEW node, NEW index, NEW S, NEW T, S \subseteq T,
           Leads(S, rules, labels, node, index)
    PROVE  Leads(T, rules, labels, node, index)
<1> DEFINE Good(child) == label_matches_glob(Last(child), labels[index + 1])
           Stop(child) == is_multi(node) /\ child \in rules
           m == Append(node, Multi)
<1>1. CASE Accepts(rules, node, index = Len(labels))
  BY <1>1 DEF Leads
<1>2. CASE m \in Nodes(rules) /\ <<m, index>> \in S
  BY <1>2 DEF Leads
<1>3. CASE index < Len(labels) /\ \E child \in ChildrenOf(rules, node) :
              Good(child) /\ (Stop(child) \/ <<child, index + 1>> \in S)
  <2>1. \E child \in ChildrenOf(rules, node) :
              Good(child) /\ (Stop(child) \/ <<child, index + 1>> \in T)
    <3> HIDE DEF Good, Stop
    <3> QED
      BY <1>3
  <2> QED
    BY <1>3, <2>1 DEF Leads
<1>4. CASE index < Len(labels) /\ is_multi(node) /\ <<node, index + 1>> \in S
  BY <1>4 DEF Leads
<1>5. CASE index < Len(labels) /\ m \in Nodes(rules) /\ <<m, index + 1>> \in S
  BY <1>5 DEF Leads
<1> QED
  BY <1>1, <1>2, <1>3, <1>4, <1>5 DEF Leads

\* The least set that holds what it asks for: the walk has a solution.
LEMMA SolutionExists ==
    ASSUME NEW rules, NEW labels
    PROVE  \E T : Solves(T, rules, labels)
<1> DEFINE N == Nodes(rules)
           I == 0 .. Len(labels)
           Closed(S) == \A node \in N, index \in I :
                          Leads(S, rules, labels, node, index) => <<node, index>> \in S
           T == {p \in N \X I : \A S \in SUBSET (N \X I) : Closed(S) => p \in S}
<1>1. \A S \in SUBSET (N \X I) : Closed(S) => T \subseteq S
  OBVIOUS
<1>2. ASSUME NEW node \in N, NEW index \in I, Leads(T, rules, labels, node, index)
      PROVE  <<node, index>> \in T
  <2>1. ASSUME NEW S \in SUBSET (N \X I), Closed(S) PROVE <<node, index>> \in S
    <3>1. T \subseteq S
      BY <1>1, <2>1
    <3>2. Leads(S, rules, labels, node, index)
      BY <3>1, <1>2, LeadsMonotone
    <3> QED
      BY <2>1, <3>2
  <2> HIDE DEF N, I, Closed
  <2> QED
    BY <2>1
<1>3. ASSUME NEW node \in N, NEW index \in I, <<node, index>> \in T
      PROVE  Leads(T, rules, labels, node, index)
  <2> DEFINE U == {p \in T : Leads(T, rules, labels, p[1], p[2])}
  <2>1. U \in SUBSET (N \X I) /\ U \subseteq T
    BY Zenon
  <2>2. ASSUME NEW n \in N, NEW i \in I, Leads(U, rules, labels, n, i) PROVE <<n, i>> \in U
    <3>1. Leads(T, rules, labels, n, i)
      BY <2>1, <2>2, LeadsMonotone
    <3>2. <<n, i>> \in T
      BY <1>2, <3>1
    <3>3. <<n, i>>[1] = n /\ <<n, i>>[2] = i
      OBVIOUS
    <3> HIDE DEF T
    <3> QED
      BY <3>1, <3>2, <3>3
  <2>3. Closed(U)
    BY <2>2
  <2>4. T \subseteq U
    BY <1>1, <2>1, <2>3
  <2> HIDE DEF T
  <2>5. <<node, index>> \in U
    BY <1>3, <2>4
  <2>6. <<node, index>>[1] = node /\ <<node, index>>[2] = index
    OBVIOUS
  <2> QED
    BY <2>5, <2>6
<1>4. T \in SUBSET Places(rules, labels)
  BY DEF Places
<1> HIDE DEF T
<1> QED
  BY <1>2, <1>3, <1>4 DEF Solves

LEMMA MatchSolves ==
    ASSUME NEW rules, NEW labels, Len(labels) \in Nat
    PROVE  \E T : Solves(T, rules, labels) /\ (match_node(rules, labels) <=> <<<<>>, 0>> \in T)
<1> DEFINE D == Nodes(rules) \X (0 .. Len(labels))
           Body(M, at) ==
                \/ Accepts(rules, at[1], at[2] = Len(labels))
                \/ Append(at[1], Multi) \in Nodes(rules) /\ M[<<Append(at[1], Multi), at[2]>>]
                \/ /\ at[2] < Len(labels)
                   /\ \/ \E child \in ChildrenOf(rules, at[1]) :
                            /\ label_matches_glob(Last(child), labels[at[2] + 1])
                            /\ (is_multi(at[1]) /\ child \in rules) \/ M[<<child, at[2] + 1>>]
                      \/ is_multi(at[1]) /\ M[<<at[1], at[2] + 1>>]
                      \/ Append(at[1], Multi) \in Nodes(rules) /\ M[<<Append(at[1], Multi), at[2] + 1>>]
           Match == CHOOSE M : M = [at \in D |-> Body(M, at)]
<1>0. <<<<>>, 0>> \in D
  BY DEF Nodes
<1>1. match_node(rules, labels) = Match[<<<<>>, 0>>]
  BY DEF match_node, ChildrenOf
<1>2. ASSUME NEW M, NEW T, T \subseteq D, \A p \in D : M[p] <=> p \in T,
             NEW node \in Nodes(rules), NEW index \in 0 .. Len(labels)
      PROVE  Body(M, <<node, index>>) <=> Leads(T, rules, labels, node, index)
  <2> DEFINE m == Append(node, Multi)
             L(c) == label_matches_glob(Last(c), labels[index + 1])
  <2>1. \A c \in Nodes(rules) : M[<<c, index>>] <=> <<c, index>> \in T
    BY <1>2
  <2>2. index < Len(labels) => index + 1 \in 0 .. Len(labels)
    OBVIOUS
  <2>3. index < Len(labels) => \A c \in Nodes(rules) : M[<<c, index + 1>>] <=> <<c, index + 1>> \in T
    BY <1>2, <2>2
  <2>4. ChildrenOf(rules, node) \subseteq Nodes(rules)
    BY DEF ChildrenOf
  <2>5. Body(M, <<node, index>>) <=>
                \/ Accepts(rules, node, index = Len(labels))
                \/ m \in Nodes(rules) /\ M[<<m, index>>]
                \/ /\ index < Len(labels)
                   /\ \/ \E child \in ChildrenOf(rules, node) :
                            /\ L(child)
                            /\ (is_multi(node) /\ child \in rules) \/ M[<<child, index + 1>>]
                      \/ is_multi(node) /\ M[<<node, index + 1>>]
                      \/ m \in Nodes(rules) /\ M[<<m, index + 1>>]
    OBVIOUS
  <2>6. Leads(T, rules, labels, node, index) <=>
                \/ Accepts(rules, node, index = Len(labels))
                \/ m \in Nodes(rules) /\ <<m, index>> \in T
                \/ /\ index < Len(labels)
                   /\ \/ \E child \in ChildrenOf(rules, node) :
                            /\ L(child)
                            /\ (is_multi(node) /\ child \in rules) \/ <<child, index + 1>> \in T
                      \/ is_multi(node) /\ <<node, index + 1>> \in T
                      \/ m \in Nodes(rules) /\ <<m, index + 1>> \in T
    BY DEF Leads
  <2> HIDE DEF Body, L, m, D
  <2> QED
    BY <2>1, <2>3, <2>4, <2>5, <2>6
<1>3. \E M : M = [at \in D |-> Body(M, at)]
  <2>1. PICK T : Solves(T, rules, labels)
    BY SolutionExists
  <2> DEFINE M == [p \in D |-> p \in T]
  <2>2. T \subseteq D /\ \A p \in D : M[p] <=> p \in T
    BY <2>1 DEF Solves, Places
  <2>3. ASSUME NEW p \in D PROVE M[p] = Body(M, p)
    <3>1. PICK node \in Nodes(rules), index \in 0 .. Len(labels) : p = <<node, index>>
      OBVIOUS
    <3> HIDE DEF M, Body
    <3>2. Body(M, <<node, index>>) <=> Leads(T, rules, labels, node, index)
      BY <1>2, <2>2
    <3>3. p \in T <=> Leads(T, rules, labels, node, index)
      BY <2>1, <3>1 DEF Solves
    <3>4. M[p] <=> Body(M, p)
      BY <2>2, <3>1, <3>2, <3>3
    <3>5. Body(M, p) \in BOOLEAN /\ M[p] \in BOOLEAN
      BY DEF Body, M
    <3> QED
      BY <3>4, <3>5
  <2>4. M = [p \in D |-> M[p]]
    BY DEF M
  <2> HIDE DEF M, Body, D
  <2>5. [p \in D |-> M[p]] = [p \in D |-> Body(M, p)]
    BY <2>3
  <2> QED
    BY <2>4, <2>5
<1>4. Match = [at \in D |-> Body(Match, at)]
  <2> HIDE DEF Body, D
  <2> QED
    BY <1>3
<1> HIDE DEF Match
<1> DEFINE T == {p \in D : Match[p]}
<1>5. T \subseteq D /\ \A p \in D : Match[p] <=> p \in T
  OBVIOUS
<1>6. ASSUME NEW node \in Nodes(rules), NEW index \in 0 .. Len(labels)
      PROVE  <<node, index>> \in T <=> Leads(T, rules, labels, node, index)
  <2> HIDE DEF T, Body
  <2>1. Body(Match, <<node, index>>) <=> Leads(T, rules, labels, node, index)
    BY <1>2, <1>5
  <2>2. <<node, index>> \in D
    OBVIOUS
  <2>3. Match[<<node, index>>] = Body(Match, <<node, index>>)
    BY <1>4, <2>2
  <2> QED
    BY <1>5, <2>1, <2>2, <2>3
<1>7. Solves(T, rules, labels)
  <2> HIDE DEF T
  <2> QED
    BY <1>5, <1>6 DEF Solves, Places
<1>8. match_node(rules, labels) <=> <<<<>>, 0>> \in T
  BY <1>0, <1>1, <1>5
<1> QED
  BY <1>7, <1>8

-----------------------------------------------------------------------------
(* RuleMeans, in the same way, for either way to compare a label           *)

\* What RuleMeans asks of a position of the rule and one of the name, when T is
\* where it is true and R is where a token means a label.
Goes(T, R, rule, name, i, j) ==
    IF i > Len(rule) THEN j > Len(name)
    ELSE IF rule[i] = Multi
    THEN <<i + 1, j>> \in T \/ (j <= Len(name) /\ <<i, j + 1>> \in T)
    ELSE j <= Len(name) /\ <<i, j>> \in R /\ <<i + 1, j + 1>> \in T

Positions(rule, name) == (1 .. Len(rule) + 1) \X (1 .. Len(name) + 1)

Meaning(T, R, rule, name) ==
    /\ T \in SUBSET Positions(rule, name)
    /\ \A i \in 1 .. Len(rule) + 1, j \in 1 .. Len(name) + 1 :
          <<i, j>> \in T <=> Goes(T, R, rule, name, i, j)

LEMMA GoesMonotone ==
    ASSUME NEW rule, NEW name, NEW i, NEW j, NEW R, NEW S, NEW T, S \subseteq T,
           Goes(S, R, rule, name, i, j)
    PROVE  Goes(T, R, rule, name, i, j)
BY DEF Goes

LEMMA MeaningExists ==
    ASSUME NEW rule, NEW name, NEW R
    PROVE  \E T : Meaning(T, R, rule, name)
<1> DEFINE N == 1 .. Len(rule) + 1
           I == 1 .. Len(name) + 1
           Closed(S) == \A i \in N, j \in I :
                          Goes(S, R, rule, name, i, j) => <<i, j>> \in S
           T == {p \in N \X I : \A S \in SUBSET (N \X I) : Closed(S) => p \in S}
<1>1. \A S \in SUBSET (N \X I) : Closed(S) => T \subseteq S
  OBVIOUS
<1>2. ASSUME NEW i \in N, NEW j \in I, Goes(T, R, rule, name, i, j)
      PROVE  <<i, j>> \in T
  <2>1. ASSUME NEW S \in SUBSET (N \X I), Closed(S) PROVE <<i, j>> \in S
    <3>1. T \subseteq S
      BY <1>1, <2>1
    <3>2. Goes(S, R, rule, name, i, j)
      BY <3>1, <1>2, GoesMonotone
    <3> QED
      BY <2>1, <3>2
  <2> HIDE DEF N, I, Closed
  <2> QED
    BY <2>1
<1>3. ASSUME NEW i \in N, NEW j \in I, <<i, j>> \in T
      PROVE  Goes(T, R, rule, name, i, j)
  <2> DEFINE U == {p \in T : Goes(T, R, rule, name, p[1], p[2])}
  <2>1. U \in SUBSET (N \X I) /\ U \subseteq T
    BY Zenon
  <2>2. ASSUME NEW k \in N, NEW l \in I, Goes(U, R, rule, name, k, l) PROVE <<k, l>> \in U
    <3>1. Goes(T, R, rule, name, k, l)
      BY <2>1, <2>2, GoesMonotone
    <3>2. <<k, l>> \in T
      BY <1>2, <3>1
    <3>3. <<k, l>>[1] = k /\ <<k, l>>[2] = l
      OBVIOUS
    <3> HIDE DEF T
    <3> QED
      BY <3>1, <3>2, <3>3
  <2>3. Closed(U)
    BY <2>2
  <2>4. T \subseteq U
    BY <1>1, <2>1, <2>3
  <2> HIDE DEF T
  <2>5. <<i, j>> \in U
    BY <1>3, <2>4
  <2>6. <<i, j>>[1] = i /\ <<i, j>>[2] = j
    OBVIOUS
  <2> QED
    BY <2>5, <2>6
<1>4. T \in SUBSET Positions(rule, name)
  BY DEF Positions
<1> HIDE DEF T
<1> QED
  BY <1>2, <1>3, <1>4 DEF Meaning

\* Whatever relation R is taken for the labels, From is a function that has the
\* value that its definition asks for.
FromEq(F, R, rule, name) ==
    F = [at \in (1 .. Len(rule) + 1) \X (1 .. Len(name) + 1) |->
            IF at[1] > Len(rule) THEN at[2] > Len(name)
            ELSE IF rule[at[1]] = Multi
            THEN F[<<at[1] + 1, at[2]>>] \/ (at[2] <= Len(name) /\ F[<<at[1], at[2] + 1>>])
            ELSE at[2] <= Len(name) /\ <<at[1], at[2]>> \in R /\ F[<<at[1] + 1, at[2] + 1>>]]

LEMMA FromIs ==
    ASSUME NEW rule, NEW name, NEW R, Len(rule) \in Nat, Len(name) \in Nat
    PROVE  /\ \E F : FromEq(F, R, rule, name)
           /\ \A F : FromEq(F, R, rule, name) =>
                \E T : Meaning(T, R, rule, name) /\ (F[<<1, 1>>] <=> <<1, 1>> \in T)
<1> DEFINE D == (1 .. Len(rule) + 1) \X (1 .. Len(name) + 1)
           Body(F, at) ==
                IF at[1] > Len(rule) THEN at[2] > Len(name)
                ELSE IF rule[at[1]] = Multi
                THEN F[<<at[1] + 1, at[2]>>] \/ (at[2] <= Len(name) /\ F[<<at[1], at[2] + 1>>])
                ELSE at[2] <= Len(name) /\ <<at[1], at[2]>> \in R /\ F[<<at[1] + 1, at[2] + 1>>]
<1>0. <<1, 1>> \in D
  OBVIOUS
<1>2. ASSUME NEW F, NEW T, \A p \in D : F[p] <=> p \in T,
             NEW i \in 1 .. Len(rule) + 1, NEW j \in 1 .. Len(name) + 1
      PROVE  Body(F, <<i, j>>) <=> Goes(T, R, rule, name, i, j)
  <2>1. Body(F, <<i, j>>) <=>
           IF i > Len(rule) THEN j > Len(name)
           ELSE IF rule[i] = Multi
           THEN F[<<i + 1, j>>] \/ (j <= Len(name) /\ F[<<i, j + 1>>])
           ELSE j <= Len(name) /\ <<i, j>> \in R /\ F[<<i + 1, j + 1>>]
    OBVIOUS
  <2>2. i <= Len(rule) => <<i + 1, j>> \in D
    OBVIOUS
  <2>3. j <= Len(name) => <<i, j + 1>> \in D
    OBVIOUS
  <2>4. i <= Len(rule) /\ j <= Len(name) => <<i + 1, j + 1>> \in D
    OBVIOUS
  <2>5. i > Len(rule) \/ i <= Len(rule)
    OBVIOUS
  <2> HIDE DEF D, Body
  <2> QED
    BY <1>2, <2>1, <2>2, <2>3, <2>4, <2>5 DEF Goes
<1>3. ASSUME NEW T, Meaning(T, R, rule, name) PROVE \E F : FromEq(F, R, rule, name)
  <2> DEFINE F == [p \in D |-> p \in T]
  <2>2. T \subseteq D /\ \A p \in D : F[p] <=> p \in T
    BY <1>3 DEF Meaning, Positions
  <2>3. ASSUME NEW p \in D PROVE F[p] = Body(F, p)
    <3>1. PICK i \in 1 .. Len(rule) + 1, j \in 1 .. Len(name) + 1 : p = <<i, j>>
      OBVIOUS
    <3> HIDE DEF F, Body
    <3>2. Body(F, <<i, j>>) <=> Goes(T, R, rule, name, i, j)
      BY <1>2, <2>2
    <3>3. p \in T <=> Goes(T, R, rule, name, i, j)
      BY <1>3, <3>1 DEF Meaning
    <3>4. F[p] <=> Body(F, p)
      BY <2>2, <3>1, <3>2, <3>3
    <3>5. F[p] \in BOOLEAN
      BY DEF F
    <3>6. \A q \in D : F[q] \in BOOLEAN
      BY DEF F
    <3>7. Body(F, p) \in BOOLEAN
      <4>1. CASE p[1] > Len(rule)
        BY <4>1 DEF Body
      <4>2. CASE ~(p[1] > Len(rule)) /\ rule[p[1]] = Multi
        BY <4>2 DEF Body
      <4>3. CASE ~(p[1] > Len(rule)) /\ rule[p[1]] # Multi
        BY <4>3 DEF Body
      <4> QED
        BY <4>1, <4>2, <4>3
    <3> QED
      BY <3>4, <3>5, <3>7
  <2>4. F = [p \in D |-> F[p]]
    BY DEF F
  <2> HIDE DEF F, Body, D
  <2>5. [p \in D |-> F[p]] = [p \in D |-> Body(F, p)]
    BY <2>3
  <2>6. FromEq(F, R, rule, name)
    BY <2>4, <2>5 DEF FromEq, Body, D
  <2> QED
    BY <2>6
<1>4. ASSUME NEW F, FromEq(F, R, rule, name)
      PROVE  \E T : Meaning(T, R, rule, name) /\ (F[<<1, 1>>] <=> <<1, 1>> \in T)
  <2>1. F = [at \in D |-> Body(F, at)]
    BY <1>4 DEF FromEq
  <2> DEFINE T == {p \in D : F[p]}
  <2>5. T \subseteq D /\ \A p \in D : F[p] <=> p \in T
    OBVIOUS
  <2>6. ASSUME NEW i \in 1 .. Len(rule) + 1, NEW j \in 1 .. Len(name) + 1
        PROVE  <<i, j>> \in T <=> Goes(T, R, rule, name, i, j)
    <3> HIDE DEF T, Body
    <3>1. Body(F, <<i, j>>) <=> Goes(T, R, rule, name, i, j)
      BY <1>2, <2>5
    <3>2. <<i, j>> \in D
      OBVIOUS
    <3>3. F[<<i, j>>] = Body(F, <<i, j>>)
      BY <2>1, <3>2
    <3> QED
      BY <2>5, <3>1, <3>2, <3>3
  <2> HIDE DEF T
  <2>7. Meaning(T, R, rule, name)
    BY <2>5, <2>6 DEF Meaning, Positions
  <2> QED
    BY <1>0, <2>5, <2>7
<1>5. \E T : Meaning(T, R, rule, name)
  BY MeaningExists
<1> HIDE DEF D, Body
<1> QED
  BY <1>3, <1>4, <1>5

GlobPairs(rule, name) ==
    {p \in (1 .. Len(rule)) \X (1 .. Len(name)) : GlobMeans(rule[p[1]], name[p[2]])}

CodePairs(rule, name) ==
    {p \in (1 .. Len(rule)) \X (1 .. Len(name)) : label_matches_glob(rule[p[1]], name[p[2]])}

\* What RuleMeans says with the meaning of a star.
LEMMA RuleMeansGlob ==
    ASSUME NEW rule, NEW name, Len(rule) \in Nat, Len(name) \in Nat
    PROVE  \E T : /\ Meaning(T, GlobPairs(rule, name), rule, name)
                  /\ RuleMeans(rule, name, GlobMeans) <=> <<1, 1>> \in T
<1> DEFINE D == (1 .. Len(rule) + 1) \X (1 .. Len(name) + 1)
           G == CHOOSE F : F = [at \in D |->
                IF at[1] > Len(rule) THEN at[2] > Len(name)
                ELSE IF rule[at[1]] = Multi
                THEN F[<<at[1] + 1, at[2]>>] \/ (at[2] <= Len(name) /\ F[<<at[1], at[2] + 1>>])
                ELSE /\ at[2] <= Len(name)
                     /\ GlobMeans(rule[at[1]], name[at[2]])
                     /\ F[<<at[1] + 1, at[2] + 1>>]]
           Fun(F) == [at \in D |->
                IF at[1] > Len(rule) THEN at[2] > Len(name)
                ELSE IF rule[at[1]] = Multi
                THEN F[<<at[1] + 1, at[2]>>] \/ (at[2] <= Len(name) /\ F[<<at[1], at[2] + 1>>])
                ELSE /\ at[2] <= Len(name)
                     /\ GlobMeans(rule[at[1]], name[at[2]])
                     /\ F[<<at[1] + 1, at[2] + 1>>]]
           R == GlobPairs(rule, name)
<1>1. RuleMeans(rule, name, GlobMeans) = G[<<1, 1>>]
  BY DEF RuleMeans
<1>2. ASSUME NEW F PROVE F = Fun(F) <=> FromEq(F, R, rule, name)
  <2>1. ASSUME NEW at \in D, at[1] <= Len(rule), at[2] <= Len(name)
        PROVE  GlobMeans(rule[at[1]], name[at[2]]) <=> <<at[1], at[2]>> \in R
    BY <2>1 DEF GlobPairs
  <2> HIDE DEF R
  <2> DEFINE A(at) == /\ at[2] <= Len(name)
                     /\ GlobMeans(rule[at[1]], name[at[2]])
                     /\ F[<<at[1] + 1, at[2] + 1>>]
             B(at) == at[2] <= Len(name) /\ <<at[1], at[2]>> \in R /\ F[<<at[1] + 1, at[2] + 1>>]
  <2>2. ASSUME NEW at \in D, ~(at[1] > Len(rule)) PROVE A(at) = B(at)
    <3>1. at[1] <= Len(rule)
      BY <2>2
    <3> QED
      BY <2>1, <3>1
  <2> HIDE DEF A, B
  <2>3. [at \in D |-> IF at[1] > Len(rule) THEN at[2] > Len(name)
                      ELSE IF rule[at[1]] = Multi
                      THEN F[<<at[1] + 1, at[2]>>] \/ (at[2] <= Len(name) /\ F[<<at[1], at[2] + 1>>])
                      ELSE A(at)] =
        [at \in D |-> IF at[1] > Len(rule) THEN at[2] > Len(name)
                      ELSE IF rule[at[1]] = Multi
                      THEN F[<<at[1] + 1, at[2]>>] \/ (at[2] <= Len(name) /\ F[<<at[1], at[2] + 1>>])
                      ELSE B(at)]
    BY <2>2
  <2> QED
    BY <2>3 DEF FromEq, A, B
<1>3. G = CHOOSE F : F = Fun(F)
  OBVIOUS
<1> HIDE DEF Fun, R, G
<1>4. \E F : FromEq(F, R, rule, name)
  BY FromIs
<1>5. G = Fun(G)
  BY <1>2, <1>3, <1>4
<1>6. \E T : Meaning(T, R, rule, name) /\ (G[<<1, 1>>] <=> <<1, 1>> \in T)
  BY <1>2, <1>5, FromIs
<1> QED
  BY <1>1, <1>6 DEF R

\* What RuleMeans says with the comparison of the code.
LEMMA RuleMeansCode ==
    ASSUME NEW rule, NEW name, Len(rule) \in Nat, Len(name) \in Nat
    PROVE  \E T : /\ Meaning(T, CodePairs(rule, name), rule, name)
                  /\ RuleMeans(rule, name, label_matches_glob) <=> <<1, 1>> \in T
<1> DEFINE D == (1 .. Len(rule) + 1) \X (1 .. Len(name) + 1)
           G == CHOOSE F : F = [at \in D |->
                IF at[1] > Len(rule) THEN at[2] > Len(name)
                ELSE IF rule[at[1]] = Multi
                THEN F[<<at[1] + 1, at[2]>>] \/ (at[2] <= Len(name) /\ F[<<at[1], at[2] + 1>>])
                ELSE /\ at[2] <= Len(name)
                     /\ label_matches_glob(rule[at[1]], name[at[2]])
                     /\ F[<<at[1] + 1, at[2] + 1>>]]
           Fun(F) == [at \in D |->
                IF at[1] > Len(rule) THEN at[2] > Len(name)
                ELSE IF rule[at[1]] = Multi
                THEN F[<<at[1] + 1, at[2]>>] \/ (at[2] <= Len(name) /\ F[<<at[1], at[2] + 1>>])
                ELSE /\ at[2] <= Len(name)
                     /\ label_matches_glob(rule[at[1]], name[at[2]])
                     /\ F[<<at[1] + 1, at[2] + 1>>]]
           R == CodePairs(rule, name)
<1>1. RuleMeans(rule, name, label_matches_glob) = G[<<1, 1>>]
  BY DEF RuleMeans
<1>2. ASSUME NEW F PROVE F = Fun(F) <=> FromEq(F, R, rule, name)
  <2>1. ASSUME NEW at \in D, at[1] <= Len(rule), at[2] <= Len(name)
        PROVE  label_matches_glob(rule[at[1]], name[at[2]]) <=> <<at[1], at[2]>> \in R
    BY <2>1 DEF CodePairs
  <2> HIDE DEF R
  <2> DEFINE A(at) == /\ at[2] <= Len(name)
                     /\ label_matches_glob(rule[at[1]], name[at[2]])
                     /\ F[<<at[1] + 1, at[2] + 1>>]
             B(at) == at[2] <= Len(name) /\ <<at[1], at[2]>> \in R /\ F[<<at[1] + 1, at[2] + 1>>]
  <2>2. ASSUME NEW at \in D, ~(at[1] > Len(rule)) PROVE A(at) = B(at)
    <3>1. at[1] <= Len(rule)
      BY <2>2
    <3> QED
      BY <2>1, <3>1
  <2> HIDE DEF A, B
  <2>3. [at \in D |-> IF at[1] > Len(rule) THEN at[2] > Len(name)
                      ELSE IF rule[at[1]] = Multi
                      THEN F[<<at[1] + 1, at[2]>>] \/ (at[2] <= Len(name) /\ F[<<at[1], at[2] + 1>>])
                      ELSE A(at)] =
        [at \in D |-> IF at[1] > Len(rule) THEN at[2] > Len(name)
                      ELSE IF rule[at[1]] = Multi
                      THEN F[<<at[1] + 1, at[2]>>] \/ (at[2] <= Len(name) /\ F[<<at[1], at[2] + 1>>])
                      ELSE B(at)]
    BY <2>2
  <2> QED
    BY <2>3 DEF FromEq, A, B
<1>3. G = CHOOSE F : F = Fun(F)
  OBVIOUS
<1> HIDE DEF Fun, R, G
<1>4. \E F : FromEq(F, R, rule, name)
  BY FromIs
<1>5. G = Fun(G)
  BY <1>2, <1>3, <1>4
<1>6. \E T : Meaning(T, R, rule, name) /\ (G[<<1, 1>>] <=> <<1, 1>> \in T)
  BY <1>2, <1>5, FromIs
<1> QED
  BY <1>1, <1>6 DEF R

-----------------------------------------------------------------------------
(* A rule that means a name blocks it: from the end of the rule to the root*)

LEMMA ReverseIs ==
    ASSUME NEW X, NEW s \in Seq(X)
    PROVE  /\ Reverse(s) \in Seq(X) /\ Len(Reverse(s)) = Len(s)
           /\ \A i \in 1 .. Len(s) : Reverse(s)[i] = s[Len(s) + 1 - i]
<1>1. PICK n \in Nat : n = Len(s) /\ \A i \in 1 .. n : s[i] \in X
  OBVIOUS
<1>2. \A i \in 1 .. n : n - i + 1 \in 1 .. n /\ n - i + 1 = n + 1 - i
  BY <1>1
<1>3. Reverse(s) = [i \in 1 .. n |-> s[n - i + 1]]
  BY <1>1 DEF Reverse
<1>4. [i \in 1 .. n |-> s[n - i + 1]] \in Seq(X) /\ Len([i \in 1 .. n |-> s[n - i + 1]]) = n
  BY <1>1, <1>2
<1>5. \A i \in 1 .. n : Reverse(s)[i] = s[n + 1 - i]
  BY <1>2, <1>3
<1> QED
  BY <1>1, <1>3, <1>4, <1>5

\* The nodes along a rule.
LEMMA Along ==
    ASSUME NEW r \in Seq(Token)
    PROVE  /\ SubSeq(r, 1, 0) = <<>> /\ SubSeq(r, 1, Len(r)) = r
           /\ \A a \in 0 .. Len(r) : SubSeq(r, 1, a) \in Seq(Token) /\ Len(SubSeq(r, 1, a)) = a
           /\ \A a \in 1 .. Len(r) : /\ SubSeq(r, 1, a) = Append(SubSeq(r, 1, a - 1), r[a])
                                     /\ SubSeq(r, 1, a) # <<>>
                                     /\ Front(SubSeq(r, 1, a)) = SubSeq(r, 1, a - 1)
                                     /\ Last(SubSeq(r, 1, a)) = r[a]
<1>1. SubSeq(r, 1, 0) = <<>> /\ SubSeq(r, 1, Len(r)) = r /\ Len(r) \in Nat
  OBVIOUS
<1>2. ASSUME NEW a \in 0 .. Len(r)
      PROVE  /\ SubSeq(r, 1, a) \in Seq(Token) /\ Len(SubSeq(r, 1, a)) = a
             /\ \A i \in 1 .. a : SubSeq(r, 1, a)[i] = r[i]
  <2>1. 0 \in Nat /\ a \in Nat /\ 0 <= a /\ a <= Len(r)
    BY <1>1
  <2>2. /\ SubSeq(r, 0 + 1, a) \in Seq(Token) /\ Len(SubSeq(r, 0 + 1, a)) = a - 0
        /\ \A i \in 1 .. a - 0 : SubSeq(r, 0 + 1, a)[i] = r[0 + i]
    BY <2>1, Slice
  <2> QED
    BY <2>1, <2>2
<1>3. ASSUME NEW a \in 1 .. Len(r)
      PROVE  /\ SubSeq(r, 1, a) = Append(SubSeq(r, 1, a - 1), r[a])
             /\ SubSeq(r, 1, a) # <<>>
             /\ Front(SubSeq(r, 1, a)) = SubSeq(r, 1, a - 1)
             /\ Last(SubSeq(r, 1, a)) = r[a]
  <2>1. a \in 0 .. Len(r) /\ a - 1 \in 0 .. Len(r) /\ a \in Nat /\ r[a] \in Token
    BY <1>1
  <2>2. PICK s \in Seq(Token) : s = SubSeq(r, 1, a) /\ Len(s) = a /\ \A i \in 1 .. a : s[i] = r[i]
    BY <2>1, <1>2
  <2>3. PICK t \in Seq(Token) : /\ t = SubSeq(r, 1, a - 1) /\ Len(t) = a - 1
                                /\ \A i \in 1 .. a - 1 : t[i] = r[i]
    BY <2>1, <1>2
  <2>4. s = Append(t, r[a])
    <3>1. Append(t, r[a]) \in Seq(Token) /\ Len(Append(t, r[a])) = a
      BY <2>1, <2>3
    <3>2. \A i \in 1 .. a : Append(t, r[a])[i] = s[i]
      BY <2>1, <2>2, <2>3
    <3> QED
      BY <2>2, <3>1, <3>2, SeqEqual
  <2>5. s # <<>> /\ Last(s) = r[a]
    BY <2>1, <2>2 DEF Last
  <2>6. Front(s) = t
    <3>1. a - 1 \in Nat /\ a - 1 <= Len(s) /\ 0 \in Nat /\ 0 <= a - 1
      BY <2>1, <2>2
    <3>2. /\ SubSeq(s, 0 + 1, a - 1) \in Seq(Token) /\ Len(SubSeq(s, 0 + 1, a - 1)) = a - 1 - 0
          /\ \A i \in 1 .. a - 1 - 0 : SubSeq(s, 0 + 1, a - 1)[i] = s[0 + i]
      BY <3>1, Slice
    <3>3. Front(s) \in Seq(Token) /\ Len(Front(s)) = a - 1 /\ \A i \in 1 .. a - 1 : Front(s)[i] = s[i]
      BY <2>2, <3>1, <3>2 DEF Front
    <3>4. \A i \in 1 .. a - 1 : Front(s)[i] = t[i]
      BY <2>1, <2>2, <2>3, <3>3
    <3> QED
      BY <2>3, <3>3, <3>4, SeqEqual
  <2> QED
    BY <2>2, <2>3, <2>4, <2>5, <2>6
<1> QED
  BY <1>1, <1>2, <1>3

LEMMA NodesAlong ==
    ASSUME NEW rules, rules \subseteq Seq(Token)
    PROVE  /\ <<>> \in Nodes(rules) /\ Nodes(rules) \subseteq Seq(Token)
           /\ \A r \in rules : \A a \in 0 .. Len(r) : SubSeq(r, 1, a) \in Nodes(rules)
           /\ \A node \in Nodes(rules) : node = <<>> \/ \E r \in rules : Len(node) <= Len(r)
<1>1. <<>> \in Nodes(rules) /\ <<>> \in Seq(Token)
  BY DEF Nodes
<1>2. ASSUME NEW r \in rules, NEW a \in 0 .. Len(r) PROVE SubSeq(r, 1, a) \in Nodes(rules)
  <2>1. CASE a = 0
    BY <2>1, <1>1, Along
  <2>2. CASE a # 0
    <3>1. a \in 1 .. Len(r)
      BY <2>2
    <3> QED
      BY <3>1 DEF Nodes
  <2> QED
    BY <2>1, <2>2
<1>3. ASSUME NEW node \in Nodes(rules), node # <<>>
      PROVE  node \in Seq(Token) /\ \E r \in rules : Len(node) <= Len(r)
  <2>1. PICK r \in rules : \E a \in 1 .. Len(r) : node = SubSeq(r, 1, a)
    BY <1>3 DEF Nodes
  <2>2. PICK a \in 1 .. Len(r) : node = SubSeq(r, 1, a)
    BY <2>1
  <2>3. r \in Seq(Token) /\ a \in 0 .. Len(r) /\ a <= Len(r)
    OBVIOUS
  <2> QED
    BY <2>2, <2>3, Along
<1> QED
  BY <1>1, <1>2, <1>3

\* From a node of a rule that leads to an end, the walk is back at the node
\* before it: "**" for no label and for one more, a label for a label.
LEMMA WalkUp ==
    ASSUME NEW rules, rules \subseteq Seq(Token), NEW labels, Len(labels) \in Nat,
           NEW T, Solves(T, rules, labels), NEW r \in rules,
           NEW a \in 1 .. Len(r), NEW b \in 0 .. Len(labels), <<SubSeq(r, 1, a), b>> \in T
    PROVE  /\ r[a] = Multi => <<SubSeq(r, 1, a - 1), b>> \in T
           /\ r[a] = Multi /\ b > 0 => <<SubSeq(r, 1, a), b - 1>> \in T
           /\ r[a] # Multi /\ b > 0 /\ label_matches_glob(r[a], labels[b]) =>
                <<SubSeq(r, 1, a - 1), b - 1>> \in T
<1>1. r \in Seq(Token) /\ a \in 0 .. Len(r) /\ a - 1 \in 0 .. Len(r)
  OBVIOUS
<1>2. PICK child : /\ child = SubSeq(r, 1, a) /\ child \in Nodes(rules)
                   /\ child # <<>> /\ Last(child) = r[a]
  <2>1. SubSeq(r, 1, a) \in Nodes(rules)
    BY <1>1, NodesAlong
  <2>2. SubSeq(r, 1, a) # <<>> /\ Last(SubSeq(r, 1, a)) = r[a]
    BY <1>1, Along
  <2> QED
    BY <2>1, <2>2, Zenon
<1>3. PICK node : /\ node = SubSeq(r, 1, a - 1) /\ node \in Nodes(rules)
                  /\ Front(child) = node /\ child = Append(node, r[a])
  <2>1. SubSeq(r, 1, a - 1) \in Nodes(rules)
    BY <1>1, NodesAlong
  <2>2. /\ SubSeq(r, 1, a) = Append(SubSeq(r, 1, a - 1), r[a])
        /\ Front(SubSeq(r, 1, a)) = SubSeq(r, 1, a - 1)
    BY <1>1, Along
  <2> QED
    BY <1>2, <2>1, <2>2, Zenon
<1>4. ASSUME r[a] = Multi PROVE <<node, b>> \in T
  <2>1. Leads(T, rules, labels, node, b)
    BY <1>2, <1>3, <1>4 DEF Leads
  <2> QED
    BY <2>1, <1>3 DEF Solves
<1>5. b > 0 => b - 1 \in 0 .. Len(labels) /\ b - 1 + 1 = b /\ b - 1 < Len(labels)
  OBVIOUS
<1>6. ASSUME r[a] = Multi, b > 0 PROVE <<child, b - 1>> \in T
  <2>1. is_multi(child)
    BY <1>2, <1>6 DEF is_multi
  <2>2. <<child, b - 1 + 1>> \in T
    BY <1>2, <1>5, <1>6
  <2>3. Leads(T, rules, labels, child, b - 1)
    BY <1>5, <1>6, <2>1, <2>2 DEF Leads
  <2> QED
    BY <1>2, <1>5, <1>6, <2>3 DEF Solves
<1>7. ASSUME r[a] # Multi, b > 0, label_matches_glob(r[a], labels[b])
      PROVE  <<node, b - 1>> \in T
  <2>1. child \in ChildrenOf(rules, node)
    BY <1>2, <1>3, <1>7 DEF ChildrenOf
  <2>2. <<child, b - 1 + 1>> \in T /\ label_matches_glob(Last(child), labels[b - 1 + 1])
    BY <1>2, <1>5, <1>7
  <2>3. Leads(T, rules, labels, node, b - 1)
    BY <1>5, <1>7, <2>1, <2>2 DEF Leads
  <2> QED
    BY <1>3, <1>5, <1>7, <2>3 DEF Solves
<1> QED
  BY <1>2, <1>3, <1>4, <1>6, <1>7

\* The rules that match_node lets end before the last label, as paths: a label
\* after a "**".
\* The rules for which match_node stops before the last label: a label right
\* after a "**", with nothing to its left.
StopsEarly(rule) == Len(rule) > 1 /\ rule[2] = Multi /\ rule[1] # Multi

EndsEarly(r) == Len(r) > 1 /\ r[Len(r) - 1] = Multi /\ r[Len(r)] # Multi

\* The walk is true of the last node of a rule that it may end with.
LEMMA WalkEnds ==
    ASSUME NEW rules, rules \subseteq Seq(Token), NEW labels, Len(labels) \in Nat,
           NEW T, Solves(T, rules, labels), NEW r \in rules, r # <<>>,
           NEW c \in 1 .. Len(labels)
    PROVE  /\ c = Len(labels) => <<r, c>> \in T
           /\ EndsEarly(r) /\ label_matches_glob(r[Len(r)], labels[c]) =>
                <<SubSeq(r, 1, Len(r) - 1), c - 1>> \in T
<1>1. r \in Seq(Token) /\ Len(r) \in 0 .. Len(r) /\ Len(r) \in 1 .. Len(r) /\ Len(r) - 1 \in 0 .. Len(r)
  OBVIOUS
<1>2. /\ SubSeq(r, 1, Len(r)) = r /\ Front(r) = SubSeq(r, 1, Len(r) - 1) /\ Last(r) = r[Len(r)]
      /\ r \in Nodes(rules) /\ SubSeq(r, 1, Len(r) - 1) \in Nodes(rules)
  <2>1. SubSeq(r, 1, Len(r)) = r
    BY <1>1, Along
  <2>2. SubSeq(r, 1, Len(r)) \in Nodes(rules) /\ SubSeq(r, 1, Len(r) - 1) \in Nodes(rules)
    BY <1>1, NodesAlong
  <2> QED
    BY <2>1, <2>2 DEF Front, Last
<1>3. ASSUME c = Len(labels) PROVE <<r, c>> \in T
  <2>1. Leads(T, rules, labels, r, c)
    BY <1>3 DEF Leads, Accepts
  <2> QED
    BY <1>2, <2>1 DEF Solves
<1>4. ASSUME EndsEarly(r), label_matches_glob(r[Len(r)], labels[c])
      PROVE  <<SubSeq(r, 1, Len(r) - 1), c - 1>> \in T
  <2>1. PICK node : node = SubSeq(r, 1, Len(r) - 1) /\ node \in Nodes(rules) /\ Front(r) = node
    BY <1>2
  <2>2. Len(r) - 1 \in 1 .. Len(r) /\ r[Len(r) - 1] = Multi /\ Last(r) # Multi
    BY <1>1, <1>2, <1>4 DEF EndsEarly
  <2>3. is_multi(node)
    <3>1. SubSeq(r, 1, Len(r) - 1) # <<>> /\ Last(SubSeq(r, 1, Len(r) - 1)) = r[Len(r) - 1]
      BY <1>1, <2>2, Along
    <3> QED
      BY <2>1, <2>2, <3>1 DEF is_multi
  <2>4. r \in ChildrenOf(rules, node)
    BY <1>2, <2>1, <2>2 DEF ChildrenOf
  <2>5. c - 1 \in 0 .. Len(labels) /\ c - 1 < Len(labels) /\ c - 1 + 1 = c
    OBVIOUS
  <2>6. label_matches_glob(Last(r), labels[c - 1 + 1])
    BY <1>2, <1>4, <2>5
  <2>7. Leads(T, rules, labels, node, c - 1)
    BY <2>3, <2>4, <2>5, <2>6 DEF Leads
  <2> QED
    BY <2>1, <2>5, <2>7 DEF Solves
<1> QED
  BY <1>3, <1>4

\* The name is the first n labels, from the other end.
Backwards(name, labels, n) == Len(name) = n /\ \A b \in 1 .. n : labels[b] = name[n + 1 - b]

\* The code finds the label that a token means, where R is.
Within(R, r, name, n) ==
    \A i \in 1 .. Len(r), j \in 1 .. n :
        <<i, j>> \in R /\ Reverse(r)[i] # Multi => label_matches_glob(Reverse(r)[i], name[j])

\* The meaning of a rule from left to right, followed from its first position,
\* takes the walk from the end of the rule back to the root.
LEMMA MeaningLeads ==
    ASSUME NEW rules, rules \subseteq Seq(Token), NEW r \in rules, r # <<>>,
           NEW labels, Len(labels) \in Nat, NEW n \in 1 .. Len(labels),
           n < Len(labels) => EndsEarly(r),
           NEW name, Backwards(name, labels, n),
           NEW T, Solves(T, rules, labels),
           NEW R, NEW U, Meaning(U, R, Reverse(r), name), <<1, 1>> \in U,
           Within(R, r, name, n)
    PROVE  <<<<>>, 0>> \in T
<1>0. /\ Len(name) = n /\ \A b \in 1 .. n : labels[b] = name[n + 1 - b]
      /\ \A i \in 1 .. Len(r), j \in 1 .. n :
            <<i, j>> \in R /\ Reverse(r)[i] # Multi => label_matches_glob(Reverse(r)[i], name[j])
  BY DEF Backwards, Within
<1>1. PICK m \in Nat : m = Len(r) /\ m # 0 /\ n \in Nat /\ n # 0
  OBVIOUS
<1>2. PICK rule : /\ rule = Reverse(r) /\ Len(rule) = m
                  /\ \A i \in 1 .. m : rule[i] = r[m + 1 - i]
  BY <1>1, ReverseIs
<1> DEFINE Node(a) == SubSeq(r, 1, a)
           Both(a, b) == <<m + 1 - a, n + 1 - b>> \in U /\ <<Node(a), b>> \in T
           S == {k \in Nat : \E a \in 0 .. m, b \in 0 .. n : Both(a, b) /\ k = a + b}
<1>3. \E a \in 0 .. m, b \in 0 .. n : Both(a, b)
  <2>1. n + 1 - n = 1 /\ m + 1 - m = 1 /\ n + 1 - (n - 1) = 2 /\ m + 1 - (m - 1) = 2
    BY <1>1
  <2>2. m \in 0 .. m /\ m - 1 \in 0 .. m /\ n \in 0 .. n /\ n - 1 \in 0 .. n
    BY <1>1
  <2>3. CASE n = Len(labels)
    <3>1. <<r, n>> \in T
      BY <1>1, <2>3, WalkEnds
    <3>2. Node(m) = r
      BY <1>1, Along
    <3>3. Both(m, n)
      BY <2>1, <3>1, <3>2
    <3> HIDE DEF Both
    <3> QED
      BY <2>2, <3>3
  <2>4. CASE n # Len(labels)
    <3>1. EndsEarly(r) /\ 1 \in 1 .. m /\ 1 \in 1 .. n /\ 1 \in 1 .. Len(r) /\ ~(1 > Len(rule)) /\ m + 1 - 1 = m
      BY <1>1, <1>2, <2>4
    <3>2. rule[1] = r[m] /\ rule[1] # Multi
      <4>1. r[m] # Multi
        BY <1>1, <3>1 DEF EndsEarly
      <4> QED
        BY <1>2, <3>1, <4>1
    <3>3. Goes(U, R, rule, name, 1, 1)
      <4>1. 1 \in 1 .. Len(rule) + 1 /\ 1 \in 1 .. Len(name) + 1
        BY <1>0, <1>1, <1>2
      <4> QED
        BY <1>2, <4>1 DEF Meaning
    <3>4. <<1, 1>> \in R /\ <<1 + 1, 1 + 1>> \in U
      BY <3>1, <3>2, <3>3 DEF Goes
    <3>5. label_matches_glob(rule[1], name[1])
      BY <1>0, <1>2, <3>1, <3>2, <3>4
    <3>6. labels[n] = name[1]
      <4>1. n \in 1 .. n
        BY <1>1
      <4> QED
        BY <1>0, <2>1, <4>1
    <3>7. <<SubSeq(r, 1, m - 1), n - 1>> \in T
      BY <1>1, <3>1, <3>2, <3>5, <3>6, WalkEnds
    <3>8. <<2, 2>> \in U
      <4>1. 1 + 1 = 2
        OBVIOUS
      <4> QED
        BY <3>4, <4>1
    <3>9. Both(m - 1, n - 1)
      BY <2>1, <3>7, <3>8
    <3> HIDE DEF Both
    <3> QED
      BY <2>2, <3>9
  <2> QED
    BY <2>3, <2>4
<1> HIDE DEF Node, Both
<1>5. PICK a \in 0 .. m, b \in 0 .. n : /\ Both(a, b)
                                        /\ \A c \in 0 .. m, d \in 0 .. n : Both(c, d) => a + b <= c + d
  <2>1. PICK a \in 0 .. m, b \in 0 .. n : Both(a, b)
    BY <1>3
  <2>2. a + b \in S
    <3>1. a + b \in Nat
      OBVIOUS
    <3> QED
      BY <2>1, <3>1
  <2>3. S \in SUBSET Nat /\ S # {}
    BY <2>2
  <2>4. PICK k \in S : \A l \in S : k <= l
    <3> HIDE DEF S
    <3> QED
      BY <2>3, LeastElement
  <2>5. PICK c \in 0 .. m, d \in 0 .. n : Both(c, d) /\ k = c + d
    BY <2>4
  <2>6. ASSUME NEW e \in 0 .. m, NEW g \in 0 .. n, Both(e, g) PROVE c + d <= e + g
    <3>1. e + g \in Nat
      OBVIOUS
    <3>2. e + g \in S
      BY <2>6, <3>1
    <3> QED
      BY <2>4, <2>5, <3>2
  <2> QED
    BY <2>5, <2>6
<1> HIDE DEF S
<1>6. PICK i \in 1 .. m + 1, j \in 1 .. n + 1 : i = m + 1 - a /\ j = n + 1 - b
  OBVIOUS
<1>7. <<i, j>> \in U /\ <<Node(a), b>> \in T /\ Goes(U, R, rule, name, i, j)
  <2>1. <<i, j>> \in U /\ <<Node(a), b>> \in T
    BY <1>5, <1>6 DEF Both
  <2> QED
    BY <1>0, <1>2, <2>1 DEF Meaning
<1>8. CASE a = 0
  <2>1. i > Len(rule)
    BY <1>2, <1>6, <1>8
  <2>2. j > n
    BY <1>0, <1>7, <2>1 DEF Goes
  <2>3. b = 0
    BY <1>6, <2>2
  <2>4. Node(0) = <<>>
    BY Along DEF Node
  <2> QED
    BY <1>7, <1>8, <2>3, <2>4
<1>9. CASE a # 0
  <2>1. /\ a \in 1 .. m /\ a \in 1 .. Len(r) /\ a - 1 \in 0 .. m /\ i \in 1 .. m /\ i \in 1 .. Len(r)
        /\ i + 1 = m + 1 - (a - 1) /\ ~(i > Len(rule))
        /\ b > 0 <=> j <= Len(name)
        /\ b > 0 => b \in 1 .. n /\ b - 1 \in 0 .. n /\ j \in 1 .. Len(name) /\ j + 1 = n + 1 - (b - 1)
    <3>1. /\ a \in 1 .. m /\ a - 1 \in 0 .. m /\ i \in 1 .. m
          /\ i + 1 = m + 1 - (a - 1) /\ ~(i > m) /\ (b > 0 <=> j <= n)
      BY <1>1, <1>6, <1>9
    <3>2. b > 0 => b \in 1 .. n /\ b - 1 \in 0 .. n /\ j \in 1 .. n /\ j + 1 = n + 1 - (b - 1)
      BY <1>1, <1>6
    <3> QED
      BY <1>0, <1>1, <1>2, <3>1, <3>2
  <2>2. rule[i] = r[a] /\ (b > 0 => labels[b] = name[j])
    <3>1. m + 1 - i = a /\ n + 1 - b = j
      BY <1>6
    <3> QED
      BY <1>0, <1>2, <2>1, <3>1
  <2>3. /\ r[a] = Multi => <<Node(a - 1), b>> \in T
        /\ r[a] = Multi /\ b > 0 => <<Node(a), b - 1>> \in T
        /\ r[a] # Multi /\ b > 0 /\ label_matches_glob(r[a], labels[b]) =>
                <<Node(a - 1), b - 1>> \in T
    <3>1. b \in 0 .. Len(labels)
      OBVIOUS
    <3>2. <<SubSeq(r, 1, a), b>> \in T
      BY <1>7 DEF Node
    <3> QED
      BY <2>1, <3>1, <3>2, WalkUp DEF Node
  <2>4. ~Both(a - 1, b) /\ (b > 0 => ~Both(a, b - 1) /\ ~Both(a - 1, b - 1))
    <3>1. ~(a + b <= a - 1 + b) /\ ~(a + b <= a + (b - 1)) /\ ~(a + b <= a - 1 + (b - 1))
      OBVIOUS
    <3> QED
      BY <1>5, <2>1, <3>1
  <2>5. CASE r[a] = Multi
    <3>1. <<i + 1, j>> \in U \/ (b > 0 /\ <<i, j + 1>> \in U)
      BY <1>7, <2>1, <2>2, <2>5 DEF Goes
    <3>2. CASE <<i + 1, j>> \in U
      <4>1. Both(a - 1, b)
        BY <1>6, <2>1, <2>3, <2>5, <3>2 DEF Both
      <4> QED
        BY <2>4, <4>1
    <3>3. CASE b > 0 /\ <<i, j + 1>> \in U
      <4>1. Both(a, b - 1)
        BY <1>6, <2>1, <2>3, <2>5, <3>3 DEF Both
      <4> QED
        BY <2>4, <3>3, <4>1
    <3> QED
      BY <3>1, <3>2, <3>3
  <2>6. CASE r[a] # Multi
    <3>1. b > 0 /\ <<i, j>> \in R /\ <<i + 1, j + 1>> \in U
      BY <1>0, <1>7, <2>1, <2>2, <2>6 DEF Goes
    <3>2. label_matches_glob(rule[i], name[j])
      BY <1>0, <1>2, <2>1, <2>2, <2>6, <3>1
    <3>3. Both(a - 1, b - 1)
      BY <2>1, <2>2, <2>3, <2>6, <3>1, <3>2 DEF Both
    <3> QED
      BY <2>4, <3>1, <3>3
  <2> QED
    BY <2>5, <2>6
<1> QED
  BY <1>8, <1>9

-----------------------------------------------------------------------------
(* label_matches_glob against the meaning of a star                        *)

FirstPos(token, target) == IF IsPrefix(token[1], target) THEN Len(token[1]) ELSE -1

NextPos(token, target, p, i) ==
    LET found == FoundAt(token[i], target, p)
    IN  IF p < 0 \/ found = {} THEN -1
        ELSE Len(token[i]) + CHOOSE k \in found : \A l \in found : k <= l

\* f is what label_matches_glob defines recursively, up to the n-th part.
Scan(f, token, target, n) ==
    f = [i \in 1 .. n |->
           IF i = 1 THEN FirstPos(token, target) ELSE NextPos(token, target, f[i - 1], i)]

LEMMA ScanStep ==
    ASSUME NEW token, NEW target, NEW n \in Nat, NEW f, Scan(f, token, target, n)
    PROVE  \E g : Scan(g, token, target, n + 1)
<1> DEFINE Fst == FirstPos(token, target)
           Nxt(p, i) == NextPos(token, target, p, i)
           g == [i \in 1 .. n + 1 |->
                   IF i <= n THEN f[i] ELSE IF i = 1 THEN Fst ELSE Nxt(f[i - 1], i)]
           h == [i \in 1 .. n + 1 |-> IF i = 1 THEN Fst ELSE Nxt(g[i - 1], i)]
<1> HIDE DEF Fst, Nxt
<1>0. f = [i \in 1 .. n |-> IF i = 1 THEN Fst ELSE Nxt(f[i - 1], i)]
  BY DEF Scan, Fst, Nxt
<1>1. ASSUME NEW i \in 1 .. n + 1 PROVE g[i] = IF i = 1 THEN Fst ELSE Nxt(g[i - 1], i)
  <2>1. CASE i <= n
    <3>1. i \in 1 .. n /\ g[i] = f[i] /\ (i # 1 => i - 1 \in 1 .. n /\ g[i - 1] = f[i - 1])
      BY <2>1
    <3>2. f[i] = IF i = 1 THEN Fst ELSE Nxt(f[i - 1], i)
      BY <1>0, <3>1
    <3> QED
      BY <3>1, <3>2
  <2>2. CASE ~(i <= n)
    <3>1. i # 1 => i - 1 \in 1 .. n /\ i - 1 <= n /\ g[i - 1] = f[i - 1]
      BY <2>2
    <3> QED
      BY <2>2, <3>1
  <2> QED
    BY <2>1, <2>2
<1>2. g = h
  <2>1. \A i \in 1 .. n + 1 : g[i] = h[i]
    BY <1>1
  <2> HIDE DEF g
  <2>2. g = [i \in 1 .. n + 1 |-> g[i]]
    BY DEF g
  <2> QED
    BY <2>1, <2>2
<1> HIDE DEF g
<1>3. Scan(g, token, target, n + 1)
  BY <1>2 DEF Scan, Fst, Nxt
<1> QED
  BY <1>3

LEMMA ScanExists ==
    ASSUME NEW token, NEW target, NEW n \in Nat
    PROVE  \E f : Scan(f, token, target, n)
<1> DEFINE S == {m \in Nat : ~ \E f : Scan(f, token, target, m)}
<1> SUFFICES ASSUME S # {} PROVE FALSE
  OBVIOUS
<1>1. PICK m \in S : \A k \in S : m <= k
  BY LeastElement
<1>2. m # 0
  <2> DEFINE f == [i \in 1 .. 0 |-> token]
  <2>1. f = [i \in 1 .. 0 |->
               IF i = 1 THEN FirstPos(token, target) ELSE NextPos(token, target, f[i - 1], i)]
    OBVIOUS
  <2>2. Scan(f, token, target, 0)
    BY <2>1 DEF Scan
  <2> QED
    BY <1>1, <2>2
<1>3. m - 1 \in Nat /\ m - 1 \notin S
  BY <1>1, <1>2
<1>4. PICK f : Scan(f, token, target, m - 1)
  BY <1>3
<1>5. \E g : Scan(g, token, target, m - 1 + 1)
  BY <1>3, <1>4, ScanStep
<1> QED
  BY <1>1, <1>5

LEMMA MatchesIs ==
    ASSUME NEW token, NEW target, Len(token) \in Nat \ {0, 1}
    PROVE  \E f : /\ Scan(f, token, target, Len(token) - 1)
                  /\ label_matches_glob(token, target) <=>
                        f[Len(token) - 1] >= 0 /\ IsSuffix(token[Len(token)], target)
<1> DEFINE Pos == CHOOSE f : f = [i \in 1 .. Len(token) - 1 |->
                    IF i = 1 THEN IF IsPrefix(token[1], target) THEN Len(token[1]) ELSE -1
                    ELSE IF f[i - 1] < 0 \/ FoundAt(token[i], target, f[i - 1]) = {} THEN -1
                         ELSE Len(token[i]) + CHOOSE k \in FoundAt(token[i], target, f[i - 1]) :
                                 \A l \in FoundAt(token[i], target, f[i - 1]) : k <= l]
<1>1. label_matches_glob(token, target) <=>
         Pos[Len(token) - 1] >= 0 /\ IsSuffix(token[Len(token)], target)
  BY DEF label_matches_glob
<1>2. Pos = CHOOSE f : Scan(f, token, target, Len(token) - 1)
  BY DEF Scan, FirstPos, NextPos
<1>3. Len(token) - 1 \in Nat
  OBVIOUS
<1>4. \E f : Scan(f, token, target, Len(token) - 1)
  BY <1>3, ScanExists
<1> HIDE DEF Pos
<1>5. Scan(Pos, token, target, Len(token) - 1)
  BY <1>2, <1>4
<1> QED
  BY <1>1, <1>5

LEMMA FoundIs ==
    ASSUME NEW part \in Label, NEW target \in Label, NEW p \in Nat, NEW k
    PROVE  k \in FoundAt(part, target, p) <=>
              /\ k \in FoundAt(part, target, 0) /\ p <= k
<1>1. Len(part) \in Nat /\ Len(target) \in Nat
  BY DEF Label
<1>2. k \in p .. Len(target) - Len(part) <=> k \in 0 .. Len(target) - Len(part) /\ p <= k
  BY <1>1
<1> QED
  BY <1>2 DEF FoundAt

\* A part that can be found no earlier than k is found, and ends no later than
\* it does there.
LEMMA NextNoLater ==
    ASSUME NEW token \in Token, NEW target \in Label, NEW i \in 1 .. Len(token),
           NEW p \in Nat, NEW k \in FoundAt(token[i], target, 0), p <= k
    PROVE  NextPos(token, target, p, i) \in 0 .. k + Len(token[i])
<1>1. token[i] \in Label /\ Len(token[i]) \in Nat /\ Len(target) \in Nat
  BY DEF Token, Label
<1> DEFINE found == FoundAt(token[i], target, p)
<1>2. k \in found
  BY <1>1, FoundIs
<1>3. found \in SUBSET Nat
  BY <1>1 DEF FoundAt
<1>4. NextPos(token, target, p, i) =
        IF p < 0 \/ found = {} THEN -1
        ELSE Len(token[i]) + CHOOSE l \in found : \A q \in found : l <= q
  BY DEF NextPos
<1> HIDE DEF found
<1>5. \E l \in found : \A q \in found : l <= q
  BY <1>2, <1>3, LeastElement
<1>6. PICK e : e = CHOOSE l \in found : \A q \in found : l <= q
  OBVIOUS
<1>7. e \in found /\ e <= k
  BY <1>2, <1>5, <1>6
<1>8. NextPos(token, target, p, i) = Len(token[i]) + e
  BY <1>2, <1>4, <1>6
<1>9. e \in Nat /\ k \in Nat
  BY <1>2, <1>3, <1>7
<1> QED
  BY <1>1, <1>7, <1>8, <1>9

LEMMA PrefixFound ==
    ASSUME NEW part \in Label, NEW target \in Label, 0 \in FoundAt(part, target, 0)
    PROVE  IsPrefix(part, target)
<1>1. Len(part) \in Nat /\ Len(target) \in Nat /\ SubSeq(part, 1, Len(part)) = part
  BY DEF Label
<1>2. Len(part) <= Len(target) /\ SubSeq(target, 0 + 1, 0 + Len(part)) = part
  BY <1>1 DEF FoundAt
<1>3. 0 + 1 = 1 /\ 0 + Len(part) = Len(part)
  BY <1>1
<1> QED
  BY <1>1, <1>2, <1>3 DEF IsPrefix

LEMMA SuffixFound ==
    ASSUME NEW part \in Label, NEW target \in Label,
           NEW k \in FoundAt(part, target, 0), k + Len(part) = Len(target)
    PROVE  IsSuffix(part, target)
<1>1. PICK n \in Nat, m \in Nat : n = Len(part) /\ m = Len(target)
  BY DEF Label
<1>2. part \in Seq(Chars) /\ target \in Seq(Chars)
  BY DEF Label
<1>3. k \in Nat /\ k = m - n /\ n <= m /\ SubSeq(target, k + 1, m) = part
  BY <1>1 DEF FoundAt
<1>4. \A i \in 1 .. n : part[i] = target[k + i]
  <2>1. m - k = n /\ k <= m
    BY <1>3
  <2>2. \A i \in 1 .. m - k : SubSeq(target, k + 1, m)[i] = target[k + i]
    BY <1>1, <1>2, <1>3, Slice
  <2> QED
    BY <1>3, <2>1, <2>2
<1>5. PICK P \in Seq(Chars) : /\ P = Reverse(part) /\ Len(P) = n
                              /\ \A i \in 1 .. n : P[i] = part[n + 1 - i]
  BY <1>1, <1>2, ReverseIs
<1>6. PICK Q \in Seq(Chars) : /\ Q = Reverse(target) /\ Len(Q) = m
                              /\ \A i \in 1 .. m : Q[i] = target[m + 1 - i]
  BY <1>1, <1>2, ReverseIs
<1>7. \A i \in 1 .. n : P[i] = Q[i]
  <2>1. ASSUME NEW i \in 1 .. n PROVE P[i] = Q[i]
    <3>1. n + 1 - i \in 1 .. n /\ k + (n + 1 - i) = m + 1 - i /\ i \in 1 .. m
      BY <1>3
    <3> QED
      BY <1>4, <1>5, <1>6, <3>1
  <2> QED
    BY <2>1
<1>8. SubSeq(P, 1, n) = P /\ n <= m
  BY <1>3, <1>5
<1>9. SubSeq(Q, 1, n) = P
  <2>1. 0 \in Nat /\ 0 <= n /\ n <= Len(Q)
    BY <1>3, <1>6
  <2>2. /\ SubSeq(Q, 0 + 1, n) \in Seq(Chars) /\ Len(SubSeq(Q, 0 + 1, n)) = n - 0
        /\ \A i \in 1 .. n - 0 : SubSeq(Q, 0 + 1, n)[i] = Q[0 + i]
    BY <2>1, Slice
  <2>3. PICK W \in Seq(Chars) : W = SubSeq(Q, 1, n) /\ Len(W) = n /\ \A i \in 1 .. n : W[i] = Q[i]
    <3>1. 0 + 1 = 1 /\ n - 0 = n /\ \A i \in 1 .. n : 0 + i = i
      OBVIOUS
    <3>2. /\ SubSeq(Q, 1, n) \in Seq(Chars) /\ Len(SubSeq(Q, 1, n)) = n
          /\ \A i \in 1 .. n : SubSeq(Q, 1, n)[i] = Q[i]
      BY <2>2, <3>1
    <3> QED
      BY <3>2, Zenon
  <2>4. \A i \in 1 .. n : W[i] = P[i]
    BY <1>7, <2>3
  <2> QED
    BY <1>5, <2>3, <2>4, SeqEqual
<1> QED
  BY <1>5, <1>6, <1>8, <1>9 DEF IsSuffix, IsPrefix

\* The parts of a token laid out on a label, each in its place, where only those
\* up to the last but one have to follow one another.
Laid(at, token, target) ==
    /\ at \in [1 .. Len(token) -> 0 .. Len(target)]
    /\ at[1] = 0 /\ at[Len(token)] + Len(token[Len(token)]) = Len(target)
    /\ \A i \in 1 .. Len(token) : at[i] \in FoundAt(token[i], target, 0)
    /\ \A i \in 1 .. Len(token) - 2 : at[i] + Len(token[i]) <= at[i + 1]

\* Taking each part as early as it can be found loses no label: if the parts
\* can be laid out at all, the scan ends, and no later than that layout.
LEMMA GreedyScan ==
    ASSUME NEW token \in Token, IsGlob(token), NEW target \in Label,
           NEW at, Laid(at, token, target)
    PROVE  label_matches_glob(token, target)
<1>1. PICK n \in Nat : n = Len(token) /\ n > 1 /\ \A i \in 1 .. n : token[i] \in Label
  BY DEF Token, IsGlob
<1>2. /\ at \in [1 .. n -> 0 .. Len(target)]
      /\ at[1] = 0 /\ at[n] + Len(token[n]) = Len(target)
      /\ \A i \in 1 .. n : at[i] \in FoundAt(token[i], target, 0)
      /\ \A i \in 1 .. n - 2 : at[i] + Len(token[i]) <= at[i + 1]
  BY <1>1 DEF Laid
<1>3. PICK f : /\ Scan(f, token, target, n - 1)
               /\ label_matches_glob(token, target) <=>
                    f[n - 1] >= 0 /\ IsSuffix(token[n], target)
  <2>1. Len(token) \in Nat \ {0, 1}
    BY <1>1
  <2> QED
    BY <1>1, <2>1, MatchesIs
<1>4. IsSuffix(token[n], target)
  <2>1. n \in 1 .. n /\ token[n] \in Label
    BY <1>1
  <2> QED
    BY <1>2, <2>1, SuffixFound
<1>5. \A i \in 1 .. n : Len(token[i]) \in Nat /\ at[i] \in Nat
  <2>1. Len(target) \in Nat /\ \A i \in 1 .. n : Len(token[i]) \in Nat
    BY <1>1 DEF Label
  <2>2. \A i \in 1 .. n : at[i] \in 0 .. Len(target)
    BY <1>2
  <2> QED
    BY <2>1, <2>2
<1>6. ASSUME NEW i \in 1 .. n - 1
      PROVE  f[i] = IF i = 1 THEN FirstPos(token, target) ELSE NextPos(token, target, f[i - 1], i)
  BY <1>3 DEF Scan
<1> DEFINE S == {i \in 1 .. n - 1 : f[i] \notin 0 .. at[i] + Len(token[i])}
<1>7. S = {}
  <2> SUFFICES ASSUME S # {} PROVE FALSE
    OBVIOUS
  <2>1. S \in SUBSET Nat
    OBVIOUS
  <2>2. PICK i \in S : \A k \in S : i <= k
    <3> HIDE DEF S
    <3> QED
      BY <2>1, LeastElement
  <2>3. i \in 1 .. n - 1 /\ i \in 1 .. n /\ f[i] \notin 0 .. at[i] + Len(token[i])
    BY <2>2
  <2>4. CASE i = 1
    <3>1. token[1] \in Label /\ 0 \in FoundAt(token[1], target, 0)
      BY <1>1, <1>2, <2>3, <2>4
    <3>2. IsPrefix(token[1], target)
      BY <3>1, PrefixFound
    <3>3. f[1] = Len(token[1])
      BY <1>6, <2>3, <2>4, <3>2 DEF FirstPos
    <3> QED
      BY <1>2, <1>5, <2>3, <2>4, <3>3
  <2>5. CASE i # 1
    <3>1. /\ i - 1 \in 1 .. n - 1 /\ i - 1 \in 1 .. n - 2 /\ i - 1 \in 1 .. n /\ i - 1 + 1 = i
          /\ i - 1 \notin S
      BY <2>2, <2>3, <2>5
    <3>2. f[i - 1] \in 0 .. at[i - 1] + Len(token[i - 1])
      BY <3>1
    <3>3. at[i - 1] + Len(token[i - 1]) <= at[i]
      BY <1>2, <3>1
    <3>4. f[i - 1] \in Nat /\ f[i - 1] <= at[i]
      BY <1>5, <2>3, <3>1, <3>2, <3>3
    <3>5. NextPos(token, target, f[i - 1], i) \in 0 .. at[i] + Len(token[i])
      BY <1>1, <1>2, <2>3, <3>4, NextNoLater
    <3>6. f[i] = NextPos(token, target, f[i - 1], i)
      BY <1>6, <2>3, <2>5
    <3> QED
      BY <2>3, <3>5, <3>6
  <2> QED
    BY <2>4, <2>5
<1>8. f[n - 1] >= 0
  <2>1. n - 1 \in 1 .. n - 1 /\ n - 1 \in 1 .. n
    BY <1>1
  <2>2. f[n - 1] \in 0 .. at[n - 1] + Len(token[n - 1])
    BY <1>7, <2>1
  <2> QED
    BY <1>5, <2>1, <2>2
<1> QED
  BY <1>3, <1>4, <1>8

LEMMA GlobIsMatched ==
    ASSUME NEW token \in Token, token # Multi, NEW target \in Label, GlobMeans(token, target)
    PROVE  label_matches_glob(token, target)
<1>1. PICK n \in Nat : n = Len(token) /\ n # 0
  BY DEF Token, Multi
<1>2. CASE n = 1
  BY <1>1, <1>2 DEF GlobMeans, label_matches_glob
<1>3. CASE n # 1
  <2>1. PICK at \in [1 .. n -> 0 .. Len(target)] :
           /\ at[1] = 0 /\ at[n] + Len(token[n]) = Len(target)
           /\ \A i \in 1 .. n : at[i] \in FoundAt(token[i], target, 0)
           /\ \A i \in 1 .. n - 1 : at[i] + Len(token[i]) <= at[i + 1]
    BY <1>1, <1>3 DEF GlobMeans
  <2>2. \A i \in 1 .. n - 2 : i \in 1 .. n - 1
    BY <1>1
  <2>3. Laid(at, token, target) /\ IsGlob(token)
    BY <1>1, <1>3, <2>1, <2>2 DEF Laid, IsGlob
  <2> QED
    BY <2>3, GreedyScan
<1> QED
  BY <1>2, <1>3

\* A part is found where the scan leaves it, after the parts before it.
LEMMA NextIsFound ==
    ASSUME NEW token \in Token, NEW target \in Label, NEW i \in 1 .. Len(token), NEW p \in Nat
    PROVE  LET e == NextPos(token, target, p, i)
           IN  e = -1 \/ /\ e \in Nat /\ e - Len(token[i]) \in FoundAt(token[i], target, 0)
                         /\ p <= e - Len(token[i])
<1>1. token[i] \in Label /\ Len(token[i]) \in Nat /\ Len(target) \in Nat
  BY DEF Token, Label
<1> DEFINE found == FoundAt(token[i], target, p)
<1>2. found \in SUBSET Nat
  BY <1>1 DEF FoundAt
<1>3. NextPos(token, target, p, i) =
        IF p < 0 \/ found = {} THEN -1
        ELSE Len(token[i]) + CHOOSE l \in found : \A q \in found : l <= q
  BY DEF NextPos
<1>4. \A k \in found : k \in FoundAt(token[i], target, 0) /\ p <= k
  BY <1>1, FoundIs
<1> HIDE DEF found
<1>5. CASE found = {}
  BY <1>3, <1>5
<1>6. CASE found # {}
  <2>1. \E l \in found : \A q \in found : l <= q
    BY <1>2, <1>6, LeastElement
  <2>2. PICK k : k = CHOOSE l \in found : \A q \in found : l <= q
    OBVIOUS
  <2>3. k \in found
    BY <2>1, <2>2
  <2>4. NextPos(token, target, p, i) = Len(token[i]) + k /\ k \in Nat
    <3>1. ~(p < 0)
      OBVIOUS
    <3> QED
      BY <1>2, <1>3, <1>6, <2>2, <2>3, <3>1
  <2>5. Len(token[i]) + k - Len(token[i]) = k /\ Len(token[i]) + k \in Nat
    BY <1>1, <2>4
  <2> QED
    BY <1>4, <2>3, <2>4, <2>5
<1> QED
  BY <1>5, <1>6

LEMMA FoundPrefix ==
    ASSUME NEW part \in Label, NEW target \in Label, IsPrefix(part, target)
    PROVE  0 \in FoundAt(part, target, 0)
<1>1. Len(part) \in Nat /\ Len(target) \in Nat /\ SubSeq(part, 1, Len(part)) = part
  BY DEF Label
<1>2. Len(part) <= Len(target) /\ SubSeq(target, 1, Len(part)) = part
  BY <1>1 DEF IsPrefix
<1>3. 0 + 1 = 1 /\ 0 + Len(part) = Len(part) /\ 0 \in 0 .. Len(target) - Len(part)
  BY <1>1, <1>2
<1> QED
  BY <1>2, <1>3 DEF FoundAt

LEMMA FoundSuffix ==
    ASSUME NEW part \in Label, NEW target \in Label, IsSuffix(part, target)
    PROVE  Len(target) - Len(part) \in FoundAt(part, target, 0)
<1>1. PICK n \in Nat, m \in Nat : n = Len(part) /\ m = Len(target)
  BY DEF Label
<1>2. part \in Seq(Chars) /\ target \in Seq(Chars)
  BY DEF Label
<1>3. PICK P \in Seq(Chars) : /\ P = Reverse(part) /\ Len(P) = n
                              /\ \A i \in 1 .. n : P[i] = part[n + 1 - i]
  BY <1>1, <1>2, ReverseIs
<1>4. PICK Q \in Seq(Chars) : /\ Q = Reverse(target) /\ Len(Q) = m
                              /\ \A i \in 1 .. m : Q[i] = target[m + 1 - i]
  BY <1>1, <1>2, ReverseIs
<1>5. n <= m /\ SubSeq(P, 1, n) = SubSeq(Q, 1, n) /\ SubSeq(P, 1, n) = P
  BY <1>3, <1>4 DEF IsSuffix, IsPrefix
<1>6. \A i \in 1 .. n : P[i] = Q[i]
  <2>1. 0 \in Nat /\ 0 <= n /\ n <= Len(Q)
    BY <1>4, <1>5
  <2>2. \A i \in 1 .. n - 0 : SubSeq(Q, 0 + 1, n)[i] = Q[0 + i]
    BY <2>1, Slice
  <2>3. 0 + 1 = 1 /\ n - 0 = n /\ \A i \in 1 .. n : 0 + i = i
    OBVIOUS
  <2>4. \A i \in 1 .. n : SubSeq(Q, 1, n)[i] = Q[i]
    BY <2>2, <2>3
  <2> QED
    BY <1>5, <2>4
<1>7. PICK k \in Nat : k = m - n /\ k <= m /\ m - k = n /\ k + n = m
  BY <1>5
<1>8. \A i \in 1 .. n : part[i] = target[k + i]
  <2>1. ASSUME NEW i \in 1 .. n PROVE part[i] = target[k + i]
    <3>1. n + 1 - i \in 1 .. n /\ n + 1 - i \in 1 .. m /\ n + 1 - (n + 1 - i) = i
          /\ m + 1 - (n + 1 - i) = k + i
      BY <1>5, <1>7
    <3>2. P[n + 1 - i] = part[i] /\ Q[n + 1 - i] = target[k + i]
      BY <1>3, <1>4, <3>1
    <3> QED
      BY <1>6, <3>1, <3>2
  <2> QED
    BY <2>1
<1>9. SubSeq(target, k + 1, m) = part
  <2>1. PICK W \in Seq(Chars) : /\ W = SubSeq(target, k + 1, m) /\ Len(W) = m - k
                                /\ \A i \in 1 .. m - k : W[i] = target[k + i]
    <3>1. /\ SubSeq(target, k + 1, m) \in Seq(Chars) /\ Len(SubSeq(target, k + 1, m)) = m - k
          /\ \A i \in 1 .. m - k : SubSeq(target, k + 1, m)[i] = target[k + i]
      BY <1>1, <1>2, <1>7, Slice
    <3> QED
      BY <3>1, Zenon
  <2>2. Len(W) = n /\ \A i \in 1 .. n : W[i] = part[i]
    BY <1>7, <1>8, <2>1
  <2> QED
    BY <1>1, <1>2, <2>1, <2>2, SeqEqual
<1>10. k \in 0 .. m - n /\ SubSeq(target, k + 1, k + n) = part
  BY <1>7, <1>9
<1> QED
  BY <1>1, <1>7, <1>10 DEF FoundAt

\* What the scan accepts is laid out.
LEMMA ScanLaysOut ==
    ASSUME NEW token \in Token, IsGlob(token), NEW target \in Label,
           label_matches_glob(token, target)
    PROVE  \E at : Laid(at, token, target)
<1>1. PICK n \in Nat : n = Len(token) /\ n > 1 /\ \A i \in 1 .. n : token[i] \in Label
  BY DEF Token, IsGlob
<1>2. PICK f : /\ Scan(f, token, target, n - 1)
               /\ f[n - 1] >= 0 /\ IsSuffix(token[n], target)
  <2>1. Len(token) \in Nat \ {0, 1}
    BY <1>1
  <2> QED
    BY <1>1, <2>1, MatchesIs
<1>3. Len(target) \in Nat /\ \A i \in 1 .. n : Len(token[i]) \in Nat
  BY <1>1 DEF Label
<1>4. ASSUME NEW i \in 1 .. n - 1
      PROVE  f[i] = IF i = 1 THEN FirstPos(token, target) ELSE NextPos(token, target, f[i - 1], i)
  BY <1>2 DEF Scan
<1> DEFINE Good(i) == /\ f[i] \in Nat /\ f[i] - Len(token[i]) \in FoundAt(token[i], target, 0)
                      /\ i = 1 => f[i] = Len(token[i])
                      /\ i # 1 => f[i - 1] \in Nat /\ f[i - 1] <= f[i] - Len(token[i])
           S == {i \in 1 .. n - 1 : ~(f[i] = -1 \/ Good(i))}
<1>5. S = {}
  <2> SUFFICES ASSUME S # {} PROVE FALSE
    OBVIOUS
  <2>1. S \in SUBSET Nat
    OBVIOUS
  <2>2. PICK i \in S : \A k \in S : i <= k
    <3> HIDE DEF S
    <3> QED
      BY <2>1, LeastElement
  <2>3. i \in 1 .. n - 1 /\ i \in 1 .. n /\ i \in 1 .. Len(token) /\ f[i] # -1 /\ ~Good(i)
    BY <1>1, <2>2
  <2>4. CASE i = 1
    <3>1. f[1] = FirstPos(token, target)
      BY <1>4, <2>3, <2>4
    <3>2. IsPrefix(token[1], target) /\ f[1] = Len(token[1])
      BY <2>3, <2>4, <3>1 DEF FirstPos
    <3>3. 0 \in FoundAt(token[1], target, 0) /\ f[1] - Len(token[1]) = 0 /\ f[1] \in Nat
      <4>1. token[1] \in Label /\ Len(token[1]) \in Nat
        BY <1>1, <1>3, <2>3, <2>4
      <4> QED
        BY <3>2, <4>1, FoundPrefix
    <3> QED
      BY <2>3, <2>4, <3>2, <3>3
  <2>5. CASE i # 1
    <3>1. f[i] = NextPos(token, target, f[i - 1], i) /\ i - 1 \in 1 .. n - 1 /\ i - 1 \notin S
      BY <1>4, <2>2, <2>3, <2>5
    <3>2. f[i - 1] = -1 \/ f[i - 1] \in Nat
      BY <3>1
    <3>3. f[i - 1] # -1
      <4>1. ASSUME f[i - 1] = -1 PROVE FALSE
        <5>1. f[i - 1] < 0
          BY <4>1
        <5>2. f[i] = -1
          BY <3>1, <5>1 DEF NextPos
        <5> QED
          BY <2>3, <5>2
      <4> QED
        BY <4>1
    <3>4. f[i - 1] \in Nat
      BY <3>2, <3>3
    <3>5. Good(i)
      <4>1. PICK p \in Nat : p = f[i - 1]
        BY <3>4
      <4>2. PICK e : e = NextPos(token, target, p, i)
        OBVIOUS
      <4>3. e = -1 \/ /\ e \in Nat /\ e - Len(token[i]) \in FoundAt(token[i], target, 0)
                      /\ p <= e - Len(token[i])
        BY <2>3, <4>2, NextIsFound
      <4>4. f[i] = e
        BY <3>1, <4>1, <4>2
      <4> QED
        BY <2>3, <2>5, <4>1, <4>3, <4>4
    <3> QED
      BY <2>3, <3>5
  <2> QED
    BY <2>4, <2>5
<1>6. \A i \in 1 .. n - 1 : f[i] = -1 \/ Good(i)
  BY <1>5
<1> HIDE DEF S
<1> DEFINE D == {k \in 0 .. n - 2 : f[n - 1 - k] = -1}
<1>7. D = {}
  <2> SUFFICES ASSUME D # {} PROVE FALSE
    OBVIOUS
  <2>1. D \in SUBSET Nat
    OBVIOUS
  <2>2. PICK k \in D : \A l \in D : k <= l
    <3> HIDE DEF D
    <3> QED
      BY <2>1, LeastElement
  <2>3. k \in 0 .. n - 2 /\ f[n - 1 - k] = -1
    BY <2>2
  <2>4. k # 0
    <3>1. k = 0 => n - 1 - k = n - 1
      BY <1>1
    <3> QED
      BY <1>2, <2>3, <3>1
  <2>5. PICK i \in 1 .. n - 1 : i = n - 1 - (k - 1) /\ i - 1 = n - 1 - k /\ i # 1
    <3>1. n - 1 - (k - 1) \in 1 .. n - 1 /\ n - 1 - (k - 1) - 1 = n - 1 - k /\ n - 1 - (k - 1) # 1
      BY <1>1, <2>3, <2>4
    <3> QED
      BY <3>1
  <2>6. k - 1 \in 0 .. n - 2 /\ k - 1 \notin D
    BY <2>2, <2>3, <2>4
  <2>7. f[i] # -1
    BY <2>5, <2>6
  <2>8. f[i - 1] \in Nat
    BY <1>6, <2>5, <2>7
  <2> QED
    BY <2>3, <2>5, <2>8
<1>8. ASSUME NEW i \in 1 .. n - 1 PROVE Good(i)
  <2>1. n - 1 - i \in 0 .. n - 2 /\ n - 1 - (n - 1 - i) = i
    OBVIOUS
  <2>2. f[i] # -1
    BY <1>7, <2>1
  <2> QED
    BY <1>6, <2>2
<1> HIDE DEF D
<1> DEFINE at == [i \in 1 .. n |-> IF i < n THEN f[i] - Len(token[i]) ELSE Len(target) - Len(token[n])]
<1>9. ASSUME NEW i \in 1 .. n PROVE at[i] \in FoundAt(token[i], target, 0)
  <2>1. CASE i < n
    <3>1. i \in 1 .. n - 1 /\ at[i] = f[i] - Len(token[i])
      BY <2>1
    <3> QED
      BY <1>8, <3>1
  <2>2. CASE ~(i < n)
    <3>1. i = n /\ at[i] = Len(target) - Len(token[n]) /\ token[n] \in Label
      BY <1>1, <2>2
    <3> QED
      BY <1>2, <3>1, FoundSuffix
  <2> QED
    BY <2>1, <2>2
<1>10. \A i \in 1 .. n : at[i] \in 0 .. Len(target)
  <2>1. ASSUME NEW i \in 1 .. n, NEW x \in FoundAt(token[i], target, 0) PROVE x \in 0 .. Len(target)
    <3>1. Len(token[i]) \in Nat /\ x \in 0 .. Len(target) - Len(token[i])
      BY <1>3 DEF FoundAt
    <3> QED
      BY <1>3, <3>1
  <2> HIDE DEF at
  <2> QED
    BY <1>9, <2>1
<1>11. at[1] = 0 /\ at[n] + Len(token[n]) = Len(target)
  <2>1. 1 \in 1 .. n /\ 1 \in 1 .. n - 1 /\ n \in 1 .. n /\ 1 < n /\ ~(n < n)
    BY <1>1
  <2>2. f[1] = Len(token[1])
    BY <1>8, <2>1
  <2>3. at[1] = f[1] - Len(token[1]) /\ at[n] = Len(target) - Len(token[n])
    BY <2>1
  <2>4. Len(token[1]) \in Nat /\ Len(token[n]) \in Nat
    BY <1>3, <2>1
  <2> HIDE DEF at
  <2> QED
    BY <1>3, <2>2, <2>3, <2>4
<1>12. ASSUME NEW i \in 1 .. n - 2 PROVE at[i] + Len(token[i]) <= at[i + 1]
  <2>1. /\ i \in 1 .. n /\ i < n /\ i + 1 \in 1 .. n /\ i + 1 < n /\ i + 1 # 1 /\ i + 1 - 1 = i
        /\ i \in 1 .. n - 1 /\ i + 1 \in 1 .. n - 1
    BY <1>1
  <2>2. at[i] = f[i] - Len(token[i]) /\ at[i + 1] = f[i + 1] - Len(token[i + 1])
    BY <2>1
  <2>3. f[i] \in Nat /\ f[i] <= f[i + 1] - Len(token[i + 1])
    <3>1. PICK j \in 1 .. n - 1 : j = i + 1 /\ j # 1 /\ j - 1 = i
      BY <2>1
    <3>2. f[j - 1] \in Nat /\ f[j - 1] <= f[j] - Len(token[j])
      BY <1>8, <3>1
    <3> QED
      BY <3>1, <3>2
  <2>4. Len(token[i]) \in Nat
    BY <1>3, <2>1
  <2>5. f[i] - Len(token[i]) + Len(token[i]) = f[i]
    BY <2>3, <2>4
  <2> QED
    BY <2>2, <2>3, <2>5
<1>13. at \in [1 .. n -> 0 .. Len(target)]
  BY <1>10
<1> HIDE DEF at
<1>14. Laid(at, token, target)
  BY <1>1, <1>9, <1>11, <1>12, <1>13 DEF Laid
<1> QED
  BY <1>14

\* A star is compared as the table of block_matcher.rs says, but for one thing:
\* label_matches_glob accepts a label exactly when the parts of the token can be
\* laid out on it with the first at its start, the last at its end and the others
\* one after the other, whether or not the last begins after the one before it.
THEOREM GlobExactly ==
    ASSUME NEW token \in Token, IsGlob(token), NEW target \in Label
    PROVE  label_matches_glob(token, target) <=> \E at : Laid(at, token, target)
BY GreedyScan, ScanLaysOut

-----------------------------------------------------------------------------
(* What the tokens of a path take of the labels                            *)

\* S is closed under what the tokens of a path allow, where <<a, b>> stands for
\* the first a tokens and the first b labels.
Advances(S, path, labels) ==
    /\ <<0, 0>> \in S
    /\ \A a \in 1 .. Len(path), b \in 0 .. Len(labels) :
          /\ path[a] = Multi /\ <<a - 1, b>> \in S => <<a, b>> \in S
          /\ path[a] = Multi /\ b > 0 /\ <<a, b - 1>> \in S => <<a, b>> \in S
          /\ /\ path[a] # Multi /\ b > 0 /\ <<a - 1, b - 1>> \in S
             /\ label_matches_glob(path[a], labels[b])
             => <<a, b>> \in S

\* The path takes the first b labels: every closed set has that pair.
Takes(path, labels, b) ==
    \A S \in SUBSET (Nat \X Nat) : Advances(S, path, labels) => <<Len(path), b>> \in S

LEMMA AdvancesAt ==
    ASSUME NEW S, NEW path, NEW labels, Advances(S, path, labels),
           NEW a \in 1 .. Len(path), NEW b \in 0 .. Len(labels)
    PROVE  /\ path[a] = Multi /\ <<a - 1, b>> \in S => <<a, b>> \in S
           /\ path[a] = Multi /\ b > 0 /\ <<a, b - 1>> \in S => <<a, b>> \in S
           /\ /\ path[a] # Multi /\ b > 0 /\ <<a - 1, b - 1>> \in S
              /\ label_matches_glob(path[a], labels[b])
              => <<a, b>> \in S
BY Zenon DEF Advances

LEMMA TakesNothing == \A labels : Takes(<<>>, labels, 0)
BY DEF Takes, Advances

LEMMA TakesMore ==
    ASSUME NEW node \in Seq(Token), NEW t \in Token, NEW labels, Len(labels) \in Nat,
           NEW b \in 0 .. Len(labels), Takes(node, labels, b)
    PROVE  /\ t = Multi => Takes(Append(node, t), labels, b)
           /\ t # Multi /\ b < Len(labels) /\ label_matches_glob(t, labels[b + 1]) =>
                Takes(Append(node, t), labels, b + 1)
<1>1. PICK m \in Nat : m = Len(node)
  OBVIOUS
<1>2. PICK path : /\ path = Append(node, t) /\ Len(path) = m + 1 /\ path[m + 1] = t
                  /\ \A a \in 1 .. m : path[a] = node[a]
  <2>1. /\ Len(Append(node, t)) = m + 1 /\ Append(node, t)[m + 1] = t
        /\ \A a \in 1 .. m : Append(node, t)[a] = node[a]
    BY <1>1
  <2> QED
    BY <2>1, Zenon
<1>3. ASSUME NEW S \in SUBSET (Nat \X Nat), Advances(S, path, labels)
      PROVE  /\ t = Multi => <<m + 1, b>> \in S
             /\ t # Multi /\ b < Len(labels) /\ label_matches_glob(t, labels[b + 1]) =>
                  <<m + 1, b + 1>> \in S
  <2>1. \A a \in 1 .. m : a \in 1 .. m + 1
    OBVIOUS
  <2>2. Advances(S, node, labels)
    BY <1>1, <1>2, <1>3, <2>1 DEF Advances
  <2>3. <<m, b>> \in S
    BY <1>1, <2>2 DEF Takes
  <2>4. PICK a \in 1 .. Len(path) : a = m + 1 /\ a - 1 = m
    BY <1>2
  <2>5. ASSUME t = Multi PROVE <<m + 1, b>> \in S
    <3>1. path[a] = Multi /\ <<a - 1, b>> \in S => <<a, b>> \in S
      BY <1>3, AdvancesAt
    <3> QED
      BY <1>2, <2>3, <2>4, <2>5, <3>1
  <2>6. ASSUME t # Multi, b < Len(labels), label_matches_glob(t, labels[b + 1])
        PROVE  <<m + 1, b + 1>> \in S
    <3>1. PICK c \in 0 .. Len(labels) : c = b + 1 /\ c > 0 /\ c - 1 = b
      BY <2>6
    <3>2. /\ path[a] # Multi /\ c > 0 /\ <<a - 1, c - 1>> \in S
          /\ label_matches_glob(path[a], labels[c])
          => <<a, c>> \in S
      BY <1>3, AdvancesAt
    <3> QED
      BY <1>2, <2>3, <2>4, <2>6, <3>1, <3>2
  <2> QED
    BY <2>5, <2>6
<1> QED
  BY <1>2, <1>3 DEF Takes

LEMMA TakesOneMore ==
    ASSUME NEW node \in Seq(Token), is_multi(node), NEW labels, Len(labels) \in Nat,
           NEW b \in 0 .. Len(labels), b < Len(labels), Takes(node, labels, b)
    PROVE  Takes(node, labels, b + 1)
<1>1. PICK m \in Nat : m = Len(node)
  OBVIOUS
<1>2. m \in 1 .. m /\ node[m] = Multi
  BY <1>1 DEF is_multi, Last
<1>3. PICK c \in 0 .. Len(labels) : c = b + 1 /\ c > 0 /\ c - 1 = b
  OBVIOUS
<1>4. ASSUME NEW S \in SUBSET (Nat \X Nat), Advances(S, node, labels)
      PROVE  <<m, b + 1>> \in S
  <2>1. <<m, b>> \in S
    BY <1>1, <1>4 DEF Takes
  <2>2. node[m] = Multi /\ c > 0 /\ <<m, c - 1>> \in S => <<m, c>> \in S
    BY <1>1, <1>2, <1>4, AdvancesAt
  <2> QED
    BY <1>2, <1>3, <2>1, <2>2
<1> QED
  BY <1>1, <1>4 DEF Takes

\* What a path takes from the right, the rule means from the left: the pairs that
\* RuleMeans is true of, counted from the other end, are closed.
LEMMA TakesMeans ==
    ASSUME NEW r \in Seq(Token), NEW name \in Seq(Label), NEW b \in 1 .. Len(name),
           Takes(r, Reverse(name), b)
    PROVE  RuleMeans(Reverse(r), SubSeq(name, Len(name) + 1 - b, Len(name)), label_matches_glob)
<1>1. PICK m \in Nat, n \in Nat : m = Len(r) /\ n = Len(name)
  OBVIOUS
<1>2. PICK rule : /\ rule = Reverse(r) /\ Len(rule) = m
                  /\ \A i \in 1 .. m : rule[i] = r[m + 1 - i]
  BY <1>1, ReverseIs
<1>3. PICK labels : /\ labels = Reverse(name) /\ Len(labels) = n
                    /\ \A c \in 1 .. n : labels[c] = name[n + 1 - c]
  BY <1>1, ReverseIs
<1>4. PICK rest : /\ rest = SubSeq(name, Len(name) + 1 - b, Len(name)) /\ Len(rest) = b
                  /\ \A j \in 1 .. b : rest[j] = name[n - b + j]
  <2>1. n - b \in Nat /\ n - b <= n /\ n - b + 1 = n + 1 - b /\ n - (n - b) = b
    BY <1>1
  <2>2. /\ Len(SubSeq(name, n - b + 1, n)) = n - (n - b)
        /\ \A j \in 1 .. n - (n - b) : SubSeq(name, n - b + 1, n)[j] = name[n - b + j]
    BY <1>1, <2>1, Slice
  <2>3. /\ Len(SubSeq(name, n + 1 - b, n)) = b
        /\ \A j \in 1 .. b : SubSeq(name, n + 1 - b, n)[j] = name[n - b + j]
    BY <2>1, <2>2
  <2> QED
    BY <1>1, <2>3, Zenon
<1> DEFINE R == CodePairs(rule, rest)
<1>5. PICK U : Meaning(U, R, rule, rest) /\ (RuleMeans(rule, rest, label_matches_glob) <=> <<1, 1>> \in U)
  <2>1. Len(rule) \in Nat /\ Len(rest) \in Nat
    BY <1>2, <1>4
  <2> QED
    BY <2>1, RuleMeansCode
<1>6. \A i \in 1 .. m, j \in 1 .. b : label_matches_glob(rule[i], rest[j]) => <<i, j>> \in R
  BY <1>2, <1>4 DEF CodePairs
<1> HIDE DEF R
<1>7. ASSUME NEW i \in 1 .. m + 1, NEW j \in 1 .. b + 1, Goes(U, R, rule, rest, i, j)
      PROVE  <<i, j>> \in U
  BY <1>2, <1>4, <1>5, <1>7 DEF Meaning
<1> DEFINE In(a, c) == a <= m /\ c <= b => <<m + 1 - a, b + 1 - c>> \in U
           S == {p \in Nat \X Nat : In(p[1], p[2])}
<1>8. \A a \in Nat, c \in Nat : <<a, c>> \in S <=> In(a, c)
  <2> HIDE DEF In
  <2> QED
    OBVIOUS
<1>9. ASSUME NEW a \in 1 .. m, NEW c \in 0 .. n
      PROVE  /\ r[a] = Multi /\ In(a - 1, c) => In(a, c)
             /\ r[a] = Multi /\ c > 0 /\ In(a, c - 1) => In(a, c)
             /\ /\ r[a] # Multi /\ c > 0 /\ In(a - 1, c - 1)
                /\ label_matches_glob(r[a], labels[c])
                => In(a, c)
  <2>1. CASE c > b
    BY <2>1
  <2>2. CASE c <= b
    <3>1. PICK i \in 1 .. m + 1, j \in 1 .. b + 1 : i = m + 1 - a /\ j = b + 1 - c
      BY <2>2
    <3>2. /\ i \in 1 .. m /\ a <= m /\ a - 1 <= m /\ m + 1 - (a - 1) = i + 1 /\ m + 1 - i = a
          /\ ~(i > Len(rule)) /\ c - 1 <= b
          /\ c > 0 => j \in 1 .. b /\ b + 1 - (c - 1) = j + 1 /\ j <= Len(rest) /\ c \in 1 .. n
          /\ n - b + j = n + 1 - c
      BY <1>2, <1>4, <2>2, <3>1
    <3>3. rule[i] = r[a] /\ (c > 0 => rest[j] = labels[c])
      <4>1. rule[i] = r[m + 1 - i]
        BY <1>2, <3>2
      <4>2. ASSUME c > 0 PROVE rest[j] = name[n - b + j] /\ labels[c] = name[n + 1 - c]
        BY <1>3, <1>4, <3>2, <4>2
      <4> QED
        BY <3>2, <4>1, <4>2
    <3>4. <<i, j>> \in U => In(a, c)
      BY <3>1
    <3>5. ASSUME r[a] = Multi, In(a - 1, c) PROVE In(a, c)
      <4>1. <<i + 1, j>> \in U
        BY <2>2, <3>1, <3>2, <3>5
      <4>2. Goes(U, R, rule, rest, i, j)
        BY <3>2, <3>3, <3>5, <4>1 DEF Goes
      <4> QED
        BY <1>7, <3>4, <4>2
    <3>6. ASSUME r[a] = Multi, c > 0, In(a, c - 1) PROVE In(a, c)
      <4>1. <<i, j + 1>> \in U
        BY <2>2, <3>1, <3>2, <3>6
      <4>2. Goes(U, R, rule, rest, i, j)
        BY <3>2, <3>3, <3>6, <4>1 DEF Goes
      <4> QED
        BY <1>7, <3>4, <4>2
    <3>7. ASSUME r[a] # Multi, c > 0, In(a - 1, c - 1), label_matches_glob(r[a], labels[c])
          PROVE  In(a, c)
      <4>1. <<i + 1, j + 1>> \in U
        BY <2>2, <3>1, <3>2, <3>7
      <4>2. <<i, j>> \in R
        BY <1>6, <3>2, <3>3, <3>7
      <4>3. Goes(U, R, rule, rest, i, j)
        BY <3>2, <3>3, <3>7, <4>1, <4>2 DEF Goes
      <4> QED
        BY <1>7, <3>4, <4>3
    <3> HIDE DEF In
    <3> QED
      BY <3>5, <3>6, <3>7
  <2> QED
    BY <2>1, <2>2
<1>10. In(0, 0)
  <2>1. Goes(U, R, rule, rest, m + 1, b + 1)
    <3>1. m + 1 > Len(rule) /\ b + 1 > Len(rest)
      BY <1>2, <1>4
    <3> QED
      BY <3>1 DEF Goes
  <2>2. <<m + 1, b + 1>> \in U
    <3>1. m + 1 \in 1 .. m + 1 /\ b + 1 \in 1 .. b + 1
      OBVIOUS
    <3> QED
      BY <1>7, <2>1, <3>1
  <2>3. m + 1 - 0 = m + 1 /\ b + 1 - 0 = b + 1
    OBVIOUS
  <2> QED
    BY <2>2, <2>3
<1>11. In(m, b) => <<1, 1>> \in U
  <2>1. m + 1 - m = 1 /\ b + 1 - b = 1 /\ m <= m /\ b <= b
    OBVIOUS
  <2> QED
    BY <2>1
<1>12. S \in SUBSET (Nat \X Nat)
  OBVIOUS
<1> HIDE DEF In, S
<1>13. Advances(S, r, labels)
  <2>1. ASSUME NEW a \in 1 .. Len(r), NEW c \in 0 .. Len(labels)
        PROVE  /\ r[a] = Multi /\ <<a - 1, c>> \in S => <<a, c>> \in S
               /\ r[a] = Multi /\ c > 0 /\ <<a, c - 1>> \in S => <<a, c>> \in S
               /\ /\ r[a] # Multi /\ c > 0 /\ <<a - 1, c - 1>> \in S
                  /\ label_matches_glob(r[a], labels[c])
                  => <<a, c>> \in S
    <3>1. a \in 1 .. m /\ c \in 0 .. n /\ a \in Nat /\ a - 1 \in Nat /\ c \in Nat /\ (c > 0 => c - 1 \in Nat)
      BY <1>1, <1>3
    <3> QED
      BY <1>8, <1>9, <3>1
  <2>2. <<0, 0>> \in S
    BY <1>8, <1>10
  <2> QED
    BY <2>1, <2>2 DEF Advances
<1>14. <<m, b>> \in S
  BY <1>1, <1>3, <1>12, <1>13 DEF Takes
<1>15. b \in Nat
  OBVIOUS
<1> QED
  BY <1>2, <1>4, <1>5, <1>8, <1>11, <1>14, <1>15

-----------------------------------------------------------------------------
(* The walk from the root finds a rule, and the theorems about the matcher *)

LEMMA Longest ==
    ASSUME NEW R, IsFiniteSet(R), \A r \in R : Len(r) \in Nat
    PROVE  \E M \in Nat : \A r \in R : Len(r) <= M
<1> DEFINE Bounded(Q) == \E M \in Nat : \A r \in Q : Len(r) <= M
           Bad(Q) == IsFiniteSet(Q) /\ Q \subseteq R /\ ~Bounded(Q)
           S == {k \in Nat : \E Q : Bad(Q) /\ k = Cardinality(Q)}
<1> SUFFICES ASSUME Bad(R) PROVE FALSE
  OBVIOUS
<1> HIDE DEF Bad
<1>1. Cardinality(R) \in S
  <2>1. Cardinality(R) \in Nat
    BY FS_CardinalityType
  <2> QED
    BY <2>1
<1>2. PICK k \in S : \A l \in S : k <= l
  <2>1. S \in SUBSET Nat /\ S # {}
    BY <1>1
  <2> HIDE DEF S
  <2> QED
    BY <2>1, LeastElement
<1>3. PICK Q : Bad(Q) /\ k = Cardinality(Q)
  BY <1>2
<1>4. Q # {}
  <2>1. Bounded({})
    <3>1. 0 \in Nat
      OBVIOUS
    <3> QED
      BY <3>1
  <2> QED
    BY <1>3, <2>1 DEF Bad
<1>5. PICK x \in Q : TRUE
  BY <1>4
<1>6. /\ IsFiniteSet(Q \ {x}) /\ Cardinality(Q \ {x}) = Cardinality(Q) - 1
      /\ Cardinality(Q) \in Nat /\ Cardinality(Q \ {x}) \in Nat
  <2>1. IsFiniteSet(Q)
    BY <1>3 DEF Bad
  <2>2. IsFiniteSet(Q \ {x}) /\ Cardinality(Q \ {x}) = Cardinality(Q) - 1
    BY <1>5, <2>1, FS_RemoveElement
  <2> QED
    BY <2>1, <2>2, FS_CardinalityType
<1>7. ~Bad(Q \ {x})
  <2>1. Cardinality(Q \ {x}) \notin S
    <3>1. ~(k <= Cardinality(Q \ {x}))
      BY <1>3, <1>6
    <3> HIDE DEF S
    <3> QED
      BY <1>2, <3>1
  <2> QED
    BY <1>6, <2>1
<1>8. Bounded(Q \ {x})
  BY <1>3, <1>6, <1>7 DEF Bad
<1>9. PICK M \in Nat : \A r \in Q \ {x} : Len(r) <= M
  BY <1>8
<1>10. Len(x) \in Nat /\ \A r \in Q : Len(r) \in Nat
  BY <1>3, <1>5 DEF Bad
<1>11. PICK L \in Nat : M <= L /\ Len(x) <= L
  <2>1. M <= M + Len(x) /\ Len(x) <= M + Len(x) /\ M + Len(x) \in Nat
    BY <1>10
  <2> QED
    BY <2>1
<1>12. \A r \in Q : Len(r) <= L
  BY <1>9, <1>10, <1>11
<1> QED
  BY <1>3, <1>12 DEF Bad

\* What the walk finds: a rule that takes all labels, or one that may stop early
\* and takes the first of them.
Finds(rules, labels) ==
    \E r \in rules, c \in 1 .. Len(labels) :
        (c < Len(labels) => EndsEarly(r)) /\ Takes(r, labels, c)

LEMMA ChildIs ==
    ASSUME NEW rules, rules \subseteq Seq(Token), NEW node \in Nodes(rules),
           NEW child \in ChildrenOf(rules, node)
    PROVE  /\ Last(child) \in Token /\ Last(child) # Multi /\ child = Append(node, Last(child))
           /\ node \in Seq(Token) /\ child \in Nodes(rules) /\ Len(child) = Len(node) + 1
           /\ is_multi(node) => EndsEarly(child)
<1>1. /\ child \in Nodes(rules) /\ child # <<>> /\ Front(child) = node /\ Last(child) # Multi
  BY DEF ChildrenOf
<1>2. child \in Seq(Token) /\ node \in Seq(Token)
  BY <1>1, NodesAlong
<1>3. PICK m \in Nat : m = Len(child) /\ m # 0
  BY <1>1, <1>2
<1>4. /\ SubSeq(child, 1, m) = child /\ m \in 1 .. Len(child)
      /\ SubSeq(child, 1, m) = Append(SubSeq(child, 1, m - 1), child[m])
      /\ SubSeq(child, 1, m - 1) = node
  <2>1. m \in 1 .. Len(child) /\ SubSeq(child, 1, m) = child
    BY <1>2, <1>3, Along
  <2>2. /\ SubSeq(child, 1, m) = Append(SubSeq(child, 1, m - 1), child[m])
        /\ Front(SubSeq(child, 1, m)) = SubSeq(child, 1, m - 1)
    BY <1>2, <2>1, Along
  <2> QED
    BY <1>1, <2>1, <2>2, Zenon
<1>5. Last(child) = child[m] /\ child[m] \in Token /\ child = Append(node, child[m])
  BY <1>2, <1>3, <1>4 DEF Last
<1>6. Len(child) = Len(node) + 1 /\ Len(node) \in Nat /\ \A i \in 1 .. Len(node) : child[i] = node[i]
  <2>1. Len(Append(node, child[m])) = Len(node) + 1 /\ Len(node) \in Nat
    BY <1>2
  <2>2. \A i \in 1 .. Len(node) : Append(node, child[m])[i] = node[i]
    BY <1>2
  <2> QED
    BY <1>5, <2>1, <2>2
<1>7. ASSUME is_multi(node) PROVE EndsEarly(child)
  <2>1. Len(node) # 0 /\ node[Len(node)] = Multi
    BY <1>2, <1>7 DEF is_multi, Last
  <2>2. Len(node) \in 1 .. Len(node) /\ Len(child) - 1 = Len(node) /\ Len(child) > 1
    BY <1>6, <2>1
  <2>3. child[Len(child) - 1] = Multi
    BY <1>6, <2>1, <2>2
  <2> QED
    BY <1>1, <1>3, <1>5, <2>2, <2>3 DEF EndsEarly
<1> QED
  BY <1>1, <1>2, <1>5, <1>6, <1>7

\* Where the walk goes on from a place that it is true of, when it has not found
\* a rule yet: to a place with more tokens or more labels.
LEMMA WalkDown ==
    ASSUME NEW rules, rules \subseteq Seq(Token), NEW labels, Len(labels) \in Nat \ {0},
           NEW T, Solves(T, rules, labels),
           NEW node \in Nodes(rules), NEW b \in 0 .. Len(labels),
           <<node, b>> \in T, Takes(node, labels, b), ~Finds(rules, labels)
    PROVE  \E next \in Nodes(rules), c \in 0 .. Len(labels) :
              /\ <<next, c>> \in T /\ Takes(next, labels, c)
              /\ Len(next) + c > Len(node) + b
<1>1. PICK n \in Nat : n = Len(labels) /\ n # 0
  OBVIOUS
<1>2. node \in Seq(Token) /\ Len(node) \in Nat /\ Leads(T, rules, labels, node, b)
  BY NodesAlong DEF Solves
<1>3. b < n => b + 1 \in 0 .. n /\ b + 1 \in 1 .. n
  BY <1>1
<1> DEFINE more == Append(node, Multi)
<1>4. Multi \in Token /\ Len(more) = Len(node) + 1
  BY <1>2 DEF Multi, Token
<1>5. Takes(more, labels, b)
  BY <1>1, <1>2, <1>4, TakesMore
<1>6. is_multi(more) /\ more \in Seq(Token)
  <2>1. more # <<>> /\ more[Len(node) + 1] = Multi /\ more \in Seq(Token)
    BY <1>2, <1>4
  <2> QED
    BY <1>4, <2>1 DEF is_multi, Last
<1> HIDE DEF more
<1>7. ASSUME is_multi(node), b < n, <<node, b + 1>> \in T
      PROVE  \E next \in Nodes(rules), c \in 0 .. Len(labels) :
                /\ <<next, c>> \in T /\ Takes(next, labels, c)
                /\ Len(next) + c > Len(node) + b
  <2>1. Takes(node, labels, b + 1)
    BY <1>1, <1>2, <1>7, TakesOneMore
  <2>2. Len(node) + (b + 1) > Len(node) + b
    BY <1>2
  <2> QED
    BY <1>1, <1>3, <1>7, <2>1, <2>2
<1>8. CASE Accepts(rules, node, b = Len(labels))
  <2>1. node \in rules /\ (b = n \/ is_multi(node))
    BY <1>1, <1>8 DEF Accepts
  <2>2. b # n
    <3>1. ASSUME b = n PROVE FALSE
      <4>1. n \in 1 .. Len(labels) /\ ~(n < Len(labels)) /\ Takes(node, labels, n)
        BY <1>1, <3>1
      <4>2. Finds(rules, labels)
        BY <2>1, <4>1 DEF Finds
      <4> QED
        BY <4>2
    <3> QED
      BY <3>1
  <2>3. is_multi(node) /\ b < n
    BY <1>1, <2>1, <2>2
  <2>4. Leads(T, rules, labels, node, b + 1)
    BY <2>1, <2>3 DEF Leads, Accepts
  <2>5. <<node, b + 1>> \in T
    BY <1>1, <1>3, <2>3, <2>4 DEF Solves
  <2> QED
    BY <1>7, <2>3, <2>5
<1>9. CASE more \in Nodes(rules) /\ <<more, b>> \in T
  <2>1. Len(more) + b > Len(node) + b
    BY <1>2, <1>4
  <2> QED
    BY <1>5, <1>9, <2>1
<1>10. ASSUME b < n, NEW child \in ChildrenOf(rules, node),
              label_matches_glob(Last(child), labels[b + 1]),
              (is_multi(node) /\ child \in rules) \/ <<child, b + 1>> \in T
       PROVE  \E next \in Nodes(rules), c \in 0 .. Len(labels) :
                /\ <<next, c>> \in T /\ Takes(next, labels, c)
                /\ Len(next) + c > Len(node) + b
  <2>1. /\ Last(child) \in Token /\ Last(child) # Multi /\ child = Append(node, Last(child))
        /\ child \in Nodes(rules) /\ Len(child) = Len(node) + 1
        /\ is_multi(node) => EndsEarly(child)
    BY ChildIs
  <2>2. Takes(child, labels, b + 1)
    <3>1. PICK t \in Token : t = Last(child) /\ t # Multi /\ child = Append(node, t)
      BY <2>1
    <3> QED
      BY <1>1, <1>2, <1>10, <3>1, TakesMore
  <2>3. ~(is_multi(node) /\ child \in rules)
    <3>1. ASSUME is_multi(node), child \in rules PROVE FALSE
      <4>1. EndsEarly(child) /\ b + 1 \in 1 .. Len(labels)
        BY <1>1, <1>3, <1>10, <2>1, <3>1
      <4>2. Finds(rules, labels)
        BY <2>2, <3>1, <4>1 DEF Finds
      <4> QED
        BY <4>2
    <3> QED
      BY <3>1
  <2>4. <<child, b + 1>> \in T /\ Len(child) + (b + 1) > Len(node) + b
    BY <1>2, <1>10, <2>1, <2>3
  <2> QED
    BY <1>1, <1>3, <1>10, <2>1, <2>2, <2>4
<1>11. CASE b < n /\ more \in Nodes(rules) /\ <<more, b + 1>> \in T
  <2>1. Takes(more, labels, b + 1)
    BY <1>1, <1>5, <1>6, <1>11, TakesOneMore
  <2>2. Len(more) + (b + 1) > Len(node) + b
    BY <1>2, <1>4
  <2> QED
    BY <1>1, <1>3, <1>11, <2>1, <2>2
<1>12. \/ Accepts(rules, node, b = Len(labels))
       \/ more \in Nodes(rules) /\ <<more, b>> \in T
       \/ b < n /\ \E child \in ChildrenOf(rules, node) :
             /\ label_matches_glob(Last(child), labels[b + 1])
             /\ (is_multi(node) /\ child \in rules) \/ <<child, b + 1>> \in T
       \/ b < n /\ is_multi(node) /\ <<node, b + 1>> \in T
       \/ b < n /\ more \in Nodes(rules) /\ <<more, b + 1>> \in T
  BY <1>1, <1>2 DEF Leads, more
<1> QED
  BY <1>7, <1>8, <1>9, <1>10, <1>11, <1>12

\* The walk is finite, so one that is true of the root finds a rule.
LEMMA WalkFinds ==
    ASSUME NEW rules, rules \subseteq Seq(Token), IsFiniteSet(rules),
           NEW labels, Len(labels) \in Nat \ {0},
           NEW T, Solves(T, rules, labels), <<<<>>, 0>> \in T
    PROVE  Finds(rules, labels)
<1> SUFFICES ASSUME ~Finds(rules, labels) PROVE FALSE
  OBVIOUS
<1>1. PICK M \in Nat : \A r \in rules : Len(r) <= M
  <2>1. \A r \in rules : Len(r) \in Nat
    OBVIOUS
  <2> QED
    BY <2>1, Longest
<1>2. PICK n \in Nat : n = Len(labels)
  OBVIOUS
<1>3. \A node \in Nodes(rules) : Len(node) \in 0 .. M
  <2>1. ASSUME NEW node \in Nodes(rules) PROVE Len(node) \in 0 .. M
    <3>1. node \in Seq(Token) /\ Len(node) \in Nat
      BY NodesAlong
    <3>2. CASE node = <<>>
      BY <3>1, <3>2
    <3>3. CASE node # <<>>
      <4>1. PICK r \in rules : Len(node) <= Len(r)
        BY <3>3, NodesAlong
      <4>2. Len(r) <= M /\ Len(r) \in Nat
        BY <1>1
      <4> QED
        BY <3>1, <4>1, <4>2
    <3> QED
      BY <3>2, <3>3
  <2> QED
    BY <2>1
<1> DEFINE On(node, b) == <<node, b>> \in T /\ Takes(node, labels, b)
           S == {k \in Nat : \E node \in Nodes(rules), b \in 0 .. n :
                    On(node, b) /\ k = M + n - (Len(node) + b)}
<1>4. On(<<>>, 0) /\ <<>> \in Nodes(rules) /\ Len(<<>>) = 0
  BY TakesNothing, NodesAlong
<1>5. ASSUME NEW node \in Nodes(rules), NEW b \in 0 .. n, On(node, b)
      PROVE  \E next \in Nodes(rules), c \in 0 .. n : On(next, c) /\ Len(next) + c > Len(node) + b
  BY <1>2, <1>5, WalkDown
<1> HIDE DEF On
<1>6. ASSUME NEW node \in Nodes(rules), NEW b \in 0 .. n, On(node, b)
      PROVE  M + n - (Len(node) + b) \in S
  <2>1. Len(node) \in 0 .. M
    BY <1>3
  <2>2. M + n - (Len(node) + b) \in Nat
    BY <2>1
  <2> QED
    BY <1>6, <2>2
<1>7. S \in SUBSET Nat /\ S # {}
  <2>1. 0 \in 0 .. n
    OBVIOUS
  <2> QED
    BY <1>4, <1>6, <2>1
<1>8. PICK k \in S : \A l \in S : k <= l
  <2> HIDE DEF S
  <2> QED
    BY <1>7, LeastElement
<1>9. PICK node \in Nodes(rules), b \in 0 .. n : On(node, b) /\ k = M + n - (Len(node) + b)
  BY <1>8
<1> HIDE DEF S
<1>10. PICK next \in Nodes(rules), c \in 0 .. n : On(next, c) /\ Len(next) + c > Len(node) + b
  BY <1>5, <1>9
<1>11. k <= M + n - (Len(next) + c)
  BY <1>6, <1>8, <1>10
<1>12. Len(node) \in Nat /\ Len(next) \in Nat
  BY <1>3
<1> QED
  BY <1>9, <1>10, <1>11, <1>12

LEMMA LastLabels ==
    ASSUME NEW name \in Seq(Label), NEW k \in 1 .. Len(name)
    PROVE  LET rest == SubSeq(name, k, Len(name))
               n == Len(name) + 1 - k
           IN  /\ n \in 1 .. Len(name) /\ Len(rest) = n /\ (k > 1 <=> n < Len(name))
               /\ Len(Reverse(name)) = Len(name)
               /\ \A b \in 1 .. n : Reverse(name)[b] = rest[n + 1 - b]
               /\ \A j \in 1 .. n : rest[j] \in Label
<1>1. PICK l \in Nat, n \in Nat : l = Len(name) /\ n = l + 1 - k /\ n \in 1 .. l /\ (k > 1 <=> n < l)
  OBVIOUS
<1>2. k - 1 \in Nat /\ k - 1 <= l /\ k - 1 + 1 = k /\ l - (k - 1) = n
  BY <1>1
<1>3. /\ Len(SubSeq(name, k - 1 + 1, l)) = l - (k - 1)
      /\ \A j \in 1 .. l - (k - 1) : SubSeq(name, k - 1 + 1, l)[j] = name[k - 1 + j]
  BY <1>1, <1>2, Slice
<1>4. PICK rest : /\ rest = SubSeq(name, k, l) /\ Len(rest) = n
                  /\ \A j \in 1 .. n : rest[j] = name[k - 1 + j]
  BY <1>2, <1>3
<1>5. Len(Reverse(name)) = l /\ \A b \in 1 .. l : Reverse(name)[b] = name[l + 1 - b]
  BY <1>1, ReverseIs
<1>6. ASSUME NEW b \in 1 .. n PROVE Reverse(name)[b] = rest[n + 1 - b]
  <2>1. PICK j \in 1 .. n : j = n + 1 - b /\ k - 1 + j = l + 1 - b /\ b \in 1 .. l
    <3>1. n + 1 - b \in 1 .. n /\ k - 1 + (n + 1 - b) = l + 1 - b /\ b \in 1 .. l
      BY <1>1
    <3> QED
      BY <3>1, Zenon
  <2>2. rest[j] = name[k - 1 + j]
    BY <1>4
  <2>3. Reverse(name)[b] = name[l + 1 - b]
    BY <1>5, <2>1
  <2> QED
    BY <2>1, <2>2, <2>3
<1>7. ASSUME NEW j \in 1 .. n PROVE rest[j] \in Label
  <2>1. k - 1 + j \in 1 .. Len(name)
    BY <1>1
  <2> QED
    BY <1>4, <2>1
<1> QED
  BY <1>1, <1>4, <1>5, <1>6, <1>7

\* What a rule means is blocked, for any set of rules and any name, and so is
\* what lies below it when the rule ends early.
LEMMA MeantIsBlocked ==
    ASSUME NEW m, m.rules \subseteq Seq(Token) \ {<<>>}, NEW r \in m.rules,
           NEW name \in Seq(Label), NEW k \in 1 .. Len(name), k > 1 => StopsEarly(Reverse(r)),
           NEW R, NEW U, Meaning(U, R, Reverse(r), SubSeq(name, k, Len(name))), <<1, 1>> \in U,
           Within(R, r, SubSeq(name, k, Len(name)), Len(name) + 1 - k)
    PROVE  is_blocked(m, name)
<1>1. PICK rules : rules = m.rules /\ rules \subseteq Seq(Token) /\ r \in rules /\ r # <<>>
  OBVIOUS
<1>2. PICK labels : labels = Reverse(name) /\ Len(labels) = Len(name) /\ Len(labels) \in Nat
  BY ReverseIs
<1>3. PICK n \in 1 .. Len(labels) : n = Len(name) + 1 - k /\ (k > 1 <=> n < Len(name))
  BY <1>2, LastLabels
<1>4. PICK rest : /\ rest = SubSeq(name, k, Len(name)) /\ Len(rest) = n
                  /\ \A b \in 1 .. n : labels[b] = rest[n + 1 - b]
  <2>1. /\ Len(SubSeq(name, k, Len(name))) = Len(name) + 1 - k
        /\ \A b \in 1 .. Len(name) + 1 - k :
              Reverse(name)[b] = SubSeq(name, k, Len(name))[Len(name) + 1 - k + 1 - b]
    BY LastLabels
  <2> QED
    BY <1>2, <1>3, <2>1
<1>5. n < Len(labels) => EndsEarly(r)
  <2>1. ASSUME StopsEarly(Reverse(r)) PROVE EndsEarly(r)
    <3>1. r \in Seq(Token) /\ Len(r) \in Nat
      BY <1>1
    <3>2. Len(Reverse(r)) = Len(r) /\ \A i \in 1 .. Len(r) : Reverse(r)[i] = r[Len(r) + 1 - i]
      BY <3>1, ReverseIs
    <3>3. Len(r) > 1 /\ Reverse(r)[2] = Multi /\ Reverse(r)[1] # Multi
      BY <2>1, <3>2 DEF StopsEarly
    <3>4. /\ 1 \in 1 .. Len(r) /\ 2 \in 1 .. Len(r)
          /\ Len(r) + 1 - 1 = Len(r) /\ Len(r) + 1 - 2 = Len(r) - 1
      BY <3>1, <3>3
    <3>5. Reverse(r)[1] = r[Len(r)] /\ Reverse(r)[2] = r[Len(r) - 1]
      BY <3>2, <3>4
    <3> QED
      BY <3>3, <3>5 DEF EndsEarly
  <2> QED
    BY <1>2, <1>3, <2>1
<1>6. PICK T : Solves(T, rules, labels) /\ (match_node(rules, labels) <=> <<<<>>, 0>> \in T)
  BY <1>2, MatchSolves
<1>7. <<<<>>, 0>> \in T
  <2>1. Meaning(U, R, Reverse(r), rest)
    BY <1>4
  <2>2. Within(R, r, rest, n)
    BY <1>3, <1>4 DEF Within
  <2>3. Backwards(rest, labels, n)
    BY <1>4 DEF Backwards
  <2> QED
    BY <1>1, <1>2, <1>5, <1>6, <2>1, <2>2, <2>3, MeaningLeads
<1>8. name # <<>>
  OBVIOUS
<1> QED
  BY <1>1, <1>2, <1>6, <1>7, <1>8 DEF is_blocked

LEMMA GlobIsBlocked ==
    ASSUME NEW m, m.rules \subseteq Seq(Token) \ {<<>>}, NEW r \in m.rules,
           NEW name \in Seq(Label), name # <<>>, RuleMeans(Reverse(r), name, GlobMeans)
    PROVE  is_blocked(m, name)
<1>1. r \in Seq(Token) /\ Reverse(r) \in Seq(Token) /\ Len(Reverse(r)) = Len(r)
  BY ReverseIs
<1>2. PICK U : Meaning(U, GlobPairs(Reverse(r), name), Reverse(r), name) /\ <<1, 1>> \in U
  <2>1. Len(Reverse(r)) \in Nat /\ Len(name) \in Nat
    BY <1>1
  <2> QED
    BY <2>1, RuleMeansGlob
<1>3. PICK R : R = GlobPairs(Reverse(r), name)
  OBVIOUS
<1>4. 1 \in 1 .. Len(name) /\ SubSeq(name, 1, Len(name)) = name /\ ~(1 > 1) /\ Len(name) + 1 - 1 = Len(name)
  OBVIOUS
<1>5. ASSUME NEW i \in 1 .. Len(r), NEW j \in 1 .. Len(name), <<i, j>> \in R, Reverse(r)[i] # Multi
      PROVE  label_matches_glob(Reverse(r)[i], name[j])
  <2>1. Reverse(r)[i] \in Token /\ name[j] \in Label
    BY <1>1
  <2>2. GlobMeans(Reverse(r)[i], name[j])
    BY <1>3, <1>5 DEF GlobPairs
  <2> QED
    BY <1>5, <2>1, <2>2, GlobIsMatched
<1>6. PICK k \in 1 .. Len(name) : k = 1
  BY <1>4
<1>7. /\ ~(k > 1) /\ SubSeq(name, k, Len(name)) = name
      /\ Len(name) + 1 - k = Len(name)
  BY <1>4, <1>6
<1>8. Meaning(U, R, Reverse(r), SubSeq(name, k, Len(name)))
  BY <1>2, <1>3, <1>7
<1>9. Within(R, r, SubSeq(name, k, Len(name)), Len(name) + 1 - k)
  BY <1>5, <1>7 DEF Within
<1> QED
  BY <1>2, <1>7, <1>8, <1>9, MeantIsBlocked

LEMMA CodeIsBlocked ==
    ASSUME NEW m, m.rules \subseteq Seq(Token) \ {<<>>}, NEW r \in m.rules,
           NEW name \in Seq(Label), NEW k \in 1 .. Len(name), k > 1 => StopsEarly(Reverse(r)),
           RuleMeans(Reverse(r), SubSeq(name, k, Len(name)), label_matches_glob)
    PROVE  is_blocked(m, name)
<1>1. Len(Reverse(r)) = Len(r) /\ Len(r) \in Nat
  BY ReverseIs
<1>2. PICK rest : rest = SubSeq(name, k, Len(name)) /\ Len(rest) = Len(name) + 1 - k /\ Len(rest) \in Nat
  <2>1. Len(SubSeq(name, k, Len(name))) = Len(name) + 1 - k /\ Len(name) + 1 - k \in 1 .. Len(name)
    BY LastLabels
  <2>2. Len(name) + 1 - k \in Nat
    BY <2>1
  <2> QED
    BY <2>1, <2>2, Zenon
<1>3. PICK R : R = CodePairs(Reverse(r), rest)
  OBVIOUS
<1>4. PICK U : Meaning(U, R, Reverse(r), rest) /\ <<1, 1>> \in U
  BY <1>1, <1>2, <1>3, RuleMeansCode
<1>5. ASSUME NEW i \in 1 .. Len(r), NEW j \in 1 .. Len(name) + 1 - k, <<i, j>> \in R
      PROVE  label_matches_glob(Reverse(r)[i], rest[j])
  BY <1>3, <1>5 DEF CodePairs
<1>6. Within(R, r, SubSeq(name, k, Len(name)), Len(name) + 1 - k)
  BY <1>2, <1>5 DEF Within
<1> QED
  BY <1>2, <1>4, <1>6, MeantIsBlocked

\* And what is blocked is meant by a rule, or lies below what one that ends
\* early means.
LEMMA BlockedIsMeant ==
    ASSUME NEW m, m.rules \subseteq Seq(Token), IsFiniteSet(m.rules),
           NEW name \in Seq(Label), is_blocked(m, name)
    PROVE  \E r \in m.rules, k \in 1 .. Len(name) :
              /\ k > 1 => StopsEarly(Reverse(r))
              /\ RuleMeans(Reverse(r), SubSeq(name, k, Len(name)), label_matches_glob)
<1>1. PICK rules : rules = m.rules /\ rules \subseteq Seq(Token) /\ IsFiniteSet(rules)
  OBVIOUS
<1>2. name # <<>> /\ match_node(rules, Reverse(name))
  BY <1>1 DEF is_blocked
<1>3. PICK n \in Nat : n = Len(name) /\ n # 0 /\ Len(Reverse(name)) = n
  BY <1>2, ReverseIs
<1>4. PICK T : Solves(T, rules, Reverse(name)) /\ <<<<>>, 0>> \in T
  BY <1>2, <1>3, MatchSolves
<1>5. Finds(rules, Reverse(name))
  BY <1>1, <1>3, <1>4, WalkFinds
<1>6. PICK r \in rules, c \in 1 .. n : (c < n => EndsEarly(r)) /\ Takes(r, Reverse(name), c)
  BY <1>3, <1>5 DEF Finds
<1>7. RuleMeans(Reverse(r), SubSeq(name, n + 1 - c, n), label_matches_glob)
  <2>1. r \in Seq(Token) /\ c \in 1 .. Len(name)
    BY <1>1, <1>3
  <2> QED
    BY <1>3, <1>6, <2>1, TakesMeans
<1>8. PICK k \in 1 .. n : k = n + 1 - c /\ (k > 1 => c < n)
  OBVIOUS
<1>9. ASSUME EndsEarly(r) PROVE StopsEarly(Reverse(r))
  <2>1. PICK l \in Nat : l = Len(r) /\ l > 1 /\ r[l - 1] = Multi /\ r[l] # Multi
    BY <1>1, <1>9 DEF EndsEarly
  <2>2. Len(Reverse(r)) = l /\ \A i \in 1 .. l : Reverse(r)[i] = r[l + 1 - i]
    BY <1>1, <2>1, ReverseIs
  <2>3. 1 \in 1 .. l /\ 2 \in 1 .. l /\ l + 1 - 1 = l /\ l + 1 - 2 = l - 1
    BY <2>1
  <2>4. Reverse(r)[1] = r[l] /\ Reverse(r)[2] = r[l - 1]
    BY <2>2, <2>3
  <2> QED
    BY <2>1, <2>2, <2>4 DEF StopsEarly
<1>10. RuleMeans(Reverse(r), SubSeq(name, k, n), label_matches_glob)
  BY <1>7, <1>8
<1> QED
  BY <1>1, <1>3, <1>6, <1>8, <1>9, <1>10

\* match_node, whatever the rules share of the trie: a name is blocked exactly
\* when a rule means it, label by label as label_matches_glob compares them, or
\* when it lies below a name that such a rule means and the rule is one for which
\* the walk stops early.  This is what the code does, and more than the table at
\* the head of block_matcher.rs allows: BlocksOnlyMeant does not hold.
THEOREM BlockedExactly ==
    ASSUME NEW m, m.rules \subseteq Seq(Token) \ {<<>>}, IsFiniteSet(m.rules),
           NEW name \in Seq(Label)
    PROVE  is_blocked(m, name) <=>
              \E r \in m.rules, k \in 1 .. Len(name) :
                 /\ k > 1 => StopsEarly(Rule(r))
                 /\ RuleMeans(Rule(r), SubSeq(name, k, Len(name)), label_matches_glob)
<1>1. m.rules \subseteq Seq(Token)
  OBVIOUS
<1> QED
  BY <1>1, CodeIsBlocked, BlockedIsMeant DEF Rule

LEMMA CheckedType == \A name \in Checked : name \in Seq(Label) /\ name # <<>>
BY OverridesAssumption DEF Checked

\* For every configuration, is_blocked misses no name that a rule means, while the
\* rules are added one by one.
THEOREM NothingMissedHolds == Spec => []NothingMissed
<1>1. OverridesInv => NothingMissed
  <2> SUFFICES ASSUME OverridesInv, NEW name \in Checked, NEW r \in block_matcher.rules,
                      RuleMeans(Rule(r), name, GlobMeans)
               PROVE  is_blocked(block_matcher, name)
    BY DEF NothingMissed
  <2>1. block_matcher.rules \subseteq Seq(Token) \ {<<>>}
    BY DEF OverridesInv, MatcherInv
  <2>2. RuleMeans(Reverse(r), name, GlobMeans)
    BY DEF Rule
  <2> QED
    BY <2>1, <2>2, CheckedType, GlobIsBlocked
<1> QED
  BY <1>1, OverridesAlways, PTL

-----------------------------------------------------------------------------
(* Plain rules                                                             *)

\* Step by step from 0 to b.
LEMMA Steps ==
    ASSUME NEW b \in Nat, NEW S, 0 \in S, \A m \in 0 .. b - 1 : m \in S => m + 1 \in S
    PROVE  \A m \in 0 .. b : m \in S
<1> DEFINE F == {m \in 0 .. b : m \notin S}
<1> SUFFICES ASSUME F # {} PROVE FALSE
  OBVIOUS
<1>1. F \in SUBSET Nat
  OBVIOUS
<1>2. PICK m \in F : \A k \in F : m <= k
  BY <1>1, LeastElement
<1>3. m # 0 /\ m \in 0 .. b /\ m \notin S
  OBVIOUS
<1>4. m - 1 \in 0 .. b - 1 /\ m - 1 \in 0 .. b /\ m - 1 + 1 = m
  BY <1>3
<1>5. m - 1 \in S
  <2>1. m - 1 \notin F
    BY <1>2, <1>3
  <2> QED
    BY <1>4, <2>1
<1> QED
  BY <1>3, <1>4, <1>5

\* A token of one part means one label.
LEMMA PlainToken ==
    ASSUME NEW token \in Token, Len(token) = 1, NEW label
    PROVE  label_matches_glob(token, label) <=> token = <<label>>
<1>1. token = <<token[1]>>
  BY DEF Token
<1>2. label_matches_glob(token, label) <=> token[1] = label
  BY DEF label_matches_glob
<1> QED
  BY <1>1, <1>2

\* Where a rule has no "**", it means as many labels as it has tokens.
LEMMA Diagonal ==
    ASSUME NEW rule \in Seq(Token), NEW name \in Seq(Label), NEW T,
           Meaning(T, CodePairs(rule, name), rule, name),
           NEW i \in 1 .. Len(rule) + 1, NEW j \in 1 .. Len(name) + 1,
           \A a \in i .. Len(rule) : Len(rule[a]) = 1
    PROVE  <<i, j>> \in T <=>
              /\ Len(rule) + 1 - i = Len(name) + 1 - j
              /\ \A k \in 1 .. Len(rule) + 1 - i : rule[i - 1 + k] = <<name[j - 1 + k]>>
<1>1. PICK l \in Nat, n \in Nat : l = Len(rule) /\ n = Len(name)
  OBVIOUS
<1>2. PICK R : R = CodePairs(rule, name)
  OBVIOUS
<1>3. \A a \in i .. l, c \in 1 .. n : <<a, c>> \in R <=> rule[a] = <<name[c]>>
  <2> SUFFICES ASSUME NEW a \in i .. l, NEW c \in 1 .. n
               PROVE  <<a, c>> \in R <=> rule[a] = <<name[c]>>
    OBVIOUS
  <2>1. a \in 1 .. l /\ rule[a] \in Token /\ Len(rule[a]) = 1
    BY <1>1
  <2>2. <<a, c>> \in R <=> label_matches_glob(rule[a], name[c])
    BY <1>1, <1>2, <2>1 DEF CodePairs
  <2> QED
    BY <2>1, <2>2, PlainToken
<1>4. ASSUME NEW a \in i .. l, NEW c \in 1 .. n + 1
      PROVE  <<a, c>> \in T <=> c <= n /\ rule[a] = <<name[c]>> /\ <<a + 1, c + 1>> \in T
  <2>1. a \in 1 .. l + 1 /\ ~(a > l)
    BY <1>1
  <2>9. rule[a] # Multi
    <3>1. Len(rule[a]) = 1
      BY <1>1
    <3>2. Len(<<>>) = 0 /\ 0 # 1
      OBVIOUS
    <3> QED
      BY <3>1, <3>2, Zenon DEF Multi
  <2>2. <<a, c>> \in T <=> Goes(T, R, rule, name, a, c)
    BY <1>1, <1>2, <2>1 DEF Meaning
  <2>3. c <= n => c \in 1 .. n
    OBVIOUS
  <2> QED
    BY <1>1, <1>3, <2>1, <2>2, <2>3, <2>9 DEF Goes
<1>5. ASSUME NEW c \in 1 .. n + 1 PROVE <<l + 1, c>> \in T <=> c = n + 1
  <2>1. l + 1 \in 1 .. l + 1 /\ l + 1 > l
    OBVIOUS
  <2>2. <<l + 1, c>> \in T <=> Goes(T, R, rule, name, l + 1, c)
    BY <1>1, <1>2, <2>1 DEF Meaning
  <2>3. Goes(T, R, rule, name, l + 1, c) <=> c > n
    BY <1>1, <2>1 DEF Goes
  <2>4. c > n <=> c = n + 1
    OBVIOUS
  <2> QED
    BY <2>2, <2>3, <2>4
<1>6. PICK b \in Nat : b = l + 1 - i
  <2>1. l + 1 - i \in Nat
    BY <1>1
  <2> QED
    BY <2>1
<1>7. ASSUME <<i, j>> \in T
      PROVE  /\ b = n + 1 - j
             /\ \A k \in 1 .. b : rule[i - 1 + k] = <<name[j - 1 + k]>>
  <2> DEFINE S == {m \in 0 .. b : j + m <= n + 1 /\ <<i + m, j + m>> \in T}
  <2>1. 0 \in S
    BY <1>1, <1>7
  <2>2. ASSUME NEW m \in 0 .. b - 1, m \in S
        PROVE  m + 1 \in S /\ j + m <= n /\ rule[i + m] = <<name[j + m]>>
    <3>1. i + m \in i .. l /\ j + m \in 1 .. n + 1 /\ <<i + m, j + m>> \in T
      BY <1>1, <1>6, <2>2, SMTT(30)
    <3>2. j + m <= n /\ rule[i + m] = <<name[j + m]>> /\ <<i + m + 1, j + m + 1>> \in T
      BY <1>4, <3>1
    <3>3. i + m + 1 = i + (m + 1) /\ j + m + 1 = j + (m + 1) /\ m + 1 \in 0 .. b
      BY <1>6
    <3>4. j + (m + 1) <= n + 1
      BY <3>2
    <3> QED
      BY <3>2, <3>3, <3>4
  <2> HIDE DEF S
  <2>3. \A m \in 0 .. b : m \in S
    BY <2>1, <2>2, Steps
  <2>4. b = n + 1 - j
    <3>1. b \in S
      BY <1>6, <2>3
    <3>2. j + b \in 1 .. n + 1 /\ <<i + b, j + b>> \in T /\ i + b = l + 1
      BY <1>1, <1>6, <3>1 DEF S
    <3>3. j + b = n + 1
      BY <1>5, <3>2
    <3> QED
      BY <1>1, <3>3
  <2>5. ASSUME NEW k \in 1 .. b PROVE rule[i - 1 + k] = <<name[j - 1 + k]>>
    <3>1. k - 1 \in 0 .. b - 1 /\ k - 1 \in 0 .. b /\ i + (k - 1) = i - 1 + k /\ j + (k - 1) = j - 1 + k
      BY <1>1, <1>6
    <3>2. rule[i + (k - 1)] = <<name[j + (k - 1)]>>
      BY <2>2, <2>3, <3>1
    <3> QED
      BY <3>1, <3>2
  <2> QED
    BY <2>4, <2>5
<1>8. ASSUME b = n + 1 - j, \A k \in 1 .. b : rule[i - 1 + k] = <<name[j - 1 + k]>>
      PROVE  <<i, j>> \in T
  <2> DEFINE S == {m \in 0 .. b : <<l + 1 - m, n + 1 - m>> \in T}
  <2>1. 0 \in S
    BY <1>1, <1>5
  <2>2. ASSUME NEW m \in 0 .. b - 1, m \in S PROVE m + 1 \in S
    <3>1. PICK a \in i .. l, c \in 1 .. n : /\ a = l - m /\ c = n - m
                                            /\ a + 1 = l + 1 - m /\ c + 1 = n + 1 - m
                                            /\ a = l + 1 - (m + 1) /\ c = n + 1 - (m + 1)
      BY <1>1, <1>6, <1>8
    <3>2. b - m \in 1 .. b
      BY <1>6
    <3>5. i - 1 + (b - m) = a
      BY <1>6, <3>1
    <3>6. j - 1 + (b - m) = c
      BY <1>8, <3>1
    <3>3. rule[a] = <<name[c]>> /\ <<a + 1, c + 1>> \in T
      BY <1>8, <2>2, <3>1, <3>2, <3>5, <3>6
    <3>7. c \in 1 .. n + 1 /\ c <= n /\ m + 1 \in 0 .. b
      BY <1>6
    <3>4. <<a, c>> \in T
      BY <1>4, <3>3, <3>7
    <3> QED
      BY <3>1, <3>4, <3>7
  <2> HIDE DEF S
  <2>5. \A m \in 0 .. b : m \in S
    BY <2>1, <2>2, Steps
  <2>6. b \in 0 .. b
    BY <1>6
  <2>3. b \in S
    BY <2>5, <2>6
  <2>4. l + 1 - b = i /\ n + 1 - b = j
    BY <1>1, <1>6, <1>8
  <2> QED
    BY <2>3, <2>4 DEF S
<1> QED
  BY <1>1, <1>6, <1>7, <1>8

\* What a plain rule means.
LEMMA PlainMeans ==
    ASSUME NEW rule \in Seq(Token), rule # <<>>, Plain(rule), NEW name \in Seq(Label)
    PROVE  RuleMeans(rule, name, label_matches_glob) <=>
              IF rule[1] = Multi THEN EndsIn(rule, 2, name)
              ELSE Len(rule) = Len(name) /\ EndsIn(rule, 1, name)
<1>1. PICK l \in Nat, n \in Nat : l = Len(rule) /\ n = Len(name) /\ l # 0
  OBVIOUS
<1>2. PICK T : /\ Meaning(T, CodePairs(rule, name), rule, name)
               /\ RuleMeans(rule, name, label_matches_glob) <=> <<1, 1>> \in T
  BY <1>1, RuleMeansCode
<1>3. \A a \in 2 .. l : Len(rule[a]) = 1
  BY <1>1 DEF Plain
<1>4. CASE rule[1] # Multi
  <2>1. \A a \in 1 .. l : Len(rule[a]) = 1
    BY <1>1, <1>4 DEF Plain
  <2>2. 1 \in 1 .. l + 1 /\ 1 \in 1 .. n + 1 /\ l + 1 - 1 = l /\ n + 1 - 1 = n
    OBVIOUS
  <2>3. <<1, 1>> \in T <=>
           /\ Len(rule) + 1 - 1 = Len(name) + 1 - 1
           /\ \A k \in 1 .. Len(rule) + 1 - 1 : rule[1 - 1 + k] = <<name[1 - 1 + k]>>
    <3>1. 1 \in 1 .. Len(rule) + 1 /\ 1 \in 1 .. Len(name) + 1
      OBVIOUS
    <3>2. \A a \in 1 .. Len(rule) : Len(rule[a]) = 1
      BY <1>1, <2>1
    <3> QED
      BY <1>2, <3>1, <3>2, Diagonal
  <2>4. <<1, 1>> \in T <=> l = n /\ \A k \in 1 .. l : rule[1 - 1 + k] = <<name[1 - 1 + k]>>
    BY <1>1, <2>2, <2>3
  <2>5. l = n => (EndsIn(rule, 1, name) <=> \A k \in 1 .. l : rule[1 - 1 + k] = <<name[n - l + k]>>)
    BY <1>1, <2>2 DEF EndsIn
  <2>6. l = n => \A k \in 1 .. l : n - l + k = 1 - 1 + k
    OBVIOUS
  <2>7. <<1, 1>> \in T <=> l = n /\ EndsIn(rule, 1, name)
    BY <2>4, <2>5, <2>6
  <2> QED
    BY <1>1, <1>2, <1>4, <2>7
<1>5. CASE rule[1] = Multi
  <2>1. ASSUME NEW j \in 1 .. n + 1
        PROVE  <<1, j>> \in T <=> <<2, j>> \in T \/ (j <= n /\ <<1, j + 1>> \in T)
    <3>1. 1 \in 1 .. l + 1 /\ ~(1 > l) /\ 1 + 1 = 2
      BY <1>1
    <3>2. <<1, j>> \in T <=> Goes(T, CodePairs(rule, name), rule, name, 1, j)
      BY <1>1, <1>2, <3>1 DEF Meaning
    <3> QED
      BY <1>1, <1>5, <3>1, <3>2 DEF Goes
  <2>2. ASSUME <<1, 1>> \in T, \A j \in 1 .. n + 1 : <<2, j>> \notin T PROVE FALSE
    <3> DEFINE S == {m \in 0 .. n : <<1, m + 1>> \in T}
    <3>1. 0 \in S
      BY <1>1, <2>2
    <3>2. ASSUME NEW m \in 0 .. n - 1, m \in S PROVE m + 1 \in S
      <4>1. m + 1 \in 1 .. n + 1 /\ m + 1 \in 0 .. n
        BY <1>1
      <4> QED
        BY <2>1, <2>2, <3>2, <4>1
    <3> HIDE DEF S
    <3>5. \A m \in 0 .. n : m \in S
      BY <3>1, <3>2, Steps
    <3>6. n \in 0 .. n
      OBVIOUS
    <3>3. n \in S
      BY <3>5, <3>6
    <3>4. n + 1 \in 1 .. n + 1 /\ ~(n + 1 <= n) /\ <<1, n + 1>> \in T
      BY <1>1, <3>3 DEF S
    <3> QED
      BY <2>1, <2>2, <3>4
  <2>3. ASSUME NEW j \in 1 .. n + 1, <<2, j>> \in T PROVE <<1, 1>> \in T
    <3> DEFINE S == {m \in 0 .. j - 1 : <<1, j - m>> \in T}
    <3>1. 0 \in S
      <4>1. <<1, j>> \in T
        BY <2>1, <2>3
      <4>2. j - 0 = j /\ 0 \in 0 .. j - 1
        OBVIOUS
      <4> QED
        BY <4>1, <4>2
    <3>2. ASSUME NEW m \in 0 .. (j - 1) - 1, m \in S PROVE m + 1 \in S
      <4>1. PICK c \in 1 .. n + 1 : /\ c = j - (m + 1) /\ c <= n /\ c + 1 = j - m
                                    /\ m + 1 \in 0 .. j - 1
        BY <1>1
      <4>2. <<1, c>> \in T
        BY <2>1, <3>2, <4>1
      <4> QED
        BY <4>1, <4>2
    <3> HIDE DEF S
    <3>3. j - 1 \in Nat /\ j - 1 \in 0 .. j - 1
      BY <1>1
    <3>4. j - 1 \in S
      BY <3>1, <3>2, <3>3, Steps
    <3> QED
      BY <1>1, <3>4 DEF S
  <2>4. ASSUME NEW j \in 1 .. n + 1
        PROVE  <<2, j>> \in T <=> /\ l - 1 = n + 1 - j
                                  /\ \A k \in 1 .. l - 1 : rule[2 - 1 + k] = <<name[j - 1 + k]>>
    <3>1. 2 \in 1 .. l + 1 /\ l + 1 - 2 = l - 1
      BY <1>1
    <3>2. <<2, j>> \in T <=>
             /\ Len(rule) + 1 - 2 = Len(name) + 1 - j
             /\ \A k \in 1 .. Len(rule) + 1 - 2 : rule[2 - 1 + k] = <<name[j - 1 + k]>>
      BY <1>1, <1>2, <1>3, <3>1, Diagonal
    <3> QED
      BY <1>1, <3>1, <3>2
  <2>5. EndsIn(rule, 2, name) <=>
           l - 1 <= n /\ \A k \in 1 .. l - 1 : rule[2 - 1 + k] = <<name[n - (l - 1) + k]>>
    <3>1. Len(rule) + 1 - 2 = l - 1
      BY <1>1
    <3> QED
      BY <1>1, <3>1 DEF EndsIn
  <2>6. ASSUME <<1, 1>> \in T PROVE EndsIn(rule, 2, name)
    <3>1. PICK j \in 1 .. n + 1 : <<2, j>> \in T
      BY <2>2, <2>6
    <3>2. l - 1 = n + 1 - j /\ \A k \in 1 .. l - 1 : rule[2 - 1 + k] = <<name[j - 1 + k]>>
      BY <2>4, <3>1
    <3>3. l - 1 <= n /\ n - (l - 1) = j - 1
      BY <1>1, <3>2
    <3> QED
      BY <2>5, <3>2, <3>3
  <2>7. ASSUME EndsIn(rule, 2, name) PROVE <<1, 1>> \in T
    <3>1. l - 1 <= n /\ \A k \in 1 .. l - 1 : rule[2 - 1 + k] = <<name[n - (l - 1) + k]>>
      BY <2>5, <2>7
    <3>2. PICK j \in 1 .. n + 1 : l - 1 = n + 1 - j /\ n - (l - 1) = j - 1
      <4>1. PICK j \in Int : j = n + 1 - (l - 1)
        OBVIOUS
      <4>2. j \in 1 .. n + 1
        BY <1>1, <3>1, <4>1
      <4>3. l - 1 = n + 1 - j /\ n - (l - 1) = j - 1
        BY <4>1
      <4> QED
        BY <4>2, <4>3
    <3>3. \A k \in 1 .. l - 1 : rule[2 - 1 + k] = <<name[j - 1 + k]>>
      BY <3>1, <3>2
    <3>4. <<2, j>> \in T
      BY <2>4, <3>2, <3>3
    <3> QED
      BY <2>3, <3>4
  <2> QED
    BY <1>2, <1>5, <2>6, <2>7
<1> QED
  BY <1>4, <1>5

\* For every configuration of exact names and suffixes, a name is blocked exactly
\* when it is one of the names, or one of the suffixes or below it.
THEOREM PlainRulesAreExactHolds == Spec => []PlainRulesAreExact
<1>1. ASSUME NEW r \in Seq(Token) \ {<<>>}, Plain(Reverse(r)), NEW name \in Seq(Label)
      PROVE  /\ ~StopsEarly(Reverse(r))
             /\ RuleMeans(Reverse(r), name, label_matches_glob) <=>
                   IF Rule(r)[1] = Multi THEN EndsIn(Rule(r), 2, name)
                   ELSE Len(Rule(r)) = Len(name) /\ EndsIn(Rule(r), 1, name)
  <2>1. Reverse(r) \in Seq(Token) \ {<<>>}
    <3>1. PICK n \in Nat : n = Len(r) /\ n # 0 /\ \A k \in 1 .. n : r[k] \in Token
      OBVIOUS
    <3>2. Reverse(r) = [k \in 1 .. n |-> r[n - k + 1]]
      BY <3>1 DEF Reverse
    <3>3. \A k \in 1 .. n : r[n - k + 1] \in Token
      BY <3>1
    <3>4. [k \in 1 .. n |-> r[n - k + 1]] \in Seq(Token)
      BY <3>3
    <3>5. DOMAIN Reverse(r) = 1 .. n /\ 1 \in 1 .. n
      BY <3>1, <3>2
    <3>6. Reverse(r) # <<>>
      BY <3>5
    <3> QED
      BY <3>2, <3>4, <3>6
  <2>2. PICK rule \in Seq(Token) : rule = Reverse(r) /\ rule # <<>>
    BY <2>1
  <2>3. ~StopsEarly(rule)
    <3> SUFFICES ASSUME StopsEarly(rule) PROVE FALSE
      OBVIOUS
    <3>1. 2 \in DOMAIN rule /\ rule[2] = <<>>
      BY DEF StopsEarly, Multi
    <3>2. Plain(rule)
      BY <1>1, <2>2
    <3>3. Len(rule[2]) = 1
      <4>1. Len(rule[2]) = 1 \/ 2 = 1
        BY <3>1, <3>2, Zenon DEF Plain
      <4> QED
        BY <4>1
    <3>4. Len(<<>>) = 0 /\ 0 # 1
      OBVIOUS
    <3> QED
      BY <3>1, <3>3, <3>4, Zenon
  <2>4. RuleMeans(rule, name, label_matches_glob) <=>
           IF rule[1] = Multi THEN EndsIn(rule, 2, name)
           ELSE Len(rule) = Len(name) /\ EndsIn(rule, 1, name)
    BY <1>1, <2>2, PlainMeans
  <2> QED
    BY <2>2, <2>3, <2>4 DEF Rule
<1>2. OverridesInv => PlainRulesAreExact
  <2> SUFFICES ASSUME OverridesInv, \A r \in block_matcher.rules : Plain(Rule(r)),
                      NEW name \in Checked
               PROVE  is_blocked(block_matcher, name) <=>
                         \E r \in block_matcher.rules :
                            IF Rule(r)[1] = Multi THEN EndsIn(Rule(r), 2, name)
                            ELSE Len(Rule(r)) = Len(name) /\ EndsIn(Rule(r), 1, name)
    BY DEF PlainRulesAreExact
  <2>1. block_matcher.rules \subseteq Seq(Token) \ {<<>>} /\ IsFiniteSet(block_matcher.rules)
    BY DEF OverridesInv, MatcherInv
  <2>2. name \in Seq(Label) /\ name # <<>>
    BY CheckedType
  <2>3. is_blocked(block_matcher, name) <=>
           \E r \in block_matcher.rules, k \in 1 .. Len(name) :
              /\ k > 1 => StopsEarly(Rule(r))
              /\ RuleMeans(Rule(r), SubSeq(name, k, Len(name)), label_matches_glob)
    BY <2>1, <2>2, BlockedExactly
  <2>4. 1 \in 1 .. Len(name) /\ SubSeq(name, 1, Len(name)) = name
    BY <2>2
  <2>5. \A r \in block_matcher.rules :
           (\E k \in 1 .. Len(name) : /\ k > 1 => StopsEarly(Rule(r))
                                      /\ RuleMeans(Rule(r), SubSeq(name, k, Len(name)), label_matches_glob))
           <=> RuleMeans(Rule(r), name, label_matches_glob)
    <3> SUFFICES ASSUME NEW r \in block_matcher.rules
                 PROVE  (\E k \in 1 .. Len(name) :
                            /\ k > 1 => StopsEarly(Rule(r))
                            /\ RuleMeans(Rule(r), SubSeq(name, k, Len(name)), label_matches_glob))
                        <=> RuleMeans(Rule(r), name, label_matches_glob)
      OBVIOUS
    <3>1. ~StopsEarly(Rule(r))
      BY <1>1, <2>1, <2>2 DEF Rule
    <3>2. \A k \in 1 .. Len(name) : ~(k > 1) => k = 1
      OBVIOUS
    <3>3. ~(1 > 1)
      OBVIOUS
    <3> QED
      BY <2>4, <3>1, <3>2, <3>3
  <2>6. \A r \in block_matcher.rules :
           RuleMeans(Rule(r), name, label_matches_glob) <=>
              IF Rule(r)[1] = Multi THEN EndsIn(Rule(r), 2, name)
              ELSE Len(Rule(r)) = Len(name) /\ EndsIn(Rule(r), 1, name)
    BY <1>1, <2>1, <2>2 DEF Rule
  <2> QED
    BY <2>3, <2>5, <2>6
<1> QED
  BY <1>2, OverridesAlways, PTL
=============================================================================
