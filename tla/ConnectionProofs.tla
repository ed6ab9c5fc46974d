-------------------------- MODULE ConnectionProofs --------------------------
(***************************************************************************)
(* What is true of a connection for every base of the length prefix, every *)
(* read size and every stream: the decoder's buffer is bounded, answers    *)
(* leave in order and uncut, and the streaming decoder finds what the      *)
(* decoder of a whole buffer finds.                                        *)
(***************************************************************************)
EXTENDS Connection, WellFoundedInduction, NaturalsInduction, SequenceTheorems, TLAPS

-----------------------------------------------------------------------------
(* Sequences and numbers *)

LEMMA Cat ==
    ASSUME NEW X, NEW s \in Seq(X), NEW t \in Seq(X)
    PROVE  /\ s \o t \in Seq(X) /\ Len(s \o t) = Len(s) + Len(t)
           /\ \A i \in 1 .. Len(s) : (s \o t)[i] = s[i]
           /\ \A i \in 1 .. Len(t) : (s \o t)[Len(s) + i] = t[i]
<1>1. Len(s) \in Nat /\ Len(t) \in Nat
  OBVIOUS
<1>2. \A i \in 1 .. Len(s) + Len(t) :
         (s \o t)[i] = IF i <= Len(s) THEN s[i] ELSE t[i - Len(s)]
  BY ConcatProperties
<1>3. s \o t \in Seq(X) /\ Len(s \o t) = Len(s) + Len(t)
  BY ConcatProperties
<1>4. ASSUME NEW i \in 1 .. Len(s) PROVE (s \o t)[i] = s[i]
  BY <1>1, <1>2
<1>5. ASSUME NEW i \in 1 .. Len(t) PROVE (s \o t)[Len(s) + i] = t[i]
  BY <1>1, <1>2
<1> QED
  BY <1>3, <1>4, <1>5

LEMMA Slice ==
    ASSUME NEW X, NEW s \in Seq(X), NEW a \in Nat, NEW b \in Nat, a <= b, b <= Len(s)
    PROVE  /\ SubSeq(s, a + 1, b) \in Seq(X) /\ Len(SubSeq(s, a + 1, b)) = b - a
           /\ \A i \in 1 .. b - a : SubSeq(s, a + 1, b)[i] = s[a + i]
<1>1. Len(s) \in Nat /\ \A i \in a + 1 .. b : s[i] \in X
  OBVIOUS
<1>2. /\ SubSeq(s, a + 1, b) \in Seq(X)
      /\ Len(SubSeq(s, a + 1, b)) = IF a + 1 <= b THEN b - (a + 1) + 1 ELSE 0
      /\ \A i \in 1 .. b - (a + 1) + 1 : SubSeq(s, a + 1, b)[i] = s[a + 1 + i - 1]
  BY <1>1, SubSeqProperties
<1> QED
  BY <1>2

LEMMA Half ==
    ASSUME NEW p \in Nat, NEW n \in Nat, ~(p >= n \div 2)
    PROVE  2 * p + 2 <= n
OBVIOUS
-----------------------------------------------------------------------------
(* The length prefix *)

D == DEFAULT_MAX_TCP_FRAME

LEMMA PrefixRange ==
    /\ D \in Nat /\ D >= 3 /\ D + 1 = Base * Base
    /\ \A a, b \in Byte : Base * a + b \in 0 .. D
<1>1. Base \in Int /\ Base >= 2
  BY BaseAssumption
<1>2. Base * Base >= 4
  BY <1>1
<1>3. D \in Nat /\ D >= 3 /\ D + 1 = Base * Base
  BY <1>1, <1>2 DEF D, DEFAULT_MAX_TCP_FRAME
<1>4. ASSUME NEW a \in Byte, NEW b \in Byte
      PROVE  Base * a + b \in 0 .. D
  <2>1. a \in Int /\ b \in Int /\ 0 <= a /\ a <= Base - 1 /\ 0 <= b /\ b <= Base - 1
    BY <1>1, <1>4 DEF Byte
  <2>2. Base * a <= Base * (Base - 1) /\ 0 <= Base * a
    BY <1>1, <2>1
  <2>3. Base * (Base - 1) = Base * Base - Base
    BY <1>1
  <2> QED
    BY <1>1, <1>3, <2>1, <2>2, <2>3
<1> QED
  BY <1>3, <1>4

\* A frame is made of bytes, whatever the length of the response.
LEMMA FrameType ==
    ASSUME NEW r \in Responses
    PROVE  /\ encode_tcp_frame(r) \in Seq(Byte)
           /\ Len(encode_tcp_frame(r)) = Len(r) + 2
<1>1. r \in Seq(Byte) /\ Len(r) \in Nat
  <2>1. PICK e \in Exchanges : r = e[2]
    BY DEF Responses
  <2>2. e \in Nat \X Seq(Byte)
    BY <2>1, ConnectionAssumption
  <2> QED
    BY <2>1, <2>2
<1>3. Base \in Nat /\ Base > 1
  BY BaseAssumption
<1>4. Base * Base \in Nat /\ Base * Base > 0
  BY <1>3
<1> DEFINE w == Len(r) % (Base * Base)
<1>2. w \in Nat /\ w < Base * Base
  BY <1>1, <1>4
<1> HIDE DEF w
<1>5. w \div Base \in Byte /\ w % Base \in Byte
  <2> DEFINE q == w \div Base
             m == w % Base
  <2>1. q \in Int /\ m \in Int /\ w = Base * q + m /\ 0 <= m /\ m < Base
    BY <1>2, <1>3
  <2>2. q <= Base - 1 /\ 0 <= q
    BY <1>2, <1>3, <2>1
  <2> QED
    BY <1>3, <2>1, <2>2 DEF Byte
<1> DEFINE p == <<w \div Base, w % Base>>
<1>6. p \in Seq(Byte) /\ Len(p) = 2
  BY <1>5
<1>7. encode_tcp_frame(r) = p \o r
  BY DEF encode_tcp_frame, w
<1> HIDE DEF p
<1>8. p \o r \in Seq(Byte) /\ Len(p \o r) = Len(p) + Len(r)
  BY <1>1, <1>6, Cat
<1> QED
  BY <1>1, <1>6, <1>7, <1>8
-----------------------------------------------------------------------------
(* The decoder *)

\* The consumed part of the buffer is shorter than the rest of it.
Compact(d) == d.read_pos = 0 \/ 2 * d.read_pos + 2 <= Len(d.buf)

Sound(d) == d \in TcpFrameDecoder /\ d.read_pos <= Len(d.buf) /\ Compact(d)

LEMMA AnnouncedType ==
    ASSUME NEW d, Sound(d), buffered(d) >= 2
    PROVE  Announced(d) \in 0 .. D
<1>1. d.buf \in Seq(Byte) /\ d.read_pos \in Nat /\ Len(d.buf) \in Nat
  BY DEF Sound, TcpFrameDecoder
<1>2. d.read_pos + 1 \in 1 .. Len(d.buf) /\ d.read_pos + 2 \in 1 .. Len(d.buf)
  BY <1>1 DEF buffered
<1>3. d.buf[d.read_pos + 1] \in Byte /\ d.buf[d.read_pos + 2] \in Byte
  BY <1>1, <1>2
<1> QED
  BY <1>3, PrefixRange DEF Announced, LengthAt

LEMMA FeedSound ==
    ASSUME NEW d, Sound(d), NEW data \in Seq(Byte)
    PROVE  /\ Sound(feed(d, data))
           /\ feed(d, data).buf = d.buf \o data
           /\ feed(d, data).read_pos = d.read_pos
<1>1. d.buf \in Seq(Byte) /\ d.read_pos \in Nat /\ Len(d.buf) \in Nat /\ Len(data) \in Nat
  BY DEF Sound, TcpFrameDecoder
<1>3. d.buf \o data \in Seq(Byte) /\ Len(d.buf \o data) = Len(d.buf) + Len(data)
  BY <1>1, Cat
<1>2. feed(d, data) \in TcpFrameDecoder
      /\ feed(d, data).buf = d.buf \o data /\ feed(d, data).read_pos = d.read_pos
  BY <1>3 DEF feed, Sound, TcpFrameDecoder
<1> DEFINE e == feed(d, data)
<1>4. e.read_pos <= Len(e.buf) /\ Compact(e)
  <2> HIDE DEF e
  <2>1. e.read_pos = d.read_pos /\ Len(e.buf) = Len(d.buf) + Len(data)
    BY <1>2, <1>3 DEF e
  <2> QED
    BY <1>1, <2>1 DEF Sound, Compact
<1> QED
  BY <1>2, <1>4 DEF Sound

LEMMA AdvanceSound ==
    ASSUME NEW d, Sound(d), HasFrame(d)
    PROVE  LET e == Advance(d)
               k == 2 + Announced(d)
           IN  /\ Sound(e) /\ Len(e.buf) <= Len(d.buf)
               /\ k \in Nat /\ k <= buffered(d) /\ buffered(e) = buffered(d) - k
               /\ \A i \in 1 .. buffered(e) : e.buf[e.read_pos + i] = d.buf[d.read_pos + k + i]
<1> DEFINE k == 2 + Announced(d)
           L == Len(d.buf)
           p == d.read_pos + 2 + Announced(d)
           e == Advance(d)
<1>1. d \in TcpFrameDecoder /\ d.buf \in Seq(Byte) /\ d.read_pos \in Nat /\ L \in Nat
  BY DEF Sound, TcpFrameDecoder
<1>2. k \in Nat /\ k <= buffered(d) /\ buffered(d) = L - d.read_pos
  BY AnnouncedType DEF HasFrame, buffered, D
<1>3. p = d.read_pos + k /\ p \in Nat /\ p <= L
  <2>1. Announced(d) \in Nat
    BY AnnouncedType DEF HasFrame, D
  <2> QED
    BY <1>1, <1>2, <2>1
<1>4. CASE p >= L \div 2
  <2>1. e = [d EXCEPT !.buf = SubSeq(@, p + 1, Len(@)), !.read_pos = 0]
    BY <1>4 DEF Advance
  <2> HIDE DEF p, k, e, L
  <2>2. SubSeq(d.buf, p + 1, L) \in Seq(Byte) /\ Len(SubSeq(d.buf, p + 1, L)) = L - p
        /\ \A i \in 1 .. L - p : SubSeq(d.buf, p + 1, L)[i] = d.buf[p + i]
    <3>1. PICK b \in Seq(Byte), j \in Nat, n \in Nat : b = d.buf /\ j = p /\ n = L
      BY <1>1, <1>3
    <3>2. j <= n /\ n <= Len(b)
      BY <1>1, <1>3, <3>1 DEF L
    <3> QED
      BY <3>1, <3>2, Slice
  <2>3. e \in TcpFrameDecoder /\ e.buf = SubSeq(d.buf, p + 1, L) /\ e.read_pos = 0
    <3>1. e = [buf |-> SubSeq(d.buf, p + 1, L), read_pos |-> 0]
      BY <1>1, <2>1 DEF TcpFrameDecoder, L
    <3> QED
      BY <2>2, <3>1 DEF TcpFrameDecoder
  <2>4. Sound(e) /\ Len(e.buf) <= L /\ buffered(e) = buffered(d) - k
    <3>1. Len(e.buf) = L - p /\ e.read_pos = 0 /\ e \in TcpFrameDecoder
      BY <2>2, <2>3
    <3>2. Sound(e) /\ buffered(e) = L - p
      BY <1>1, <1>3, <3>1 DEF Sound, Compact, buffered
    <3> QED
      BY <1>1, <1>2, <1>3, <3>1, <3>2
  <2>5. ASSUME NEW i \in 1 .. buffered(e) PROVE e.buf[e.read_pos + i] = d.buf[d.read_pos + k + i]
    <3>1. i \in 1 .. L - p /\ e.buf[e.read_pos + i] = SubSeq(d.buf, p + 1, L)[i]
      BY <1>1, <1>2, <1>3, <2>3, <2>4
    <3> QED
      BY <1>3, <2>2, <3>1
  <2> QED
    BY <1>2, <2>4, <2>5 DEF k, e, L
<1>5. CASE ~(p >= L \div 2)
  <2>1. e = [d EXCEPT !.read_pos = p]
    BY <1>5 DEF Advance
  <2> HIDE DEF p, k, e
  <2>2. e \in TcpFrameDecoder /\ e.buf = d.buf /\ e.read_pos = p
    BY <1>1, <1>3, <2>1 DEF TcpFrameDecoder
  <2>3. 2 * p + 2 <= L
    <3> HIDE DEF L
    <3> QED
      BY <1>1, <1>3, <1>5, Half
  <2>4. Sound(e) /\ Len(e.buf) <= L /\ buffered(e) = buffered(d) - k
    BY <1>1, <1>2, <1>3, <2>2, <2>3 DEF Sound, Compact, buffered
  <2> QED
    BY <1>1, <1>2, <1>3, <2>2, <2>4 DEF k, e
<1> QED
  BY <1>4, <1>5

\* What a decoder without a frame may hold.
LEMMA NoFrameBound ==
    ASSUME NEW d, Sound(d), ~HasFrame(d)
    PROVE  Len(d.buf) <= 2 * D
<1>1. d.buf \in Seq(Byte) /\ d.read_pos \in Nat /\ Len(d.buf) \in Nat
  BY DEF Sound, TcpFrameDecoder
<1>2. D \in Nat /\ D >= 3
  BY PrefixRange
<1>3. buffered(d) <= D + 1
  BY <1>1, <1>2, AnnouncedType DEF HasFrame, buffered
<1> QED
  BY <1>1, <1>2, <1>3 DEF Sound, Compact, buffered
-----------------------------------------------------------------------------
(* FlattenSeq, by induction on the number of sequences *)

LEMMA LeastElement ==
    ASSUME NEW S \in SUBSET Nat, S # {}
    PROVE  \E m \in S : \A k \in S : m <= k
<1> DEFINE R == OpToRel(<, Nat)
<1>1. IsWellFoundedOn(R, Nat)
  BY NatLessThanWellFounded
<1> HIDE DEF R
<1>2. PICK m \in S : \A k \in S : ~(<<k, m>> \in R)
  BY <1>1, WFMin
<1>3. \A k \in Nat : k < m => <<k, m>> \in R
  BY DEF R, OpToRel
<1>4. \A k \in S : ~(k < m)
  BY <1>2, <1>3
<1> QED
  BY <1>2, <1>4

\* f is what FlattenSeq defines recursively, up to the n-th sequence.
Flat(f, s, n) == f = [i \in 1 .. n |-> IF i = 1 THEN s[i] ELSE f[i - 1] \o s[i]]

LEMMA FlatAt ==
    ASSUME NEW s, NEW n \in Nat, NEW f, Flat(f, s, n), NEW i \in 1 .. n
    PROVE  f[i] = IF i = 1 THEN s[i] ELSE f[i - 1] \o s[i]
<1> DEFINE g == [j \in 1 .. n |-> IF j = 1 THEN s[j] ELSE f[j - 1] \o s[j]]
<1>1. f = g
  BY DEF Flat
<1>2. g[i] = IF i = 1 THEN s[i] ELSE f[i - 1] \o s[i]
  OBVIOUS
<1> HIDE DEF g
<1> QED
  BY <1>1, <1>2

LEMMA FlatStep ==
    ASSUME NEW s, NEW n \in Nat, NEW f, Flat(f, s, n)
    PROVE  \E g : Flat(g, s, n + 1)
<1> DEFINE g == [i \in 1 .. n + 1 |->
                   IF i <= n THEN f[i] ELSE IF i = 1 THEN s[i] ELSE f[i - 1] \o s[i]]
           h == [i \in 1 .. n + 1 |-> IF i = 1 THEN s[i] ELSE g[i - 1] \o s[i]]
<1>1. ASSUME NEW i \in 1 .. n + 1 PROVE g[i] = IF i = 1 THEN s[i] ELSE g[i - 1] \o s[i]
  <2>1. CASE i <= n
    <3>1. i \in 1 .. n /\ g[i] = f[i] /\ (i # 1 => i - 1 \in 1 .. n /\ g[i - 1] = f[i - 1])
      BY <2>1
    <3>2. f[i] = IF i = 1 THEN s[i] ELSE f[i - 1] \o s[i]
      BY <3>1 DEF Flat
    <3> QED
      BY <3>1, <3>2
  <2>2. CASE ~(i <= n)
    <3>1. i # 1 => i - 1 \in 1 .. n /\ i - 1 <= n /\ g[i - 1] = f[i - 1]
      BY <2>2
    <3> QED
      BY <2>2, <3>1
  <2> QED
    BY <2>1, <2>2
<1>2. g = h
  <2>1. \A i \in 1 .. n + 1 : g[i] = h[i]
    BY <1>1
  <2> HIDE DEF g
  <2>2. g = [i \in 1 .. n + 1 |-> g[i]]
    BY DEF g
  <2> QED
    BY <2>1, <2>2
<1> QED
  BY <1>2 DEF Flat

LEMMA FlatExists ==
    ASSUME NEW s, NEW n \in Nat
    PROVE  \E f : Flat(f, s, n)
<1> DEFINE S == {m \in Nat : ~ \E f : Flat(f, s, m)}
<1> SUFFICES ASSUME S # {} PROVE FALSE
  OBVIOUS
<1>1. PICK m \in S : \A k \in S : m <= k
  BY LeastElement
<1>2. m # 0
  <2> DEFINE f == [i \in 1 .. 0 |-> s]
  <2>1. f = [i \in 1 .. 0 |-> IF i = 1 THEN s[i] ELSE f[i - 1] \o s[i]]
    OBVIOUS
  <2>2. Flat(f, s, 0)
    BY <2>1 DEF Flat
  <2> QED
    BY <1>1, <2>2
<1>3. m - 1 \in Nat /\ m - 1 \notin S
  BY <1>1, <1>2
<1>4. PICK f : Flat(f, s, m - 1)
  BY <1>3
<1>5. \E g : Flat(g, s, m - 1 + 1)
  BY <1>3, <1>4, FlatStep
<1> QED
  BY <1>1, <1>5

\* It is a sequence over the same set, and what it is at i depends on the first
\* i sequences only.
LEMMA FlatType ==
    ASSUME NEW X, NEW s \in Seq(Seq(X)), NEW n \in Nat, n <= Len(s), NEW f, Flat(f, s, n)
    PROVE  \A i \in 1 .. n : f[i] \in Seq(X)
<1> DEFINE S == {i \in 1 .. n : f[i] \notin Seq(X)}
<1> SUFFICES ASSUME S # {} PROVE FALSE
  OBVIOUS
<1>0. S \in SUBSET Nat
  OBVIOUS
<1>1. PICK m \in S : \A k \in S : m <= k
  <2> HIDE DEF S
  <2> QED
    BY <1>0, LeastElement
<1>2. m \in 1 .. n /\ f[m] \notin Seq(X) /\ s[m] \in Seq(X)
  BY <1>1
<1>3. f[m] = IF m = 1 THEN s[m] ELSE f[m - 1] \o s[m]
  BY <1>2, FlatAt
<1>4. m # 1 => m - 1 \in 1 .. n /\ f[m - 1] \in Seq(X)
  BY <1>1, <1>2
<1> QED
  BY <1>2, <1>3, <1>4, Cat

LEMMA FlatAgree ==
    ASSUME NEW s, NEW t, NEW m \in Nat, NEW n \in Nat, m <= n, \A i \in 1 .. m : s[i] = t[i]
    PROVE  \A f, g : Flat(f, s, m) /\ Flat(g, t, n) => \A i \in 1 .. m : f[i] = g[i]
<1> SUFFICES ASSUME NEW f, NEW g, Flat(f, s, m), Flat(g, t, n)
             PROVE  \A i \in 1 .. m : f[i] = g[i]
  OBVIOUS
<1> DEFINE S == {i \in 1 .. m : f[i] # g[i]}
<1> SUFFICES ASSUME S # {} PROVE FALSE
  OBVIOUS
<1>0. S \in SUBSET Nat
  OBVIOUS
<1>1. PICK j \in S : \A k \in S : j <= k
  <2> HIDE DEF S
  <2> QED
    BY <1>0, LeastElement
<1>2. j \in 1 .. m /\ j \in 1 .. n /\ f[j] # g[j]
  BY <1>1
<1>3. f[j] = IF j = 1 THEN s[j] ELSE f[j - 1] \o s[j]
  BY <1>2, FlatAt
<1>4. g[j] = IF j = 1 THEN t[j] ELSE g[j - 1] \o t[j]
  BY <1>2, FlatAt
<1>5. j # 1 => f[j - 1] = g[j - 1]
  BY <1>1, <1>2
<1> QED
  BY <1>2, <1>3, <1>4, <1>5

LEMMA FlattenIs ==
    ASSUME NEW s, Len(s) \in Nat \ {0}
    PROVE  \E f : Flat(f, s, Len(s)) /\ FlattenSeq(s) = f[Len(s)]
<1> DEFINE flatten == CHOOSE f : f = [i \in 1 .. Len(s) |-> IF i = 1 THEN s[i] ELSE f[i - 1] \o s[i]]
<1>1. \E f : f = [i \in 1 .. Len(s) |-> IF i = 1 THEN s[i] ELSE f[i - 1] \o s[i]]
  BY FlatExists DEF Flat
<1>2. Flat(flatten, s, Len(s))
  BY <1>1 DEF Flat
<1>3. FlattenSeq(s) = flatten[Len(s)]
  BY DEF FlattenSeq
<1> QED
  BY <1>2, <1>3

LEMMA FlattenAppend ==
    ASSUME NEW X, NEW s \in Seq(Seq(X)), NEW x \in Seq(X)
    PROVE  /\ FlattenSeq(s) \in Seq(X)
           /\ FlattenSeq(Append(s, x)) = FlattenSeq(s) \o x
<1> DEFINE n == Len(s)
           t == Append(s, x)
<1>1. /\ n \in Nat /\ t \in Seq(Seq(X)) /\ Len(t) = n + 1 /\ t[n + 1] = x
      /\ \A i \in 1 .. n : s[i] = t[i]
  OBVIOUS
<1> HIDE DEF t
<1>2. PICK g : Flat(g, t, n + 1) /\ FlattenSeq(t) = g[n + 1]
  <2>1. Len(t) \in Nat \ {0}
    BY <1>1
  <2>2. \E g : Flat(g, t, Len(t)) /\ FlattenSeq(t) = g[Len(t)]
    BY <2>1, FlattenIs, Zenon
  <2> HIDE DEF n
  <2> QED
    BY <1>1, <2>2, Zenon
<1>3. g[n + 1] = IF n + 1 = 1 THEN t[n + 1] ELSE g[n + 1 - 1] \o t[n + 1]
  <2>1. n + 1 \in Nat /\ n + 1 \in 1 .. n + 1
    BY <1>1
  <2> QED
    BY <1>2, <2>1, FlatAt
<1>4. CASE n = 0
  <2>1. FlattenSeq(s) = <<>> /\ s = <<>>
    BY <1>4 DEF FlattenSeq
  <2>2. <<>> \o x = x
    BY ConcatEmptySeq
  <2> QED
    BY <1>1, <1>2, <1>3, <1>4, <2>1, <2>2 DEF t
<1>5. CASE n # 0
  <2>1. PICK f : Flat(f, s, n) /\ FlattenSeq(s) = f[n]
    BY <1>1, <1>5, FlattenIs
  <2>0. n \in 1 .. n /\ n <= n /\ n <= n + 1 /\ n + 1 \in Nat
    BY <1>1, <1>5
  <2>2. f[n] \in Seq(X)
    <3>1. \A i \in 1 .. n : f[i] \in Seq(X)
      BY <1>1, <2>0, <2>1, FlatType
    <3> QED
      BY <2>0, <3>1
  <2>3. f[n] = g[n]
    <3>1. \A i \in 1 .. n : f[i] = g[i]
      <4> HIDE DEF n
      <4>1. n \in Nat /\ \A i \in 1 .. n : s[i] = t[i]
        BY <1>1, <2>0
      <4>2. PICK k \in Nat : n <= k /\ Flat(g, t, k)
        BY <1>2, <2>0
      <4>3. Flat(f, s, n)
        BY <2>1
      <4>4. PICK u : u = t
        OBVIOUS
      <4>5. \A i \in 1 .. n : s[i] = u[i]
        BY <4>1, <4>4
      <4>6. \A a, b : Flat(a, s, n) /\ Flat(b, u, k) => \A i \in 1 .. n : a[i] = b[i]
        BY <4>1, <4>2, <4>5, FlatAgree
      <4> QED
        BY <4>2, <4>3, <4>4, <4>6
    <3> QED
      BY <2>0, <3>1
  <2>4. n + 1 # 1 /\ n + 1 - 1 = n
    BY <1>1, <1>5
  <2> QED
    BY <1>1, <1>2, <1>3, <2>1, <2>2, <2>3, <2>4 DEF t
<1> QED
  BY <1>4, <1>5
-----------------------------------------------------------------------------
(* Prefixes *)

LEMMA PrefixIs ==
    ASSUME NEW X, NEW s \in Seq(X), NEW t \in Seq(X)
    PROVE  IsPrefix(s, t) <=> Len(s) <= Len(t) /\ \A i \in 1 .. Len(s) : s[i] = t[i]
<1>1. Len(s) \in Nat /\ Len(t) \in Nat
  OBVIOUS
<1> SUFFICES ASSUME Len(s) <= Len(t)
             PROVE  SubSeq(s, 1, Len(s)) = SubSeq(t, 1, Len(s))
                       <=> \A i \in 1 .. Len(s) : s[i] = t[i]
  BY DEF IsPrefix
<1>2. /\ SubSeq(s, 1, Len(s)) \in Seq(X) /\ Len(SubSeq(s, 1, Len(s))) = Len(s)
      /\ \A i \in 1 .. Len(s) : SubSeq(s, 1, Len(s))[i] = s[i]
  BY <1>1
<1>3. /\ SubSeq(t, 1, Len(s)) \in Seq(X) /\ Len(SubSeq(t, 1, Len(s))) = Len(s)
      /\ \A i \in 1 .. Len(s) : SubSeq(t, 1, Len(s))[i] = t[i]
  BY <1>1
<1>4. ASSUME \A i \in 1 .. Len(s) : s[i] = t[i]
      PROVE  SubSeq(s, 1, Len(s)) = SubSeq(t, 1, Len(s))
  BY <1>2, <1>3, <1>4, SeqEqual
<1>5. ASSUME SubSeq(s, 1, Len(s)) = SubSeq(t, 1, Len(s)), NEW i \in 1 .. Len(s)
      PROVE  s[i] = t[i]
  BY <1>2, <1>3, <1>5
<1> QED
  BY <1>4, <1>5

LEMMA PrefixSelf ==
    ASSUME NEW X, NEW s \in Seq(X)
    PROVE  IsPrefix(s, s)
BY PrefixIs

LEMMA PrefixCat ==
    ASSUME NEW X, NEW s \in Seq(X), NEW t \in Seq(X), NEW u \in Seq(X), IsPrefix(s, t)
    PROVE  IsPrefix(s, t \o u)
<1>1. Len(s) \in Nat /\ Len(t) \in Nat /\ Len(u) \in Nat
  OBVIOUS
<1>2. Len(s) <= Len(t) /\ \A i \in 1 .. Len(s) : s[i] = t[i]
  BY PrefixIs
<1>3. t \o u \in Seq(X) /\ Len(t \o u) = Len(t) + Len(u)
      /\ \A i \in 1 .. Len(t) : (t \o u)[i] = t[i]
  BY Cat
<1>4. Len(s) <= Len(t \o u) /\ \A i \in 1 .. Len(s) : s[i] = (t \o u)[i]
  BY <1>1, <1>2, <1>3
<1> QED
  BY <1>3, <1>4, PrefixIs

LEMMA CutPrefix ==
    ASSUME NEW X, NEW s \in Seq(X), NEW u \in Seq(X), NEW n \in 0 .. Len(u)
    PROVE  /\ s \o SubSeq(u, 1, n) \in Seq(X)
           /\ IsPrefix(s \o SubSeq(u, 1, n), s \o u)
<1>1. Len(s) \in Nat /\ Len(u) \in Nat /\ n \in Nat /\ n <= Len(u)
  OBVIOUS
<1>2. PICK v \in Seq(X) : v = SubSeq(u, 1, n) /\ Len(v) = n /\ \A i \in 1 .. n : v[i] = u[i]
  <2>1. /\ SubSeq(u, 1, n) \in Seq(X) /\ Len(SubSeq(u, 1, n)) = n
        /\ \A i \in 1 .. n : SubSeq(u, 1, n)[i] = u[i]
    BY <1>1
  <2> QED
    BY <2>1
<1>3. /\ s \o v \in Seq(X) /\ Len(s \o v) = Len(s) + n
      /\ \A i \in 1 .. Len(s) : (s \o v)[i] = s[i]
      /\ \A i \in 1 .. n : (s \o v)[Len(s) + i] = v[i]
  <2>1. /\ s \o v \in Seq(X) /\ Len(s \o v) = Len(s) + Len(v)
        /\ \A i \in 1 .. Len(s) : (s \o v)[i] = s[i]
        /\ \A i \in 1 .. Len(v) : (s \o v)[Len(s) + i] = v[i]
    BY Cat
  <2> QED
    BY <1>2, <2>1
<1>4. /\ s \o u \in Seq(X) /\ Len(s \o u) = Len(s) + Len(u)
      /\ \A i \in 1 .. Len(s) : (s \o u)[i] = s[i]
      /\ \A i \in 1 .. Len(u) : (s \o u)[Len(s) + i] = u[i]
  BY Cat
<1>5. ASSUME NEW i \in 1 .. Len(s \o v) PROVE (s \o v)[i] = (s \o u)[i]
  <2>1. CASE i <= Len(s)
    BY <1>1, <1>3, <1>4, <2>1
  <2>2. CASE ~(i <= Len(s))
    <3> DEFINE j == i - Len(s)
    <3>0. i \in 1 .. Len(s) + n
      BY <1>3
    <3>1. j \in 1 .. n /\ i = Len(s) + j
      BY <1>1, <2>2, <3>0
    <3> HIDE DEF j
    <3> QED
      BY <1>1, <1>2, <1>3, <1>4, <3>1
  <2> QED
    BY <2>1, <2>2
<1>6. IsPrefix(s \o v, s \o u)
  <2>1. Len(s \o v) <= Len(s \o u)
    BY <1>1, <1>3, <1>4
  <2> QED
    BY <1>3, <1>4, <1>5, <2>1, PrefixIs
<1> QED
  BY <1>2, <1>3, <1>6
-----------------------------------------------------------------------------
(* The frames of the answers *)

Frames(a, n) == FlattenSeq([i \in 1 .. n |-> encode_tcp_frame(a[i])])

\* One frame more is the frames before it, and that frame.
LEMMA FramesGrow ==
    ASSUME NEW a \in Seq(Responses), NEW n \in Nat, n < Len(a)
    PROVE  /\ Frames(a, n) \in Seq(Byte)
           /\ a[n + 1] \in Responses
           /\ Frames(a, n + 1) = Frames(a, n) \o encode_tcp_frame(a[n + 1])
<1> DEFINE s == [i \in 1 .. n |-> encode_tcp_frame(a[i])]
           t == [i \in 1 .. n + 1 |-> encode_tcp_frame(a[i])]
           x == encode_tcp_frame(a[n + 1])
<1>1. \A i \in 1 .. n + 1 : a[i] \in Responses /\ encode_tcp_frame(a[i]) \in Seq(Byte)
  BY FrameType
<1>2. s \in Seq(Seq(Byte)) /\ Len(s) = n
  BY <1>1
<1>3. t \in Seq(Seq(Byte)) /\ Len(t) = n + 1
  BY <1>1
<1>4. x \in Seq(Byte)
  BY <1>1
<1>5. Append(s, x) \in Seq(Seq(Byte)) /\ Len(Append(s, x)) = n + 1
  <2> HIDE DEF s, x
  <2> QED
    BY <1>2, <1>4
<1>6. ASSUME NEW i \in 1 .. n + 1 PROVE t[i] = Append(s, x)[i]
  <2>1. CASE i = n + 1
    BY <1>2, <2>1
  <2>2. CASE i # n + 1
    BY <1>2, <2>2
  <2> QED
    BY <2>1, <2>2
<1>7. t = Append(s, x)
  <2> HIDE DEF s, t, x
  <2> QED
    BY <1>3, <1>5, <1>6, SeqEqual
<1>8. FlattenSeq(s) \in Seq(Byte) /\ FlattenSeq(Append(s, x)) = FlattenSeq(s) \o x
  <2> HIDE DEF s, x
  <2> QED
    BY <1>2, <1>4, FlattenAppend
<1>9. a[n + 1] \in Responses
  BY <1>1
<1>10. Frames(a, n) = FlattenSeq(s) /\ Frames(a, n + 1) = FlattenSeq(t)
  BY DEF Frames
<1> HIDE DEF s, t
<1> QED
  BY <1>7, <1>8, <1>9, <1>10

LEMMA FramesType ==
    ASSUME NEW a \in Seq(Responses), NEW n \in 0 .. Len(a)
    PROVE  Frames(a, n) \in Seq(Byte)
<1> DEFINE s == [i \in 1 .. n |-> encode_tcp_frame(a[i])]
<1>1. s \in Seq(Seq(Byte))
  BY FrameType
<1> HIDE DEF s
<1>2. <<>> \in Seq(Byte)
  OBVIOUS
<1> QED
  BY <1>1, <1>2, FlattenAppend DEF Frames, s

\* Later answers leave the frames of the earlier ones alone.
LEMMA FramesKept ==
    ASSUME NEW a \in Seq(Responses), NEW r \in Responses, NEW n \in 0 .. Len(a)
    PROVE  Frames(Append(a, r), n) = Frames(a, n)
<1>1. \A i \in 1 .. n : Append(a, r)[i] = a[i]
  OBVIOUS
<1>2. [i \in 1 .. n |-> encode_tcp_frame(Append(a, r)[i])] = [i \in 1 .. n |-> encode_tcp_frame(a[i])]
  BY <1>1
<1> QED
  BY <1>2 DEF Frames

LEMMA NoFrames == Frames(<<>>, 0) = <<>>
<1>1. [i \in 1 .. 0 |-> encode_tcp_frame(<<>>[i])] = <<>>
  OBVIOUS
<1> QED
  BY <1>1 DEF Frames, FlattenSeq
-----------------------------------------------------------------------------
(* The types, and the size of the buffer *)

\* A decoder that waits for bytes has no whole frame, hence at most two frames'
\* worth of buffer, and a blackhole that drains is below its limit.
BufferInv ==
    /\ TypeOK
    /\ Sound(decoder)
    /\ Len(decoder.buf) <= 2 * D + ReadSize
    /\ pc \in {"read", "handshake"} => Len(decoder.buf) <= 2 * D
    /\ pc = "drain" => total_read <= MaxHeader
    /\ pc = "write" => answers # <<>>

LEMMA PieceType ==
    ASSUME NEW data \in Pieces
    PROVE  data \in Seq(Byte) /\ Len(data) <= ReadSize
<1>1. PICK n \in 1 .. ReadSize : data \in [1 .. n -> Byte]
  BY DEF Pieces
<1> QED
  BY <1>1, ConnectionAssumption

\* The frame that is being written.
LEMMA FrameIsBytes ==
    ASSUME answers \in Seq(Responses), answers # <<>>
    PROVE  /\ Last(answers) \in Responses
           /\ Frame \in Seq(Byte)
           /\ Len(answers) \in Nat \ {0}
           /\ Frame = encode_tcp_frame(answers[Len(answers)])
BY FrameType DEF Last, Frame

LEMMA BufferInit == Init => BufferInv
<1> SUFFICES ASSUME Init PROVE BufferInv
  OBVIOUS
<1>1. new \in TcpFrameDecoder /\ new.buf = <<>> /\ new.read_pos = 0
  BY DEF new, TcpFrameDecoder
<1>2. Len(decoder.buf) = 0
  BY <1>1 DEF Init
<1>3. Sound(decoder)
  BY <1>1, <1>2 DEF Init, Sound, Compact
<1>4. TypeOK
  <2>1. 0 \in 0 .. MaxHeader + ReadSize
    BY ConnectionAssumption
  <2>2. <<>> \in Seq(Byte) /\ <<>> \in Seq(Seq(Byte)) /\ <<>> \in Seq(Responses)
    OBVIOUS
  <2>3. decoder \in TcpFrameDecoder /\ decoder.read_pos <= Len(decoder.buf)
    BY <1>1, <1>2 DEF Init
  <2> QED
    BY <2>1, <2>2, <2>3 DEF Init, TypeOK, Steps
<1>5. 0 <= MaxHeader /\ 0 <= 2 * D /\ 0 <= 2 * D + ReadSize
  BY ConnectionAssumption, PrefixRange
<1> QED
  BY <1>2, <1>3, <1>4, <1>5 DEF Init, BufferInv

LEMMA BufferStep == BufferInv /\ [Next]_vars => BufferInv'
<1> SUFFICES ASSUME BufferInv, [Next]_vars PROVE BufferInv'
  OBVIOUS
<1>a. D \in Nat /\ D >= 3
  BY PrefixRange
<1>b. ReadSize \in Nat /\ ReadSize > 0 /\ MaxHeader \in Nat
  BY ConnectionAssumption
<1>c. decoder \in TcpFrameDecoder /\ decoder.buf \in Seq(Byte) /\ Len(decoder.buf) \in Nat
  BY DEF BufferInv, TypeOK, TcpFrameDecoder
<1>1. CASE AcceptTls
  BY <1>1, <1>a, <1>b DEF AcceptTls, BufferInv, TypeOK, history, blackhole, Steps
<1>2. CASE HandshakeFails \/ ReadEnds \/ Reply202
  BY <1>2 DEF HandshakeFails, ReadEnds, Reply202, Close, BufferInv, TypeOK, history, blackhole, Steps
<1>3. CASE Read
  <2>1. PICK data \in Pieces : received' = received \o data /\ decoder' = feed(decoder, data)
    BY <1>3 DEF Read
  <2>2. data \in Seq(Byte) /\ Len(data) \in Nat /\ Len(data) <= ReadSize
    BY PieceType
  <2>3. /\ Sound(decoder') /\ decoder' \in TcpFrameDecoder /\ decoder'.read_pos <= Len(decoder'.buf)
        /\ decoder'.buf = decoder.buf \o data
    BY <2>1, <2>2, FeedSound DEF BufferInv, Sound
  <2>4. Len(decoder'.buf) = Len(decoder.buf) + Len(data)
    BY <1>c, <2>2, <2>3, Cat
  <2>5. Len(decoder'.buf) <= 2 * D + ReadSize
    BY <1>3, <1>a, <1>b, <1>c, <2>2, <2>4 DEF Read, BufferInv
  <2>6. received' \in Seq(Byte)
    BY <2>1, <2>2, Cat DEF BufferInv, TypeOK
  <2> QED
    BY <1>3, <2>3, <2>5, <2>6 DEF Read, BufferInv, TypeOK, Steps, blackhole
<1>4. CASE Decode /\ HasFrame(decoder)
  <2>1. asked' = Append(asked, FrameBytes(decoder)) /\ decoder' = Advance(decoder) /\ pc' = "handle"
    BY <1>4 DEF Decode
  <2>2. Sound(decoder') /\ Len(decoder'.buf) <= Len(decoder.buf)
    BY <1>4, <2>1, AdvanceSound DEF BufferInv
  <2>3. decoder' \in TcpFrameDecoder /\ decoder'.read_pos <= Len(decoder'.buf)
        /\ Len(decoder'.buf) \in Nat
    BY <2>2 DEF Sound, TcpFrameDecoder
  <2>4. FrameBytes(decoder) \in Seq(Byte)
    <3>1. decoder.read_pos \in Nat /\ Announced(decoder) \in Nat
          /\ decoder.read_pos + 2 + Announced(decoder) <= Len(decoder.buf)
      BY <1>4, <1>a, <1>c, AnnouncedType DEF HasFrame, buffered, BufferInv, TcpFrameDecoder
    <3> QED
      BY <1>c, <3>1 DEF FrameBytes
  <2>5. asked' \in Seq(Seq(Byte))
    BY <2>1, <2>4 DEF BufferInv, TypeOK
  <2>6. Len(decoder'.buf) <= 2 * D + ReadSize
    BY <1>a, <1>b, <1>c, <2>2, <2>3 DEF BufferInv
  <2> QED
    BY <1>4, <2>1, <2>2, <2>3, <2>5, <2>6 DEF Decode, BufferInv, TypeOK, Steps, blackhole
<1>5. CASE Decode /\ ~HasFrame(decoder)
  <2>1. Len(decoder.buf) <= 2 * D
    BY <1>5, NoFrameBound DEF BufferInv
  <2> QED
    BY <1>5, <2>1 DEF Decode, BufferInv, TypeOK, Steps, blackhole
<1>6. CASE Handle
  <2>1. answers' \in Seq(Responses) /\ answers' # <<>>
    <3>1. PICK r \in Responses : answers' = Append(answers, r)
      BY <1>6 DEF Handle, Responses
    <3>2. answers \in Seq(Responses)
      BY DEF BufferInv, TypeOK
    <3>3. Append(answers, r) \in Seq(Responses) /\ Len(Append(answers, r)) = Len(answers) + 1
          /\ Len(answers) \in Nat
      BY <3>2
    <3> QED
      BY <3>1, <3>3
  <2> QED
    BY <1>6, <2>1 DEF Handle, BufferInv, TypeOK, Steps, blackhole
<1>7. ASSUME pc = "write", NEW n \in 0 .. Len(Frame), Take(n) PROVE output' \in Seq(Byte)
  <2>1. Frame \in Seq(Byte) /\ output \in Seq(Byte)
    BY <1>7, FrameIsBytes DEF BufferInv, TypeOK
  <2>2. PICK u \in Seq(Byte), o \in Seq(Byte) : u = Frame /\ o = output
    BY <2>1
  <2> QED
    BY <1>7, <2>2, CutPrefix DEF Take
<1>8. ASSUME WriteAll \/ WriteTimeout \/ WriteFails PROVE output' \in Seq(Byte)
  <2>1. Len(Frame) \in Nat /\ pc = "write"
    BY <1>8, FrameIsBytes DEF WriteAll, WriteTimeout, WriteFails, Close, BufferInv, TypeOK
  <2>2. \E n \in 0 .. Len(Frame) : Take(n)
    BY <1>8, <2>1 DEF WriteAll, WriteTimeout, WriteFails
  <2> QED
    BY <1>7, <2>1, <2>2
<1>9. CASE WriteAll \/ WriteTimeout \/ WriteFails
  BY <1>8, <1>9 DEF WriteAll, WriteTimeout, WriteFails, Close, BufferInv, TypeOK, history, blackhole, Steps
<1>10. CASE Drain
  <2>1. PICK n \in 1 .. ReadSize : total_read' = total_read + n
    BY <1>10 DEF Drain
  <2>2. total_read \in Nat /\ total_read <= MaxHeader
    BY <1>10, <1>b DEF Drain, BufferInv, TypeOK
  <2>3. total_read' \in 0 .. MaxHeader + ReadSize
    BY <1>b, <2>1, <2>2
  <2>4. pc' = "drain" => total_read' <= MaxHeader
    BY <1>10, <1>b, <2>3 DEF Drain
  <2> QED
    BY <1>10, <2>3, <2>4 DEF Drain, BufferInv, TypeOK, history, blackhole, Steps
<1>11. CASE DrainEnds
  BY <1>11 DEF DrainEnds, BufferInv, TypeOK, history, blackhole, Steps
<1>12. CASE UNCHANGED vars
  BY <1>12 DEF vars, history, blackhole, BufferInv, TypeOK
<1> QED
  BY <1>1, <1>2, <1>3, <1>4, <1>5, <1>6, <1>9, <1>10, <1>11, <1>12 DEF Next

LEMMA BufferAlways == Spec => []BufferInv
BY BufferInit, BufferStep, PTL DEF Spec

\* For every base, read size and stream, the handlers' state has its type; in
\* particular the decoder never reads past its buffer, and what goes out is made
\* of bytes.
THEOREM ConnectionTypeCorrect == Spec => []TypeOK
<1>1. BufferInv => TypeOK
  BY DEF BufferInv
<1> QED
  BY <1>1, BufferAlways, PTL

\* For every base, read size and stream, the decoder's buffer stays below two of
\* the largest frames and a read, although it is compacted only now and then.
THEOREM BufferBoundedHolds == Spec => []BufferBounded
<1>1. BufferInv => BufferBounded
  BY DEF BufferInv, BufferBounded, D
<1> QED
  BY <1>1, BufferAlways, PTL
-----------------------------------------------------------------------------
(* Answers *)

\* The answers that have left, or were given up.
Done == IF pc = "write" THEN Len(answers) - 1 ELSE Len(answers)

\* Every message has its answer before the next is decoded.  What is out is cut
\* off the frames of the answers that are done, and lacks nothing of them until
\* a write fails.
OutputInv ==
    /\ Len(asked) = IF pc = "handle" THEN Len(answers) + 1 ELSE Len(answers)
    /\ IsPrefix(output, Frames(answers, Done))
    /\ ~broken /\ pc # "closed" => output = Frames(answers, Done)

LEMMA OutputInit == Init => OutputInv
<1> SUFFICES ASSUME Init PROVE OutputInv
  OBVIOUS
<1>1. <<>> \in Seq(Byte)
  OBVIOUS
<1>2. IsPrefix(<<>>, <<>>)
  BY <1>1, PrefixSelf
<1>3. Done = 0
  BY DEF Init, Done
<1> QED
  BY <1>2, <1>3, NoFrames DEF Init, OutputInv

LEMMA OutputStep == BufferInv /\ OutputInv /\ [Next]_vars => OutputInv'
<1> SUFFICES ASSUME BufferInv, OutputInv, [Next]_vars PROVE OutputInv'
  OBVIOUS
<1>a. answers \in Seq(Responses) /\ Len(answers) \in Nat /\ asked \in Seq(Seq(Byte))
      /\ Len(asked) \in Nat /\ output \in Seq(Byte)
  BY DEF BufferInv, TypeOK
<1>1. ASSUME UNCHANGED <<asked, answers, output, broken>>,
             pc \notin {"handle", "write", "closed"}, pc' \notin {"handle", "write"}
      PROVE  OutputInv'
  BY <1>1 DEF OutputInv, Done
<1>2. CASE AcceptTls \/ HandshakeFails \/ Read \/ ReadEnds \/ Drain \/ DrainEnds \/ Reply202
  BY <1>1, <1>2 DEF AcceptTls, HandshakeFails, Read, ReadEnds, Drain, DrainEnds, Reply202, Close,
     history
<1>3. CASE Decode
  <2>1. CASE HasFrame(decoder)
    <3>1. Len(asked') = Len(asked) + 1
      BY <1>3, <1>a, <2>1 DEF Decode
    <3> QED
      BY <1>3, <1>a, <2>1, <3>1 DEF Decode, OutputInv, Done
  <2>2. CASE ~HasFrame(decoder)
    BY <1>1, <1>3, <2>2 DEF Decode
  <2> QED
    BY <2>1, <2>2
<1>4. CASE Handle
  <2>1. PICK r \in Responses : answers' = Append(answers, r)
    BY <1>4 DEF Handle, Responses
  <2>2. Len(answers') = Len(answers) + 1
    BY <1>a, <2>1
  <2>3. Done' = Len(answers) /\ Done = Len(answers)
    BY <1>4, <1>a, <2>2 DEF Done, Handle
  <2>4. Frames(answers', Done') = Frames(answers, Done)
    <3>1. Len(answers) \in 0 .. Len(answers)
      BY <1>a
    <3> QED
      BY <1>a, <2>1, <2>3, <3>1, FramesKept
  <2> QED
    BY <1>4, <1>a, <2>2, <2>4 DEF Handle, OutputInv
<1>5. ASSUME pc = "write", UNCHANGED <<asked, answers>>, pc' \in {"decode", "closed"},
             NEW n \in 0 .. Len(Frame), Take(n), broken => n = 0,
             ~broken' /\ pc' # "closed" => ~broken /\ n = Len(Frame)
      PROVE  OutputInv'
  <2> DEFINE m == Len(answers) - 1
             F == Frames(answers, m)
  <2>1. answers # <<>> /\ Frame \in Seq(Byte) /\ m \in Nat /\ m < Len(answers)
        /\ Len(answers) = m + 1 /\ Frame = encode_tcp_frame(answers[m + 1])
    BY <1>5, <1>a, FrameIsBytes DEF BufferInv
  <2>2. Done = m /\ Done' = m + 1
    BY <1>5, <1>a, <2>1 DEF Done
  <2> HIDE DEF m
  <2>3. F \in Seq(Byte) /\ Frames(answers, m + 1) = F \o Frame
    BY <1>a, <2>1, FramesGrow
  <2> HIDE DEF F
  <2>4. output' = output \o SubSeq(Frame, 1, n)
    BY <1>5 DEF Take
  <2>5. IsPrefix(output, F) /\ (~broken => output = F)
    BY <1>5, <2>2 DEF OutputInv, F
  <2>6. PICK f \in Seq(Byte), g \in Seq(Byte), o \in Seq(Byte) : f = F /\ g = Frame /\ o = output
    BY <1>a, <2>1, <2>3
  <2>7. IsPrefix(output', F \o Frame)
    <3>1. CASE broken
      <4>1. SubSeq(g, 1, 0) = <<>> /\ o \o <<>> = o
        OBVIOUS
      <4>2. IsPrefix(o, f \o g)
        BY <2>5, <2>6, PrefixCat
      <4> QED
        BY <1>5, <2>4, <2>6, <3>1, <4>1, <4>2
    <3>2. CASE ~broken
      BY <2>4, <2>5, <2>6, <3>2, CutPrefix
    <3> QED
      BY <3>1, <3>2
  <2>8. ASSUME ~broken', pc' # "closed" PROVE output' = F \o Frame
    <3>1. output = F /\ n = Len(Frame)
      BY <1>5, <2>5, <2>8
    <3>2. SubSeq(g, 1, Len(g)) = g
      OBVIOUS
    <3> QED
      BY <2>4, <2>6, <3>1, <3>2
  <2> QED
    BY <1>5, <1>a, <2>1, <2>2, <2>3, <2>7, <2>8 DEF OutputInv
<1>6. CASE WriteAll \/ WriteTimeout \/ WriteFails
  <2>1. pc = "write" /\ Len(Frame) \in Nat
    BY <1>6, <1>a, FrameIsBytes DEF WriteAll, WriteTimeout, WriteFails, Close, BufferInv
  <2>2. CASE WriteAll
    BY <1>5, <2>1, <2>2 DEF WriteAll, history, blackhole
  <2>3. CASE WriteTimeout
    <3>1. PICK n \in 0 .. Len(Frame) - 1 : Take(n)
      BY <2>3 DEF WriteTimeout
    <3> QED
      BY <1>5, <2>1, <2>3, <3>1 DEF WriteTimeout, Close, history, blackhole
  <2>4. CASE WriteFails
    <3>1. PICK n \in 0 .. Len(Frame) - 1 : (broken => n = 0) /\ Take(n)
      BY <2>4 DEF WriteFails
    <3> QED
      BY <1>5, <2>1, <2>4, <3>1 DEF WriteFails, history, blackhole
  <2> QED
    BY <1>6, <2>2, <2>3, <2>4
<1>7. CASE UNCHANGED vars
  BY <1>7 DEF vars, history, blackhole, OutputInv, Done
<1> QED
  BY <1>2, <1>3, <1>4, <1>6, <1>7 DEF Next

\* For every sequence of queries, pipelined or not, and wherever writes fail or
\* time out: the answers leave in the order of the questions, and a cut answer
\* is the last thing on the connection.
THEOREM AnswersInOrderHolds == Spec => []AnswersInOrder
<1>1. BufferInv /\ OutputInv => AnswersInOrder
  <2> SUFFICES ASSUME BufferInv, OutputInv PROVE AnswersInOrder
    OBVIOUS
  <2>1. answers \in Seq(Responses) /\ Len(answers) \in Nat /\ Len(asked) \in Nat
        /\ output \in Seq(Byte)
    BY DEF BufferInv, TypeOK
  <2>2. Len(answers) \in {Len(asked), Len(asked) - 1}
    BY <2>1 DEF OutputInv
  <2>3. IsPrefix(output, Frames(answers, Len(answers)))
    <3>1. CASE pc = "write"
      <4> DEFINE m == Len(answers) - 1
      <4>1. m \in Nat /\ m < Len(answers) /\ Len(answers) = m + 1
            /\ Frame = encode_tcp_frame(answers[m + 1]) /\ Frame \in Seq(Byte)
        BY <2>1, <3>1, FrameIsBytes DEF BufferInv
      <4>2. Done = m
        BY <3>1 DEF Done
      <4> HIDE DEF m
      <4>3. Frames(answers, m) \in Seq(Byte) /\ Frames(answers, m + 1) = Frames(answers, m) \o Frame
        BY <2>1, <4>1, FramesGrow
      <4>4. PICK f \in Seq(Byte), g \in Seq(Byte), o \in Seq(Byte) :
               f = Frames(answers, m) /\ g = Frame /\ o = output
        BY <2>1, <4>1, <4>3
      <4>5. IsPrefix(o, f \o g)
        BY <4>2, <4>4, PrefixCat DEF OutputInv
      <4> QED
        BY <4>1, <4>3, <4>4, <4>5
    <3>2. CASE pc # "write"
      BY <3>2 DEF OutputInv, Done
    <3> QED
      BY <3>1, <3>2
  <2>4. pc = "read" /\ ~broken => output = Frames(answers, Len(asked))
    BY DEF OutputInv, Done
  <2> QED
    BY <2>2, <2>3, <2>4 DEF AnswersInOrder, AnswerFrames, Frames
<1> QED
  BY <1>1, OutputInit, OutputStep, BufferAlways, PTL DEF Spec
-----------------------------------------------------------------------------
(* The decoder of a whole buffer, on the first n bytes of data *)

\* The bytes that the frame at o takes, and the message in it.
Size(data, o) == 2 + LengthAt(data, o)
Msg(data, o) == SubSeq(data, o + 3, o + Size(data, o))

Found(m, c) == [ok |-> TRUE, messages |-> m, consumed |-> c]
Failed == [ok |-> FALSE]

IsResult(r) == r = Failed \/ \E m \in Seq(Seq(Byte)), c \in Nat : r = Found(m, c)

LEMMA ResultFacts ==
    /\ \A m, c : Found(m, c).ok = TRUE /\ Found(m, c).messages = m /\ Found(m, c).consumed = c
    /\ Failed.ok = FALSE
    /\ \A m, c : Found(m, c) # Failed
<1>1. \A m, c : Found(m, c).ok = TRUE /\ Found(m, c).messages = m /\ Found(m, c).consumed = c
  BY DEF Found
<1>2. Failed.ok = FALSE
  BY DEF Failed
<1>3. \A m, c : Found(m, c) # Failed
  BY <1>1, <1>2
<1> QED
  BY <1>1, <1>2, <1>3

\* Concatenation under a name of its own, for sequences of messages.
Join(s, t) == s \o t

\* Frames before those of a result.
Push(x, r) == [r EXCEPT !.messages = Join(x, @)]

LEMMA Replaced ==
    ASSUME NEW m, NEW c, NEW e
    PROVE  [Found(m, c) EXCEPT !.messages = e] = Found(e, c)
<1>1. \A b : [[ok |-> b, messages |-> m, consumed |-> c] EXCEPT !.messages = e]
             = [ok |-> b, messages |-> e, consumed |-> c]
  OBVIOUS
<1> QED
  BY <1>1, Zenon DEF Found

LEMMA Pushed ==
    ASSUME NEW m, NEW c, NEW x, NEW e, e = Join(x, m)
    PROVE  Push(x, Found(m, c)) = Found(e, c)
<1>1. Found(m, c).messages = m
  BY ResultFacts
<1>2. Push(x, Found(m, c)) = [Found(m, c) EXCEPT !.messages = e]
  BY <1>1, Zenon DEF Push
<1> QED
  BY <1>2, Replaced

\* One step of the recursion, and the recursion with its offsets from j on.
Body(data, n, f, o) ==
    IF n - o < 2 THEN Found(<<>>, o)
    ELSE IF n - o < Size(data, o) \/ ~f[o + Size(data, o)].ok THEN Failed
    ELSE Push(<<Msg(data, o)>>, f[o + Size(data, o)])

BulkFrom(f, data, n, j) == \A o \in j .. n : f[o] = Body(data, n, f, o)

LEMMA SizeType ==
    ASSUME NEW data \in Seq(Byte), NEW o \in Nat, o + 2 <= Len(data)
    PROVE  /\ LengthAt(data, o) \in 0 .. D
           /\ Size(data, o) \in Nat /\ Size(data, o) >= 2
           /\ o + Size(data, o) <= Len(data) => Msg(data, o) \in Seq(Byte)
<1>1. data[o + 1] \in Byte /\ data[o + 2] \in Byte
  OBVIOUS
<1>2. LengthAt(data, o) \in 0 .. D /\ D \in Nat
  BY <1>1, PrefixRange DEF LengthAt
<1>3. Size(data, o) \in Nat /\ Size(data, o) >= 2
  BY <1>2 DEF Size
<1>4. ASSUME o + Size(data, o) <= Len(data) PROVE Msg(data, o) \in Seq(Byte)
  <2>1. PICK a \in Nat, b \in Nat : a = o + 2 /\ b = o + Size(data, o)
    BY <1>3
  <2>2. a <= b /\ b <= Len(data)
    BY <1>3, <1>4, <2>1
  <2>3. SubSeq(data, a + 1, b) \in Seq(Byte)
    BY <2>2, Slice
  <2>4. a + 1 = o + 3
    BY <2>1
  <2> QED
    BY <2>1, <2>3, <2>4 DEF Msg
<1> QED
  BY <1>2, <1>3, <1>4

\* One step of the recursion as decode_tcp_frames writes it, in the buffer w.
Code(w, f, o) ==
    IF Len(w) - o < 2
    THEN [ok |-> TRUE, messages |-> <<>>, consumed |-> o]
    ELSE LET frame == decode_tcp_frame(SubSeq(w, o + 1, Len(w)))
             rest == f[o + frame.consumed]
         IN  IF ~frame.ok \/ ~rest.ok THEN [ok |-> FALSE]
             ELSE [rest EXCEPT !.messages = <<frame.message>> \o @]

\* What the code computes at offset o of the first n bytes is Body.
LEMMA BodyIs ==
    ASSUME NEW data \in Seq(Byte), NEW n \in 0 .. Len(data), NEW o \in 0 .. n, NEW f
    PROVE  Body(data, n, f, o) = Code(SubSeq(data, 1, n), f, o)
<1>0. n \in Nat /\ o \in Nat /\ o <= n /\ n <= Len(data) /\ Len(data) \in Nat
  OBVIOUS
<1>1. PICK w \in Seq(Byte) : /\ w = SubSeq(data, 1, n) /\ Len(w) = n
                             /\ \A i \in 1 .. n : w[i] = data[i]
  <2>1. /\ SubSeq(data, 1, n) \in Seq(Byte) /\ Len(SubSeq(data, 1, n)) = n
        /\ \A i \in 1 .. n : SubSeq(data, 1, n)[i] = data[i]
    BY <1>0
  <2> QED
    BY <2>1
<1>2. PICK t \in Seq(Byte) : /\ t = SubSeq(w, o + 1, n) /\ Len(t) = n - o
                             /\ \A i \in 1 .. n - o : t[i] = data[o + i]
  <2>1. /\ SubSeq(w, o + 1, n) \in Seq(Byte) /\ Len(SubSeq(w, o + 1, n)) = n - o
        /\ \A i \in 1 .. n - o : SubSeq(w, o + 1, n)[i] = w[o + i]
    BY <1>0, <1>1, Slice
  <2>2. \A i \in 1 .. n - o : w[o + i] = data[o + i]
    BY <1>0, <1>1
  <2> QED
    BY <2>1, <2>2
<1> DEFINE frame == decode_tcp_frame(t)
           rest == f[o + frame.consumed]
<1>3. CASE n - o < 2
  BY <1>1, <1>3 DEF Body, Found, Code
<1>4. CASE ~(n - o < 2)
  <2>1. t[0 + 1] = data[o + 1] /\ t[0 + 2] = data[o + 2]
    BY <1>0, <1>2, <1>4
  <2>2. LengthAt(t, 0) = LengthAt(data, o)
    BY <2>1 DEF LengthAt
  <2>3. Size(data, o) \in Nat /\ Size(data, o) = 2 + LengthAt(t, 0) /\ LengthAt(data, o) \in Nat
        /\ Size(data, o) >= 2
    BY <1>0, <1>4, <2>2, SizeType, PrefixRange DEF Size
  <2>4. ~(Len(t) < 2)
    BY <1>2, <1>4
  <2>5. CASE n - o < Size(data, o)
    <3>1. frame = [ok |-> FALSE]
      BY <1>2, <2>3, <2>5 DEF decode_tcp_frame
    <3>2. ~frame.ok
      BY <3>1
    <3> QED
      BY <1>1, <1>2, <1>4, <2>5, <3>2 DEF Body, Failed, Code
  <2>6. CASE ~(n - o < Size(data, o))
    <3>1. frame = [ok |-> TRUE, message |-> SubSeq(t, 3, Size(data, o)),
                   consumed |-> Size(data, o)]
      BY <1>2, <2>3, <2>4, <2>6 DEF decode_tcp_frame
    <3>2. frame.ok = TRUE /\ frame.message = SubSeq(t, 3, Size(data, o))
          /\ frame.consumed = Size(data, o)
      <4> HIDE DEF frame
      <4> QED
        BY <3>1
    <3>3. SubSeq(t, 3, Size(data, o)) = Msg(data, o)
      <4>1. PICK k \in Nat : k = Size(data, o) /\ 2 <= k /\ k <= n - o
        BY <1>0, <2>3, <2>6
      <4>2. /\ SubSeq(t, 2 + 1, k) \in Seq(Byte) /\ Len(SubSeq(t, 2 + 1, k)) = k - 2
            /\ \A i \in 1 .. k - 2 : SubSeq(t, 2 + 1, k)[i] = t[2 + i]
        <5>1. 2 \in Nat /\ k <= Len(t)
          BY <1>2, <4>1
        <5> QED
          BY <4>1, <5>1, Slice
      <4>3. PICK a \in Nat, b \in Nat : a = o + 2 /\ b = o + k /\ a <= b /\ b <= Len(data)
        <5>1. o + 2 \in Nat /\ o + k \in Nat /\ o + 2 <= o + k /\ o + k <= Len(data)
          BY <1>0, <4>1
        <5> QED
          BY <5>1
      <4>4. /\ SubSeq(data, a + 1, b) \in Seq(Byte) /\ Len(SubSeq(data, a + 1, b)) = b - a
            /\ \A i \in 1 .. b - a : SubSeq(data, a + 1, b)[i] = data[a + i]
        BY <4>3, Slice
      <4>5. b - a = k - 2 /\ a + 1 = o + 3
        BY <1>0, <4>1, <4>3
      <4>6. ASSUME NEW i \in 1 .. k - 2
            PROVE  SubSeq(t, 2 + 1, k)[i] = SubSeq(data, a + 1, b)[i]
        <5>1. 2 + i \in 1 .. n - o /\ o + (2 + i) = a + i
          BY <1>0, <4>1, <4>3
        <5>2. t[2 + i] = data[a + i]
          BY <1>2, <5>1
        <5> QED
          BY <4>2, <4>4, <4>5, <5>2
      <4>7. SubSeq(t, 2 + 1, k) = SubSeq(data, a + 1, b)
        BY <4>2, <4>4, <4>5, <4>6, SeqEqual
      <4>8. SubSeq(t, 3, k) = SubSeq(data, o + 3, o + k)
        BY <4>3, <4>5, <4>7
      <4> QED
        BY <4>1, <4>8 DEF Msg
    <3>4. rest = f[o + Size(data, o)]
      BY <3>2
    <3> HIDE DEF frame, rest
    <3>5. Body(data, n, f, o) = IF ~rest.ok THEN [ok |-> FALSE]
                                ELSE [rest EXCEPT !.messages = <<frame.message>> \o @]
      BY <1>4, <2>6, <3>2, <3>3, <3>4 DEF Body, Failed, Push, Join
    <3> QED
      BY <1>1, <1>2, <1>4, <3>2, <3>5 DEF frame, rest, Code
  <2> QED
    BY <2>5, <2>6
<1> QED
  BY <1>3, <1>4

\* Body looks at later offsets only.
LEMMA BodyLocal ==
    ASSUME NEW data \in Seq(Byte), NEW n \in 0 .. Len(data), NEW o \in 0 .. n, NEW f, NEW g,
           \A q \in o + 1 .. n : f[q] = g[q]
    PROVE  Body(data, n, f, o) = Body(data, n, g, o)
<1>1. CASE n - o < 2
  BY <1>1 DEF Body
<1>2. CASE ~(n - o < 2)
  <2>1. Size(data, o) \in Nat /\ Size(data, o) >= 2
    BY <1>2, SizeType
  <2>2. CASE n - o < Size(data, o)
    BY <1>2, <2>2 DEF Body
  <2>3. CASE ~(n - o < Size(data, o))
    <3>1. o + Size(data, o) \in o + 1 .. n
      BY <2>1, <2>3
    <3>2. f[o + Size(data, o)] = g[o + Size(data, o)]
      BY <3>1
    <3> QED
      BY <3>2 DEF Body
  <2> QED
    BY <2>2, <2>3
<1> QED
  BY <1>1, <1>2

\* The recursion has a solution: it is built from the last offset to the first.
LEMMA BulkExists ==
    ASSUME NEW data \in Seq(Byte), NEW n \in 0 .. Len(data)
    PROVE  \E f : f = [o \in 0 .. n |-> Body(data, n, f, o)]
<1> DEFINE Up(g, k) == g = [o \in 0 .. n |-> g[o]] /\ BulkFrom(g, data, n, n - k)
           S == {k \in 0 .. n : ~ \E g : Up(g, k)}
<1>0. n \in Nat
  OBVIOUS
<1>1. S = {}
  <2> SUFFICES ASSUME S # {} PROVE FALSE
    OBVIOUS
  <2>0. S \in SUBSET Nat
    OBVIOUS
  <2>1. PICK k \in S : \A j \in S : k <= j
    <3> HIDE DEF S
    <3> QED
      BY <2>0, LeastElement
  <2>2. k \in 0 .. n /\ ~ \E g : Up(g, k)
    BY <2>1
  <2>3. CASE k = 0
    <3> DEFINE g == [o \in 0 .. n |-> Found(<<>>, o)]
    <3>1. g = [o \in 0 .. n |-> g[o]]
      OBVIOUS
    <3>2. g[n] = Found(<<>>, n)
      BY <1>0
    <3>3. Body(data, n, g, n) = Found(<<>>, n)
      BY <1>0 DEF Body
    <3> HIDE DEF g
    <3>4. BulkFrom(g, data, n, n - 0)
      <4> SUFFICES ASSUME NEW o \in n - 0 .. n PROVE g[o] = Body(data, n, g, o)
        BY DEF BulkFrom
      <4>1. o = n
        BY <1>0
      <4> QED
        BY <3>2, <3>3, <4>1
    <3> QED
      BY <2>2, <2>3, <3>1, <3>4
  <2>4. CASE k # 0
    <3>1. k - 1 \in 0 .. n /\ k - 1 \notin S
      BY <1>0, <2>1, <2>2, <2>4
    <3>2. PICK g : Up(g, k - 1)
      BY <3>1
    <3>3. PICK j \in 0 .. n : j = n - k /\ j + 1 = n - (k - 1)
      BY <1>0, <2>2
    <3> DEFINE h == [o \in 0 .. n |-> IF o = j THEN Body(data, n, g, j) ELSE g[o]]
    <3>4. h = [o \in 0 .. n |-> h[o]]
      OBVIOUS
    <3>5. h[j] = Body(data, n, g, j) /\ \A o \in 0 .. n : o # j => h[o] = g[o]
      OBVIOUS
    <3> HIDE DEF h
    <3>6. ASSUME NEW o \in j .. n PROVE h[o] = Body(data, n, h, o)
      <4>0. o \in 0 .. n
        BY <3>3
      <4>1. \A q \in o + 1 .. n : g[q] = h[q]
        BY <3>3, <3>5, <4>0
      <4>2. Body(data, n, g, o) = Body(data, n, h, o)
        BY <4>0, <4>1, BodyLocal
      <4>3. CASE o = j
        BY <3>5, <4>2, <4>3
      <4>4. CASE o # j
        <5>1. o \in n - (k - 1) .. n
          BY <1>0, <3>3, <4>4
        <5>2. g[o] = Body(data, n, g, o)
          BY <3>2, <5>1 DEF BulkFrom
        <5> QED
          BY <3>5, <4>0, <4>2, <4>4, <5>2
      <4> QED
        BY <4>3, <4>4
    <3>7. BulkFrom(h, data, n, n - k)
      BY <3>3, <3>6 DEF BulkFrom
    <3> QED
      BY <2>2, <3>4, <3>7
  <2> QED
    BY <2>3, <2>4
<1>2. PICK g : Up(g, n)
  <2>1. n \in 0 .. n
    BY <1>0
  <2> QED
    BY <1>1, <2>1
<1>3. \A o \in 0 .. n : g[o] = Body(data, n, g, o)
  <2>1. n - n = 0
    BY <1>0
  <2> QED
    BY <1>2, <2>1 DEF BulkFrom
<1>4. g = [o \in 0 .. n |-> Body(data, n, g, o)]
  <2>1. g = [o \in 0 .. n |-> g[o]]
    BY <1>2
  <2>2. [o \in 0 .. n |-> g[o]] = [o \in 0 .. n |-> Body(data, n, g, o)]
    BY <1>3
  <2> QED
    BY <2>1, <2>2
<1> QED
  BY <1>4

\* decode_tcp_frames of the first n bytes, as a solution of the recursion.
LEMMA BulkIs ==
    ASSUME NEW data \in Seq(Byte), NEW n \in 0 .. Len(data)
    PROVE  \E f : /\ BulkFrom(f, data, n, 0)
                  /\ decode_tcp_frames(SubSeq(data, 1, n)) = f[0]
<1>0. n \in Nat
  OBVIOUS
<1>1. PICK w \in Seq(Byte) : w = SubSeq(data, 1, n) /\ Len(w) = n
  <2>1. SubSeq(data, 1, n) \in Seq(Byte) /\ Len(SubSeq(data, 1, n)) = n
    BY <1>0
  <2> QED
    BY <2>1
<1> DEFINE From == CHOOSE f : f = [o \in 0 .. Len(w) |-> Code(w, f, o)]
<1>2. decode_tcp_frames(w) = From[0]
  BY DEF decode_tcp_frames, Code
<1>3. \A f : \A o \in 0 .. n : Code(w, f, o) = Body(data, n, f, o)
  <2> SUFFICES ASSUME NEW f, NEW o \in 0 .. n PROVE Code(w, f, o) = Body(data, n, f, o)
    OBVIOUS
  <2> QED
    BY <1>1, BodyIs
<1>4. \A f : [o \in 0 .. n |-> Body(data, n, f, o)] = [o \in 0 .. Len(w) |-> Code(w, f, o)]
  BY <1>1, <1>3
<1>5. \E f : f = [o \in 0 .. Len(w) |-> Code(w, f, o)]
  <2>1. PICK f : f = [o \in 0 .. n |-> Body(data, n, f, o)]
    BY BulkExists
  <2> QED
    BY <1>4, <2>1
<1>6. From = [o \in 0 .. Len(w) |-> Code(w, From, o)]
  BY <1>5
<1> HIDE DEF From
<1>7. \A o \in 0 .. n : From[o] = Body(data, n, From, o)
  BY <1>1, <1>3, <1>6
<1> QED
  BY <1>1, <1>2, <1>7 DEF BulkFrom

LEMMA Single ==
    ASSUME NEW T, NEW e \in T
    PROVE  \E x \in Seq(T) : x = <<e>>
<1>1. <<e>> \in Seq(T)
  OBVIOUS
<1> QED
  BY <1>1

LEMMA JoinType ==
    ASSUME NEW T, NEW s \in Seq(T), NEW t \in Seq(T)
    PROVE  Join(s, t) \in Seq(T)
BY DEF Join

LEMMA JoinAssoc ==
    ASSUME NEW T, NEW s \in Seq(T), NEW t \in Seq(T), NEW u \in Seq(T)
    PROVE  Join(Join(s, t), u) = Join(s, Join(t, u))
BY DEF Join

LEMMA JoinEmpty ==
    ASSUME NEW T, NEW s \in Seq(T)
    PROVE  Join(<<>>, s) = s /\ Join(s, <<>>) = s
BY DEF Join

\* Every offset has a result: a failure, or messages and the bytes they took.
LEMMA BulkType ==
    ASSUME NEW data \in Seq(Byte), NEW n \in 0 .. Len(data), NEW f, BulkFrom(f, data, n, 0)
    PROVE  \A o \in 0 .. n : IsResult(f[o])
<1> DEFINE S == {k \in 0 .. n : ~IsResult(f[n - k])}
<1>0. n \in Nat /\ n <= Len(data) /\ Len(data) \in Nat
  OBVIOUS
<1>1. S = {}
  <2> SUFFICES ASSUME S # {} PROVE FALSE
    OBVIOUS
  <2>0. S \in SUBSET Nat
    OBVIOUS
  <2>1. PICK k \in S : \A j \in S : k <= j
    <3> HIDE DEF S
    <3> QED
      BY <2>0, LeastElement
  <2>2. PICK o \in 0 .. n : o = n - k /\ ~IsResult(f[o])
    BY <1>0, <2>1
  <2>3. f[o] = Body(data, n, f, o)
    BY <2>2 DEF BulkFrom
  <2>4. CASE n - o < 2
    <3>1. f[o] = Found(<<>>, o)
      BY <2>3, <2>4 DEF Body
    <3>2. <<>> \in Seq(Seq(Byte)) /\ o \in Nat
      OBVIOUS
    <3> QED
      BY <2>2, <3>1, <3>2 DEF IsResult
  <2>5. CASE ~(n - o < 2)
    <3>1. Size(data, o) \in Nat /\ Size(data, o) >= 2
      BY <1>0, <2>5, SizeType
    <3>2. CASE n - o < Size(data, o) \/ ~f[o + Size(data, o)].ok
      BY <2>2, <2>3, <2>5, <3>2 DEF Body, IsResult
    <3>3. CASE ~(n - o < Size(data, o) \/ ~f[o + Size(data, o)].ok)
      <4>1. PICK q \in 0 .. n : q = o + Size(data, o) /\ q > o
        BY <1>0, <3>1, <3>3
      <4>2. n - q \in 0 .. n /\ n - q < k /\ n - (n - q) = q
        BY <1>0, <2>2, <4>1
      <4>3. IsResult(f[q])
        <5>1. n - q \notin S
          <6> HIDE DEF S
          <6> QED
            BY <2>0, <2>1, <4>2
        <5>2. IsResult(f[n - (n - q)])
          BY <4>2, <5>1
        <5> QED
          BY <4>2, <5>2
      <4>4. f[q] # Failed
        BY <3>3, <4>1, ResultFacts
      <4>5. PICK m \in Seq(Seq(Byte)), c \in Nat : f[q] = Found(m, c)
        BY <4>3, <4>4 DEF IsResult
      <4>6. f[o] = Push(<<Msg(data, o)>>, f[q])
        BY <2>3, <2>5, <3>3, <4>1 DEF Body
      <4>7. PICK x \in Seq(Seq(Byte)) : x = <<Msg(data, o)>>
        <5>1. o \in Nat /\ o + 2 <= Len(data) /\ o + Size(data, o) <= Len(data)
          BY <1>0, <2>5, <3>1, <4>1
        <5>2. Msg(data, o) \in Seq(Byte)
          BY <5>1, SizeType
        <5> QED
          BY <5>2, Single
      <4>8. PICK e \in Seq(Seq(Byte)) : e = Join(x, m)
        BY JoinType
      <4>9. f[o] = Found(e, c)
        <5>1. PICK r : r = f[q]
          OBVIOUS
        <5>2. f[o] = Push(x, r)
          BY <4>6, <4>7, <5>1
        <5>3. Push(x, r) = Found(e, c)
          BY <4>5, <4>8, <5>1, Pushed
        <5> QED
          BY <5>2, <5>3
      <4> QED
        BY <2>2, <4>5, <4>9 DEF IsResult
    <3> QED
      BY <3>2, <3>3
  <2> QED
    BY <2>4, <2>5
<1> QED
  <2> SUFFICES ASSUME NEW o \in 0 .. n PROVE IsResult(f[o])
    OBVIOUS
  <2>1. n - o \in 0 .. n /\ n - (n - o) = o
    BY <1>0
  <2> QED
    BY <1>1, <2>1

\* Frames that fill the first c bytes are found first in any n bytes, and
\* what follows them is decoded as from c.
LEMMA BulkExtends ==
    ASSUME NEW data \in Seq(Byte), NEW n \in 0 .. Len(data), NEW c \in 0 .. n, NEW f, NEW g,
           BulkFrom(f, data, c, 0), BulkFrom(g, data, n, 0)
    PROVE  \A o \in 0 .. c : \A m \in Seq(Seq(Byte)) : f[o] = Found(m, c) =>
              /\ g[c] = Failed => g[o] = Failed
              /\ \A m2 \in Seq(Seq(Byte)), c2 \in Nat :
                    g[c] = Found(m2, c2) => g[o] = Found(Join(m, m2), c2)
<1> DEFINE Good(o) ==
        \A m \in Seq(Seq(Byte)) : f[o] = Found(m, c) =>
              /\ g[c] = Failed => g[o] = Failed
              /\ \A m2 \in Seq(Seq(Byte)), c2 \in Nat :
                    g[c] = Found(m2, c2) => g[o] = Found(Join(m, m2), c2)
<1> DEFINE S == {k \in 0 .. c : ~Good(c - k)}
<1>0. n \in Nat /\ n <= Len(data) /\ Len(data) \in Nat /\ c \in Nat /\ c <= n /\ c \in 0 .. Len(data)
  OBVIOUS
<1>1. S = {}
  <2> SUFFICES ASSUME S # {} PROVE FALSE
    OBVIOUS
  <2>0. S \in SUBSET Nat
    OBVIOUS
  <2>1. PICK k \in S : \A j \in S : k <= j
    <3> HIDE DEF S
    <3> QED
      BY <2>0, LeastElement
  <2>2. PICK o \in 0 .. c : o = c - k /\ ~Good(o)
    <3>1. k \in 0 .. c /\ ~Good(c - k)
      BY <2>1
    <3>2. PICK o \in 0 .. c : o = c - k
      BY <1>0, <3>1
    <3> HIDE DEF Good
    <3> QED
      BY <3>1, <3>2
  <2>3. PICK m \in Seq(Seq(Byte)) :
           /\ f[o] = Found(m, c)
           /\ ~ (/\ g[c] = Failed => g[o] = Failed
                 /\ \A m2 \in Seq(Seq(Byte)), c2 \in Nat :
                       g[c] = Found(m2, c2) => g[o] = Found(Join(m, m2), c2))
    BY <2>2
  <2>4. f[o] = Body(data, c, f, o) /\ g[o] = Body(data, n, g, o)
    BY <1>0, <2>2 DEF BulkFrom
  <2>5. CASE c - o < 2
    <3>1. Found(m, c) = Found(<<>>, o)
      BY <2>3, <2>4, <2>5 DEF Body
    <3>2. m = <<>> /\ c = o
      <4>1. Found(m, c).messages = m /\ Found(m, c).consumed = c
        BY ResultFacts
      <4>2. Found(<<>>, o).messages = <<>> /\ Found(<<>>, o).consumed = o
        BY ResultFacts
      <4> QED
        BY <3>1, <4>1, <4>2
    <3>3. \A m2 \in Seq(Seq(Byte)) : Join(m, m2) = m2
      BY <3>2, JoinEmpty
    <3> QED
      BY <2>3, <3>2, <3>3
  <2>6. CASE ~(c - o < 2)
    <3>1. Size(data, o) \in Nat /\ Size(data, o) >= 2
      BY <1>0, <2>6, SizeType
    <3>2. ~(c - o < Size(data, o) \/ ~f[o + Size(data, o)].ok)
      <4>1. Found(m, c) # Failed
        BY ResultFacts
      <4> QED
        BY <2>3, <2>4, <2>6, <4>1 DEF Body
    <3>3. PICK q \in 0 .. c : q = o + Size(data, o) /\ q > o
      BY <1>0, <3>1, <3>2
    <3>4. Good(q)
      <4>1. c - q \in 0 .. c /\ c - q < k /\ c - (c - q) = q
        BY <1>0, <2>2, <3>3
      <4>2. c - q \notin S
        <5> HIDE DEF S
        <5> QED
          BY <2>0, <2>1, <4>1
      <4>3. Good(c - (c - q))
        BY <4>1, <4>2
      <4> QED
        BY <4>1, <4>3
    <3>5. f[q] # Failed
      BY <3>2, <3>3, ResultFacts
    <3>6. PICK m1 \in Seq(Seq(Byte)), c1 \in Nat : f[q] = Found(m1, c1)
      BY <1>0, <3>5, BulkType DEF IsResult
    <3>7. f[o] = Push(<<Msg(data, o)>>, f[q])
      BY <2>4, <2>6, <3>2, <3>3 DEF Body
    <3>8. PICK x \in Seq(Seq(Byte)) : x = <<Msg(data, o)>>
      <4>1. o \in Nat /\ o + 2 <= Len(data) /\ o + Size(data, o) <= Len(data)
        BY <1>0, <2>6, <3>1, <3>3
      <4>2. Msg(data, o) \in Seq(Byte)
        BY <4>1, SizeType
      <4> QED
        BY <4>2, Single
    <3>9. m = Join(x, m1) /\ c1 = c
      <4>0. PICK e \in Seq(Seq(Byte)) : e = Join(x, m1)
        BY JoinType
      <4>1. PICK r : r = f[q]
        OBVIOUS
      <4>2. f[o] = Push(x, r)
        BY <3>7, <3>8, <4>1
      <4>3. Push(x, r) = Found(e, c1)
        <5>1. Push(x, Found(m1, c1)) = Found(e, c1)
          BY <4>0, Pushed
        <5> QED
          BY <3>6, <4>1, <5>1, Zenon
      <4>4. Found(m, c) = Found(e, c1)
        BY <2>3, <4>2, <4>3
      <4>5. Found(m, c).messages = m /\ Found(m, c).consumed = c
        BY ResultFacts
      <4>6. Found(e, c1).messages = e /\ Found(e, c1).consumed = c1
        BY ResultFacts
      <4> QED
        BY <4>0, <4>4, <4>5, <4>6
    <3>10. /\ g[c] = Failed => g[q] = Failed
           /\ \A m2 \in Seq(Seq(Byte)), c2 \in Nat :
                 g[c] = Found(m2, c2) => g[q] = Found(Join(m1, m2), c2)
      BY <3>4, <3>6, <3>9
    <3>11. ~(n - o < 2) /\ ~(n - o < Size(data, o))
      BY <1>0, <2>6, <3>1, <3>2
    <3>12. ASSUME g[c] = Failed PROVE g[o] = Failed
      <4>1. ~g[o + Size(data, o)].ok
        BY <3>3, <3>10, <3>12, ResultFacts
      <4> QED
        BY <2>4, <3>11, <4>1 DEF Body
    <3>13. ASSUME NEW m2 \in Seq(Seq(Byte)), NEW c2 \in Nat, g[c] = Found(m2, c2)
           PROVE  g[o] = Found(Join(m, m2), c2)
      <4>1. PICK mm \in Seq(Seq(Byte)) : mm = Join(m1, m2)
        BY JoinType
      <4>2. PICK r : r = g[q] /\ r = Found(mm, c2)
        BY <3>10, <3>13, <4>1
      <4>3. g[q].ok
        <5>1. Found(mm, c2).ok = TRUE
          BY ResultFacts, Zenon
        <5> QED
          BY <4>2, <5>1, Zenon
      <4>4. g[o] = Push(x, r)
        BY <2>4, <3>3, <3>8, <3>11, <4>2, <4>3 DEF Body
      <4>5. PICK e \in Seq(Seq(Byte)) : e = Join(x, mm)
        BY JoinType
      <4>6. Push(x, r) = Found(e, c2)
        <5>1. Push(x, Found(mm, c2)) = Found(e, c2)
          BY <4>5, Pushed
        <5> QED
          BY <4>2, <5>1, Zenon
      <4>7. e = Join(m, m2)
        <5>1. Join(Join(x, m1), m2) = Join(x, Join(m1, m2))
          BY JoinAssoc
        <5> QED
          BY <3>9, <4>1, <4>5, <5>1
      <4> QED
        BY <4>4, <4>6, <4>7
    <3> QED
      BY <2>3, <3>12, <3>13
  <2> QED
    BY <2>5, <2>6
<1> QED
  <2> SUFFICES ASSUME NEW o \in 0 .. c PROVE Good(o)
    OBVIOUS
  <2>1. c - o \in 0 .. c /\ c - (c - o) = o
    BY <1>0
  <2>2. Good(c - (c - o))
    BY <1>1, <2>1
  <2> QED
    BY <2>1, <2>2
-----------------------------------------------------------------------------
(* The bytes that consist of whole frames *)

\* The first n bytes are the frames of the messages ms.
Whole(data, n, ms) == decode_tcp_frames(SubSeq(data, 1, n)) = Found(ms, n)

\* A result that took all of its n bytes.
LEMMA WholeWhen ==
    ASSUME NEW data \in Seq(Byte), NEW n \in 0 .. Len(data),
           decode_tcp_frames(SubSeq(data, 1, n)).ok,
           decode_tcp_frames(SubSeq(data, 1, n)).consumed = n
    PROVE  \E ms \in Seq(Seq(Byte)) : Whole(data, n, ms)
<1>1. PICK f : /\ BulkFrom(f, data, n, 0)
               /\ decode_tcp_frames(SubSeq(data, 1, n)) = f[0]
  BY BulkIs
<1>2. 0 \in 0 .. n
  OBVIOUS
<1>3. IsResult(f[0])
  BY <1>1, <1>2, BulkType
<1>4. f[0] # Failed
  BY <1>1, ResultFacts
<1>5. PICK m \in Seq(Seq(Byte)), c \in Nat : f[0] = Found(m, c)
  BY <1>3, <1>4 DEF IsResult
<1>6. Found(m, c).consumed = c
  BY ResultFacts
<1> QED
  BY <1>1, <1>5, <1>6 DEF Whole

LEMMA WholeFacts ==
    ASSUME NEW data, NEW n, NEW ms, Whole(data, n, ms)
    PROVE  /\ decode_tcp_frames(SubSeq(data, 1, n)).ok
           /\ decode_tcp_frames(SubSeq(data, 1, n)).consumed = n
           /\ decode_tcp_frames(SubSeq(data, 1, n)).messages = ms
BY ResultFacts DEF Whole

LEMMA WholeNone ==
    ASSUME NEW data \in Seq(Byte)
    PROVE  Whole(data, 0, <<>>)
<1>1. 0 \in 0 .. Len(data)
  OBVIOUS
<1>2. PICK f : /\ BulkFrom(f, data, 0, 0)
               /\ decode_tcp_frames(SubSeq(data, 1, 0)) = f[0]
  BY <1>1, BulkIs
<1>3. f[0] = Body(data, 0, f, 0)
  BY <1>2 DEF BulkFrom
<1>4. Body(data, 0, f, 0) = Found(<<>>, 0)
  BY DEF Body
<1> QED
  BY <1>2, <1>3, <1>4 DEF Whole

\* Another whole frame.
LEMMA WholeNext ==
    ASSUME NEW data \in Seq(Byte), NEW c \in Nat, NEW ms \in Seq(Seq(Byte)),
           c + 2 <= Len(data), c + Size(data, c) <= Len(data), Whole(data, c, ms)
    PROVE  /\ c + Size(data, c) \in Nat
           /\ Msg(data, c) \in Seq(Byte)
           /\ Whole(data, c + Size(data, c), Append(ms, Msg(data, c)))
<1>1. Size(data, c) \in Nat /\ Size(data, c) >= 2 /\ Msg(data, c) \in Seq(Byte)
  BY SizeType
<1>2. PICK n \in 0 .. Len(data) : n = c + Size(data, c)
  BY <1>1
<1>3. c \in 0 .. n /\ c \in 0 .. Len(data) /\ n \in 0 .. n /\ 0 \in 0 .. c /\ n \in Nat
      /\ n - n < 2 /\ ~(n - c < 2) /\ ~(n - c < Size(data, c))
  BY <1>1, <1>2
<1>4. PICK f : /\ BulkFrom(f, data, c, 0)
               /\ decode_tcp_frames(SubSeq(data, 1, c)) = f[0]
  BY <1>3, BulkIs
<1>5. PICK g : /\ BulkFrom(g, data, n, 0)
               /\ decode_tcp_frames(SubSeq(data, 1, n)) = g[0]
  BY BulkIs
<1>6. g[n] = Found(<<>>, n)
  <2>1. g[n] = Body(data, n, g, n)
    BY <1>3, <1>5 DEF BulkFrom
  <2> QED
    BY <1>3, <2>1 DEF Body
<1>7. PICK x \in Seq(Seq(Byte)) : x = <<Msg(data, c)>>
  BY <1>1, Single
<1>8. g[c] = Found(x, n)
  <2>1. g[c] = Body(data, n, g, c)
    BY <1>3, <1>5 DEF BulkFrom
  <2>2. g[n].ok
    BY <1>6, ResultFacts
  <2>3. g[c] = Push(x, g[n])
    BY <1>2, <1>3, <1>7, <2>1, <2>2 DEF Body
  <2>4. x = Join(x, <<>>)
    BY JoinEmpty
  <2>5. Push(x, Found(<<>>, n)) = Found(x, n)
    BY <2>4, Pushed
  <2> QED
    BY <1>6, <2>3, <2>5
<1>9. f[0] = Found(ms, c)
  BY <1>4 DEF Whole
<1>10. g[0] = Found(Join(ms, x), n)
  BY <1>3, <1>4, <1>5, <1>8, <1>9, BulkExtends
<1>11. Join(ms, x) = Append(ms, Msg(data, c))
  BY <1>7 DEF Join
<1> QED
  BY <1>1, <1>2, <1>5, <1>10, <1>11 DEF Whole

\* Of two numbers of bytes that whole frames fill, the larger has the messages
\* of the smaller first, and at least one frame more.
LEMMA WholeLater ==
    ASSUME NEW data \in Seq(Byte), NEW n \in 0 .. Len(data), NEW c \in 0 .. n,
           NEW ms \in Seq(Seq(Byte)), NEW later \in Seq(Seq(Byte)),
           Whole(data, c, ms), Whole(data, n, later)
    PROVE  /\ IsPrefix(ms, later)
           /\ n # c => c + 2 <= n /\ c + Size(data, c) <= n
<1>1. n \in Nat /\ c \in Nat /\ c <= n /\ n <= Len(data) /\ Len(data) \in Nat
      /\ c \in 0 .. Len(data) /\ 0 \in 0 .. c
  OBVIOUS
<1>2. PICK f : /\ BulkFrom(f, data, c, 0)
               /\ decode_tcp_frames(SubSeq(data, 1, c)) = f[0]
  BY <1>1, BulkIs
<1>3. PICK g : /\ BulkFrom(g, data, n, 0)
               /\ decode_tcp_frames(SubSeq(data, 1, n)) = g[0]
  BY BulkIs
<1>4. f[0] = Found(ms, c) /\ g[0] = Found(later, n)
  BY <1>2, <1>3 DEF Whole
<1>5. /\ g[c] = Failed => g[0] = Failed
      /\ \A m2 \in Seq(Seq(Byte)), c2 \in Nat :
            g[c] = Found(m2, c2) => g[0] = Found(Join(ms, m2), c2)
  BY <1>1, <1>2, <1>3, <1>4, BulkExtends
<1>6. g[c] # Failed
  BY <1>4, <1>5, ResultFacts
<1>7. PICK m2 \in Seq(Seq(Byte)), c2 \in Nat : g[c] = Found(m2, c2)
  BY <1>1, <1>3, <1>6, BulkType DEF IsResult
<1>8. later = Join(ms, m2) /\ c2 = n
  <2>1. PICK e : e = Join(ms, m2)
    OBVIOUS
  <2>2. Found(later, n) = Found(e, c2)
    BY <1>4, <1>5, <1>7, <2>1
  <2>3. Found(later, n).messages = later /\ Found(later, n).consumed = n
    BY ResultFacts
  <2>4. Found(e, c2).messages = e /\ Found(e, c2).consumed = c2
    BY ResultFacts
  <2> QED
    BY <2>1, <2>2, <2>3, <2>4
<1>9. IsPrefix(ms, later)
  <2>1. PICK T : T = Seq(Byte)
    OBVIOUS
  <2>2. ms \in Seq(T) /\ m2 \in Seq(T)
    BY <2>1
  <2>3. IsPrefix(ms, ms)
    BY <2>2, PrefixSelf
  <2>4. IsPrefix(ms, Join(ms, m2))
    BY <2>2, <2>3, PrefixCat DEF Join
  <2> QED
    BY <1>8, <2>4
<1>10. ASSUME n # c PROVE c + 2 <= n /\ c + Size(data, c) <= n
  <2>1. g[c] = Body(data, n, g, c)
    BY <1>1, <1>3 DEF BulkFrom
  <2>2. ~(n - c < 2)
    <3> SUFFICES ASSUME n - c < 2 PROVE FALSE
      OBVIOUS
    <3>1. Found(m2, c2) = Found(<<>>, c)
      BY <1>7, <2>1 DEF Body
    <3>2. Found(m2, c2).consumed = c2 /\ Found(<<>>, c).consumed = c
      BY ResultFacts
    <3> QED
      BY <1>8, <1>10, <3>1, <3>2
  <2>3. Size(data, c) \in Nat
    BY <1>1, <2>2, SizeType
  <2>4. ~(n - c < Size(data, c))
    BY <1>6, <2>1, <2>2 DEF Body
  <2> QED
    BY <1>1, <2>2, <2>3, <2>4
<1> QED
  BY <1>9, <1>10

\* More bytes change nothing in the first c.
LEMMA WholeGrows ==
    ASSUME NEW data \in Seq(Byte), NEW more \in Seq(Byte), NEW c \in 0 .. Len(data), NEW ms,
           Whole(data, c, ms)
    PROVE  Whole(data \o more, c, ms)
<1>1. /\ data \o more \in Seq(Byte) /\ Len(data \o more) = Len(data) + Len(more)
      /\ \A i \in 1 .. Len(data) : (data \o more)[i] = data[i]
  BY Cat
<1>2. PICK all \in Seq(Byte) : all = data \o more
  BY <1>1
<1>3. Len(all) \in Nat /\ c <= Len(all) /\ c \in Nat /\ c <= Len(data) /\ Len(data) \in Nat
      /\ \A i \in 1 .. c : all[i] = data[i]
  BY <1>1, <1>2
<1>4. /\ SubSeq(data, 1, c) \in Seq(Byte) /\ Len(SubSeq(data, 1, c)) = c
      /\ \A i \in 1 .. c : SubSeq(data, 1, c)[i] = data[i]
  BY <1>3
<1>5. /\ SubSeq(all, 1, c) \in Seq(Byte) /\ Len(SubSeq(all, 1, c)) = c
      /\ \A i \in 1 .. c : SubSeq(all, 1, c)[i] = all[i]
  BY <1>3
<1>6. SubSeq(data, 1, c) = SubSeq(all, 1, c)
  BY <1>3, <1>4, <1>5, SeqEqual
<1> QED
  BY <1>2, <1>6 DEF Whole
-----------------------------------------------------------------------------
(* The streaming decoder against the decoder of a whole buffer *)

\* The bytes that the decoder has given back as frames.
Consumed == Len(received) - buffered(decoder)

\* What is left in the decoder is what was read after them; they are the frames
\* of the messages that were asked; and a task that waits for bytes has looked
\* at all it has.
StreamInv ==
    /\ Consumed \in Nat
    /\ \A i \in 1 .. buffered(decoder) :
          received[Consumed + i] = decoder.buf[decoder.read_pos + i]
    /\ Whole(received, Consumed, asked)
    /\ pc \in {"read", "handshake"} => ~HasFrame(decoder)

LEMMA BufferedType ==
    ASSUME NEW d, Sound(d)
    PROVE  /\ d.buf \in Seq(Byte) /\ d.read_pos \in Nat /\ Len(d.buf) \in Nat
           /\ buffered(d) \in Nat /\ Len(d.buf) = d.read_pos + buffered(d)
BY DEF Sound, TcpFrameDecoder, buffered

\* The next frame of a decoder whose bytes are those of data after c.
LEMMA FrameAgrees ==
    ASSUME NEW data \in Seq(Byte), NEW c \in Nat, NEW d, Sound(d),
           Len(data) = c + buffered(d),
           \A i \in 1 .. buffered(d) : data[c + i] = d.buf[d.read_pos + i]
    PROVE  /\ HasFrame(d) <=> c + 2 <= Len(data) /\ c + Size(data, c) <= Len(data)
           /\ HasFrame(d) => /\ Size(data, c) = 2 + Announced(d)
                             /\ FrameBytes(d) = Msg(data, c)
<1>1. /\ d.buf \in Seq(Byte) /\ d.read_pos \in Nat /\ Len(d.buf) \in Nat
      /\ buffered(d) \in Nat /\ Len(d.buf) = d.read_pos + buffered(d) /\ Len(data) \in Nat
  BY BufferedType
<1>2. CASE buffered(d) < 2
  BY <1>1, <1>2 DEF HasFrame
<1>3. CASE ~(buffered(d) < 2)
  <2>1. 1 \in 1 .. buffered(d) /\ 2 \in 1 .. buffered(d)
    BY <1>1, <1>3
  <2>2. data[c + 1] = d.buf[d.read_pos + 1] /\ data[c + 2] = d.buf[d.read_pos + 2]
    BY <2>1
  <2>3. LengthAt(data, c) = Announced(d) /\ Announced(d) \in 0 .. D /\ D \in Nat
    BY <1>1, <1>3, <2>2, AnnouncedType, PrefixRange DEF LengthAt, Announced
  <2>4. HasFrame(d) <=> c + 2 <= Len(data) /\ c + Size(data, c) <= Len(data)
    BY <1>1, <1>3, <2>3 DEF HasFrame, Size
  <2>5. ASSUME HasFrame(d) PROVE FrameBytes(d) = Msg(data, c)
    <3>0. PICK w \in Seq(Byte), r \in Nat, n \in Nat :
             w = d.buf /\ r = d.read_pos /\ n = buffered(d)
      BY <1>1
    <3>1. PICK k \in Nat : k = Announced(d) /\ 2 + k <= n
      BY <2>3, <2>5, <3>0 DEF HasFrame
    <3>2. PICK a \in Nat, b \in Nat : a = c + 2 /\ b = c + 2 + k /\ a <= b /\ b <= Len(data)
      <4>1. c + 2 \in Nat /\ c + 2 + k \in Nat /\ c + 2 <= c + 2 + k /\ c + 2 + k <= Len(data)
        BY <1>1, <3>0, <3>1
      <4> QED
        BY <4>1
    <3>3. PICK p \in Nat, q \in Nat : p = r + 2 /\ q = r + 2 + k /\ p <= q /\ q <= Len(w)
      <4>1. r + 2 \in Nat /\ r + 2 + k \in Nat /\ r + 2 <= r + 2 + k /\ r + 2 + k <= Len(w)
        <5>1. Len(w) = r + n
          BY <1>1, <3>0
        <5> QED
          BY <3>1, <5>1
      <4> QED
        BY <4>1
    <3>4. /\ SubSeq(data, a + 1, b) \in Seq(Byte) /\ Len(SubSeq(data, a + 1, b)) = b - a
          /\ \A i \in 1 .. b - a : SubSeq(data, a + 1, b)[i] = data[a + i]
      BY <3>2, Slice
    <3>5. /\ SubSeq(w, p + 1, q) \in Seq(Byte) /\ Len(SubSeq(w, p + 1, q)) = q - p
          /\ \A i \in 1 .. q - p : SubSeq(w, p + 1, q)[i] = w[p + i]
      BY <3>3, Slice
    <3>6. b - a = k /\ q - p = k
      BY <3>2, <3>3
    <3>7. ASSUME NEW i \in 1 .. k PROVE data[a + i] = w[p + i]
      <4>1. 2 + i \in 1 .. n /\ c + (2 + i) = a + i /\ r + (2 + i) = p + i
        <5>1. 2 + k <= n /\ a = c + 2 /\ p = r + 2
          BY <3>1, <3>2, <3>3
        <5> HIDE <3>1
        <5> QED
          BY <5>1
      <4>2. data[c + (2 + i)] = w[r + (2 + i)]
        BY <3>0, <4>1
      <4> QED
        BY <4>1, <4>2
    <3>8. SubSeq(data, a + 1, b) = SubSeq(w, p + 1, q)
      <4>1. PICK s \in Seq(Byte), t \in Seq(Byte) :
               s = SubSeq(data, a + 1, b) /\ t = SubSeq(w, p + 1, q)
        BY <3>4, <3>5
      <4>2. Len(s) = k /\ Len(t) = k /\ \A i \in 1 .. k : s[i] = data[a + i] /\ t[i] = w[p + i]
        BY <3>4, <3>5, <3>6, <4>1
      <4>3. Len(s) = Len(t) /\ \A i \in 1 .. Len(s) : s[i] = t[i]
        BY <3>7, <4>2
      <4>4. s = t
        BY <4>3, SeqEqual
      <4> QED
        BY <4>1, <4>4
    <3>9. a + 1 = c + 3 /\ b = c + (2 + k) /\ p + 1 = r + 3 /\ q = r + 2 + k
      BY <3>2, <3>3
    <3>10. Size(data, c) = 2 + k
      BY <2>3, <3>1 DEF Size
    <3>11. Msg(data, c) = SubSeq(data, a + 1, b)
      BY <3>9, <3>10 DEF Msg
    <3>12. FrameBytes(d) = SubSeq(w, p + 1, q)
      BY <3>0, <3>1, <3>9 DEF FrameBytes
    <3> QED
      BY <3>8, <3>11, <3>12
  <2> QED
    BY <2>3, <2>4, <2>5 DEF Size
<1> QED
  BY <1>2, <1>3

LEMMA StreamInit == Init => StreamInv
<1> SUFFICES ASSUME Init PROVE StreamInv
  OBVIOUS
<1>1. decoder.buf = <<>> /\ decoder.read_pos = 0 /\ received = <<>> /\ asked = <<>>
  BY DEF Init, new
<1>2. buffered(decoder) = 0 /\ Consumed = 0
  BY <1>1 DEF buffered, Consumed
<1>3. received \in Seq(Byte)
  BY <1>1
<1>4. Whole(received, Consumed, asked)
  BY <1>1, <1>2, <1>3, WholeNone
<1>5. ~HasFrame(decoder)
  BY <1>2 DEF HasFrame
<1> QED
  BY <1>2, <1>4, <1>5 DEF StreamInv

LEMMA StreamStep == BufferInv /\ StreamInv /\ [Next]_vars => StreamInv'
<1> SUFFICES ASSUME BufferInv, StreamInv, [Next]_vars PROVE StreamInv'
  OBVIOUS
<1>a. /\ Sound(decoder) /\ received \in Seq(Byte) /\ asked \in Seq(Seq(Byte))
      /\ Len(received) \in Nat
  BY DEF BufferInv, TypeOK
<1>b. /\ decoder.buf \in Seq(Byte) /\ decoder.read_pos \in Nat /\ Len(decoder.buf) \in Nat
      /\ buffered(decoder) \in Nat /\ Len(decoder.buf) = decoder.read_pos + buffered(decoder)
  BY <1>a, BufferedType
<1>c. PICK c \in Nat, n \in Nat, w \in Seq(Byte), r \in Nat :
         /\ c = Consumed /\ n = buffered(decoder) /\ w = decoder.buf /\ r = decoder.read_pos
         /\ Len(received) = c + n /\ Len(w) = r + n
  <2>1. Consumed \in Nat /\ Len(received) = Consumed + buffered(decoder)
    BY <1>a, <1>b DEF StreamInv, Consumed
  <2> QED
    BY <1>b, <2>1
<1>d. /\ \A i \in 1 .. n : received[c + i] = w[r + i]
      /\ Whole(received, c, asked)
  BY <1>c DEF StreamInv
<1>1. CASE Read
  <2>1. PICK data \in Pieces : received' = received \o data /\ decoder' = feed(decoder, data)
    BY <1>1 DEF Read
  <2>2. data \in Seq(Byte) /\ Len(data) \in Nat
    BY PieceType
  <2>3. Sound(decoder') /\ decoder'.buf = w \o data /\ decoder'.read_pos = r
    BY <1>a, <1>c, <2>1, <2>2, FeedSound
  <2>4. /\ w \o data \in Seq(Byte) /\ Len(w \o data) = Len(w) + Len(data)
        /\ \A i \in 1 .. Len(w) : (w \o data)[i] = w[i]
        /\ \A i \in 1 .. Len(data) : (w \o data)[Len(w) + i] = data[i]
    BY <2>2, Cat
  <2>5. PICK rcv \in Seq(Byte) : rcv = received
    BY <1>a
  <2>6. /\ rcv \o data \in Seq(Byte) /\ Len(rcv \o data) = Len(rcv) + Len(data)
        /\ \A i \in 1 .. Len(rcv) : (rcv \o data)[i] = rcv[i]
        /\ \A i \in 1 .. Len(data) : (rcv \o data)[Len(rcv) + i] = data[i]
    BY <2>2, Cat
  <2>7. PICK m \in Nat, wd \in Seq(Byte), rd \in Seq(Byte) :
           m = n + Len(data) /\ wd = w \o data /\ rd = rcv \o data
    <3>1. PICK wd \in Seq(Byte) : wd = w \o data
      BY <2>4
    <3>2. PICK rd \in Seq(Byte) : rd = rcv \o data
      BY <2>6
    <3>3. n + Len(data) \in Nat
      BY <2>2
    <3> QED
      BY <3>1, <3>2, <3>3
  <2>8. buffered(decoder') = m
    <3>1. Len(wd) = r + n + Len(data)
      BY <1>c, <2>4, <2>7
    <3> QED
      BY <2>2, <2>3, <2>7, <3>1 DEF buffered
  <2>9. Consumed' = c
    <3>1. Len(rd) = c + n + Len(data)
      BY <1>c, <2>5, <2>6, <2>7
    <3>2. received' = rd
      BY <2>1, <2>5, <2>7
    <3> QED
      BY <2>2, <2>7, <2>8, <3>1, <3>2 DEF Consumed
  <2>10. ASSUME NEW i \in 1 .. m PROVE rd[c + i] = wd[r + i]
    <3>1. CASE i <= n
      <4>1. i \in 1 .. n /\ c + i \in 1 .. Len(rcv) /\ r + i \in 1 .. Len(w)
        <5>1. Len(rcv) = c + n /\ Len(w) = r + n
          BY <1>c, <2>5
        <5>2. i \in 1 .. n
          BY <3>1
        <5> QED
          BY <5>1, <5>2
      <4>2. rd[c + i] = rcv[c + i] /\ wd[r + i] = w[r + i]
        BY <2>4, <2>6, <2>7, <4>1
      <4> QED
        BY <1>d, <2>5, <4>1, <4>2
    <3>2. CASE ~(i <= n)
      <4>1. PICK j \in 1 .. Len(data) : i = n + j
        <5>1. i - n \in 1 .. Len(data) /\ i = n + (i - n)
          BY <2>2, <2>7, <3>2
        <5> QED
          BY <5>1
      <4>2. c + i = Len(rcv) + j /\ r + i = Len(w) + j
        <5>1. Len(rcv) = c + n /\ Len(w) = r + n
          BY <1>c, <2>5
        <5>2. j \in Nat
          BY <2>2, <4>1
        <5> QED
          BY <4>1, <5>1, <5>2
      <4> QED
        BY <2>4, <2>6, <2>7, <4>2
    <3> QED
      BY <3>1, <3>2
  <2>11. Whole(rd, c, asked)
    <3>1. c \in 0 .. Len(rcv)
      BY <1>c, <2>5
    <3> QED
      BY <1>d, <2>2, <2>5, <2>7, <3>1, WholeGrows
  <2>12. received' = rd /\ asked' = asked /\ decoder'.buf = wd /\ decoder'.read_pos = r
    BY <1>1, <2>1, <2>3, <2>5, <2>7 DEF Read
  <2>13. pc' \notin {"read", "handshake"}
    BY <1>1 DEF Read
  <2> QED
    BY <2>8, <2>9, <2>10, <2>11, <2>12, <2>13 DEF StreamInv
<1>2. CASE Decode /\ HasFrame(decoder)
  <2>1. /\ asked' = Append(asked, FrameBytes(decoder)) /\ decoder' = Advance(decoder)
        /\ pc' = "handle" /\ received' = received
    BY <1>2 DEF Decode
  <2>2. /\ c + 2 <= Len(received) /\ c + Size(received, c) <= Len(received)
        /\ Size(received, c) = 2 + Announced(decoder)
        /\ FrameBytes(decoder) = Msg(received, c)
    <3>0. PICK d : d = decoder
      OBVIOUS
    <3>1. PICK data \in Seq(Byte) : d = decoder /\ data = received
      BY <1>a, <3>0
    <3>2. /\ Sound(d) /\ HasFrame(d) /\ Len(data) = c + buffered(d)
          /\ \A i \in 1 .. buffered(d) : data[c + i] = d.buf[d.read_pos + i]
      BY <1>2, <1>a, <1>c, <1>d, <3>1
    <3>3. /\ c + 2 <= Len(data) /\ c + Size(data, c) <= Len(data)
          /\ Size(data, c) = 2 + Announced(d) /\ FrameBytes(d) = Msg(data, c)
      BY <3>2, FrameAgrees
    <3> QED
      BY <3>1, <3>3
  <2>3. /\ c + Size(received, c) \in Nat
        /\ Whole(received, c + Size(received, c), Append(asked, Msg(received, c)))
    BY <1>a, <1>d, <2>2, WholeNext
  <2>4. PICK k \in Nat : /\ k = 2 + Announced(decoder) /\ k <= n
                         /\ buffered(decoder') = n - k
                         /\ \A i \in 1 .. buffered(decoder') :
                               decoder'.buf[decoder'.read_pos + i] = w[r + k + i]
    <3>1. PICK d : d = decoder /\ Sound(d) /\ HasFrame(d)
      BY <1>2, <1>a
    <3>2. PICK e : e = Advance(d)
      OBVIOUS
    <3>3. PICK k : k = 2 + Announced(d)
      OBVIOUS
    <3>4. /\ k \in Nat /\ k <= buffered(d) /\ buffered(e) = buffered(d) - k
          /\ \A i \in 1 .. buffered(e) : e.buf[e.read_pos + i] = d.buf[d.read_pos + k + i]
      BY <3>1, <3>2, <3>3, AdvanceSound
    <3>5. decoder' = e /\ n = buffered(d) /\ w = d.buf /\ r = d.read_pos /\ k = 2 + Announced(decoder)
      BY <1>c, <2>1, <3>1, <3>2, <3>3
    <3> QED
      BY <3>4, <3>5
  <2>5. Consumed' = c + k
    BY <1>c, <2>1, <2>4 DEF Consumed
  <2>6. ASSUME NEW i \in 1 .. n - k
        PROVE  received[c + k + i] = decoder'.buf[decoder'.read_pos + i]
    <3>1. k + i \in 1 .. n /\ c + (k + i) = c + k + i /\ r + (k + i) = r + k + i
      BY <2>4
    <3>2. received[c + (k + i)] = w[r + (k + i)]
      BY <1>d, <3>1
    <3> QED
      BY <2>4, <3>1, <3>2
  <2>7. Whole(received', Consumed', asked')
    BY <2>1, <2>2, <2>3, <2>4, <2>5
  <2> QED
    BY <2>1, <2>4, <2>5, <2>6, <2>7 DEF StreamInv
<1>3. CASE Decode /\ ~HasFrame(decoder)
  BY <1>3 DEF Decode, StreamInv, Consumed
<1>4. CASE AcceptTls
  BY <1>4 DEF AcceptTls, StreamInv, Consumed, history, blackhole
<1>5. CASE HandshakeFails \/ ReadEnds \/ Reply202
  BY <1>5 DEF HandshakeFails, ReadEnds, Reply202, Close, StreamInv, Consumed, history, blackhole
<1>6. CASE Handle
  BY <1>6 DEF Handle, StreamInv, Consumed
<1>7. CASE WriteAll \/ WriteTimeout \/ WriteFails
  BY <1>7 DEF WriteAll, WriteTimeout, WriteFails, Close, StreamInv, Consumed, history, blackhole
<1>8. CASE Drain \/ DrainEnds
  BY <1>8 DEF Drain, DrainEnds, StreamInv, Consumed, history, blackhole
<1>9. CASE UNCHANGED vars
  BY <1>9 DEF vars, history, blackhole, StreamInv, Consumed
<1> QED
  BY <1>1, <1>2, <1>3, <1>4, <1>5, <1>6, <1>7, <1>8, <1>9 DEF Next

LEMMA LargestElement ==
    ASSUME NEW n \in Nat, NEW S \in SUBSET (0 .. n), S # {}
    PROVE  Max(S) \in S /\ \A j \in S : Max(S) >= j
<1> DEFINE T == {n - i : i \in S}
<1>1. T \in SUBSET Nat /\ T # {}
  <2>1. \A i \in S : n - i \in Nat
    OBVIOUS
  <2>2. PICK i \in S : TRUE
    OBVIOUS
  <2>3. n - i \in T
    OBVIOUS
  <2> QED
    BY <2>1, <2>3
<1> HIDE DEF T
<1>2. PICK m \in T : \A k \in T : m <= k
  BY <1>1, LeastElement
<1>3. PICK i \in S : m = n - i
  BY <1>2 DEF T
<1>4. \A j \in S : n - j \in T
  BY DEF T
<1>5. \A j \in S : i >= j
  BY <1>2, <1>3, <1>4
<1> QED
  BY <1>5 DEF Max

\* For every base, read size and stream, and however the stream is cut into
\* reads, the streaming decoder hands over the messages that decode_tcp_frames
\* finds in the whole frames of it, in their order, and once it waits for bytes
\* all of them, with exactly the bytes after them left.
THEOREM StreamingMatchesBulkHolds == Spec => []StreamingMatchesBulk
<1>1. BufferInv /\ StreamInv => StreamingMatchesBulk
  <2> SUFFICES ASSUME BufferInv, StreamInv PROVE StreamingMatchesBulk
    OBVIOUS
  <2> DEFINE Ends == {n \in 0 .. Len(received) :
                         LET all == decode_tcp_frames(SubSeq(received, 1, n))
                         IN  all.ok /\ all.consumed = n}
  <2>1. /\ Sound(decoder) /\ received \in Seq(Byte) /\ asked \in Seq(Seq(Byte))
        /\ Len(received) \in Nat
    BY DEF BufferInv, TypeOK
  <2>2. buffered(decoder) \in Nat
    BY <2>1, BufferedType
  <2>3. PICK c \in 0 .. Len(received) : /\ c = Consumed /\ Len(received) = c + buffered(decoder)
    BY <2>1, <2>2 DEF StreamInv, Consumed
  <2>4. Whole(received, c, asked)
    BY <2>3 DEF StreamInv
  <2>5. c \in Ends
    BY <2>4, WholeFacts
  <2>6. Max(Ends) \in Ends /\ Max(Ends) >= c
    <3>1. Ends \in SUBSET (0 .. Len(received))
      OBVIOUS
    <3> HIDE DEF Ends
    <3> QED
      BY <2>1, <2>5, <3>1, LargestElement
  <2>7. PICK m \in Ends : m = Max(Ends) /\ m >= c
    BY <2>6
  <2>8. /\ m \in 0 .. Len(received)
        /\ decode_tcp_frames(SubSeq(received, 1, m)).ok
        /\ decode_tcp_frames(SubSeq(received, 1, m)).consumed = m
    BY <2>7
  <2>9. WholeFrames = SubSeq(received, 1, m)
    BY <2>7 DEF WholeFrames
  <2> HIDE DEF Ends
  <2>10. PICK ms \in Seq(Seq(Byte)) : Whole(received, m, ms)
    BY <2>1, <2>8, WholeWhen
  <2>11. c \in 0 .. m
    BY <2>7, <2>8
  <2>12. /\ IsPrefix(asked, ms)
         /\ m # c => c + 2 <= m /\ c + Size(received, c) <= m
    BY <2>1, <2>4, <2>8, <2>10, <2>11, WholeLater
  <2>13. /\ decode_tcp_frames(WholeFrames).messages = ms
         /\ decode_tcp_frames(WholeFrames).consumed = m
    BY <2>9, <2>10, WholeFacts
  <2>14. ASSUME pc = "read"
         PROVE  asked = ms /\ buffered(decoder) = Len(received) - m
    <3>1. ~HasFrame(decoder)
      BY <2>14 DEF StreamInv
    <3>2. ~(c + 2 <= Len(received) /\ c + Size(received, c) <= Len(received))
      BY <2>1, <2>3, <3>1, FrameAgrees DEF StreamInv
    <3>3. m = c
      <4> SUFFICES ASSUME m # c PROVE FALSE
        OBVIOUS
      <4>1. c + 2 <= m /\ c + Size(received, c) <= m
        BY <2>12
      <4>2. Size(received, c) \in Nat
        BY <2>1, <2>8, <4>1, SizeType
      <4> QED
        BY <2>1, <2>8, <3>2, <4>1, <4>2
    <3>4. Found(asked, c) = Found(ms, c)
      BY <2>4, <2>10, <3>3 DEF Whole
    <3>5. Found(asked, c).messages = asked /\ Found(ms, c).messages = ms
      BY ResultFacts
    <3> QED
      BY <2>2, <2>3, <3>3, <3>4, <3>5
  <2> QED
    BY <2>12, <2>13, <2>14 DEF StreamingMatchesBulk
<1> QED
  BY <1>1, StreamInit, StreamStep, BufferAlways, PTL DEF Spec
=============================================================================
