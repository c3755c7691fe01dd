----------------------------- MODULE RtcPipe_proofs -----------------------------
(***************************************************************************)
(* Proofs about RtcPipe: no byte of a file or a text is lost, doubled or   *)
(* moved, and an app that is told the end has all of it, for every length, *)
(* way of cutting it and capacity of the queues.                           *)
(*                                                                         *)
(* FlattenSeq is defined by recursion.  The facts about it are proved by   *)
(* induction over a set of numbers, from the order of Nat being            *)
(* well-founded: the theorems of the library that take the formula to be   *)
(* proved as a parameter are not needed.                                   *)
(***************************************************************************)
EXTENDS RtcPipe, SequenceTheorems, WellFoundedInduction, TLAPS

-----------------------------------------------------------------------------
(* Induction, and sequences of sequences.                                  *)

LEMMA Induction ==
    ASSUME NEW T, 0 \in T, \A n \in Nat : n \in T => n + 1 \in T
    PROVE  Nat \subseteq T
<1> DEFINE U == Nat \ T
           R == OpToRel(<, Nat)
<1>1. \A m, n \in Nat : m < n => <<m, n>> \in R
  BY DEF OpToRel
<1>2. IsWellFoundedOn(R, Nat)
  BY NatLessThanWellFounded
<1> HIDE DEF R
<1> SUFFICES ASSUME U # {} PROVE FALSE
  OBVIOUS
<1>3. PICK x \in U : \A y \in U : ~ (<<y, x>> \in R)
  BY <1>2, WFMin
<1>4. x \in Nat \ {0}
  OBVIOUS
<1>5. x - 1 \in Nat /\ x - 1 < x /\ (x - 1) + 1 = x
  BY <1>4
<1>6. x - 1 \in T
  BY <1>1, <1>3, <1>5
<1>7. x \in T
  BY <1>5, <1>6
<1> QED
  BY <1>7

\* What FlattenSeq's local function is.
Flattens(f, s) ==
    f = [i \in 1..Len(s) |-> IF i = 1 THEN s[i] ELSE f[i - 1] \o s[i]]

LEMMA FlattenIs ==
    ASSUME NEW S, NEW s \in Seq(Seq(S)), s # <<>>
    PROVE  FlattenSeq(s) = (CHOOSE f : Flattens(f, s))[Len(s)]
<1>1. Len(s) # 0
  OBVIOUS
<1> QED
  BY <1>1 DEF FlattenSeq, Flattens

\* Such a function is there, ...
LEMMA FlattensExists ==
    ASSUME NEW S, NEW s \in Seq(Seq(S))
    PROVE  \E f \in [1..Len(s) -> Seq(S)] : Flattens(f, s)
<1> DEFINE Step(f, i) == IF i = 1 THEN s[i] ELSE f[i - 1] \o s[i]
           Done(k) == \E f \in [1..k -> Seq(S)] : \A i \in 1..k : f[i] = Step(f, i)
           T == {k \in Nat : k <= Len(s) => Done(k)}
<1> HIDE DEF Done
<1>0. \A k \in Nat : k \in T <=> (k <= Len(s) => Done(k))
  OBVIOUS
<1> HIDE DEF T
<1>1. 0 \in T
  <2>1. Done(0)
    <3>1. 1..0 = {}
      OBVIOUS
    <3>2. [i \in 1..0 |-> <<>>] \in [1..0 -> Seq(S)]
      BY <3>1
    <3> QED
      BY <3>1, <3>2 DEF Done
  <2> QED
    BY <1>0, <2>1
<1>2. ASSUME NEW k \in Nat, k \in T PROVE k + 1 \in T
  <2> SUFFICES ASSUME k + 1 <= Len(s) PROVE Done(k + 1)
    BY <1>0
  <2>0. Done(k)
    BY <1>0, <1>2
  <2>1. PICK f \in [1..k -> Seq(S)] : \A i \in 1..k : f[i] = Step(f, i)
    BY <2>0 DEF Done
  <2> DEFINE last == IF k = 0 THEN s[1] ELSE f[k] \o s[k + 1]
             g == [i \in 1..(k + 1) |-> IF i = k + 1 THEN last ELSE f[i]]
  <2>2. \A i \in 1..(k + 1) : s[i] \in Seq(S)
    OBVIOUS
  <2>3. last \in Seq(S)
    <3>1. CASE k = 0
      BY <2>2, <3>1
    <3>2. CASE k # 0
      <4>1. f[k] \in Seq(S) /\ s[k + 1] \in Seq(S)
        BY <2>2, <3>2
      <4>2. f[k] \o s[k + 1] \in Seq(S)
        BY <4>1
      <4> QED
        BY <3>2, <4>2
    <3> QED
      BY <3>1, <3>2
  <2> HIDE DEF last
  <2>4. g \in [1..(k + 1) -> Seq(S)]
    BY <2>3
  <2>5. ASSUME NEW i \in 1..(k + 1) PROVE g[i] = Step(g, i)
    <3>1. CASE i = k + 1
      <4>1. CASE k = 0
        BY <3>1, <4>1 DEF last
      <4>2. CASE k # 0
        <5>1. i - 1 = k /\ k \in 1..(k + 1) /\ k # k + 1 /\ i # 1
          BY <3>1, <4>2
        <5>2. g[i - 1] = f[k]
          BY <5>1
        <5>3. g[i] = f[k] \o s[k + 1]
          BY <3>1, <4>2 DEF last
        <5> QED
          BY <3>1, <5>1, <5>2, <5>3
      <4> QED
        BY <4>1, <4>2
    <3>2. CASE i # k + 1
      <4>1. i \in 1..k /\ g[i] = f[i]
        BY <3>2
      <4>2. i # 1 => g[i - 1] = f[i - 1]
        BY <4>1
      <4> QED
        BY <2>1, <4>1, <4>2
    <3> QED
      BY <3>1, <3>2
  <2> QED
    BY <2>4, <2>5 DEF Done
<1>3. Done(Len(s))
  <2>1. Nat \subseteq T
    BY <1>1, <1>2, Induction
  <2> QED
    BY <1>0, <2>1
<1>4. PICK f \in [1..Len(s) -> Seq(S)] : \A i \in 1..Len(s) : f[i] = Step(f, i)
  BY <1>3 DEF Done
<1>5. f = [i \in 1..Len(s) |-> Step(f, i)]
  BY <1>4
<1> QED
  BY <1>5 DEF Flattens

\* ... and FlattenSeq takes its last value.
LEMMA FlattenStep ==
    ASSUME NEW S, NEW s \in Seq(Seq(S)), s # <<>>
    PROVE  \E f \in [1..Len(s) -> Seq(S)] :
              /\ \A i \in 1..Len(s) : f[i] = IF i = 1 THEN s[i] ELSE f[i - 1] \o s[i]
              /\ FlattenSeq(s) = f[Len(s)]
<1> DEFINE h == CHOOSE f : Flattens(f, s)
<1>1. PICK f \in [1..Len(s) -> Seq(S)] : Flattens(f, s)
  BY FlattensExists
<1>2. Flattens(h, s)
  BY <1>1
<1>3. FlattenSeq(s) = h[Len(s)]
  BY FlattenIs
<1> HIDE DEF h
<1>4. \A i \in 1..Len(s) : h[i] = IF i = 1 THEN s[i] ELSE h[i - 1] \o s[i]
  BY <1>2 DEF Flattens
<1> DEFINE T == {k \in Nat : k \in 1..Len(s) => h[k] \in Seq(S)}
<1>5. 0 \in T
  OBVIOUS
<1>6. ASSUME NEW k \in Nat, k \in T PROVE k + 1 \in T
  <2> SUFFICES ASSUME k + 1 \in 1..Len(s) PROVE h[k + 1] \in Seq(S)
    OBVIOUS
  <2>1. s[k + 1] \in Seq(S)
    OBVIOUS
  <2>2. CASE k = 0
    BY <1>4, <2>1, <2>2
  <2>3. CASE k # 0
    <3>1. k \in 1..Len(s) /\ k + 1 # 1 /\ (k + 1) - 1 = k
      BY <2>3
    <3>2. h[k] \in Seq(S)
      BY <1>6, <3>1
    <3>3. h[k + 1] = h[k] \o s[k + 1]
      BY <1>4, <3>1
    <3> QED
      BY <2>1, <3>2, <3>3
  <2> QED
    BY <2>2, <2>3
<1>7. h \in [1..Len(s) -> Seq(S)]
  <2>1. Nat \subseteq T
    <3> HIDE DEF T
    <3> QED
      BY <1>5, <1>6, Induction
  <2>2. \A k \in 1..Len(s) : h[k] \in Seq(S)
    BY <2>1
  <2> QED
    BY <1>2, <2>2 DEF Flattens
<1> QED
  BY <1>3, <1>4, <1>7

LEMMA SeqInduction ==
    ASSUME NEW S, NEW T, <<>> \in T, \A s \in Seq(S), e \in S : s \in T => Append(s, e) \in T
    PROVE  Seq(S) \subseteq T
<1> DEFINE N == {n \in Nat : \A s \in Seq(S) : Len(s) = n => s \in T}
<1>1. 0 \in N
  <2>1. \A s \in Seq(S) : Len(s) = 0 => s = <<>>
    BY EmptySeq
  <2> QED
    BY <2>1
<1>2. ASSUME NEW n \in Nat, n \in N PROVE n + 1 \in N
  <2> SUFFICES ASSUME NEW s \in Seq(S), Len(s) = n + 1 PROVE s \in T
    OBVIOUS
  <2>1. s # <<>>
    OBVIOUS
  <2>2. PICK u \in Seq(S), e \in S : s = Append(u, e)
    BY <2>1, SequenceEmptyOrAppend
  <2>3. Len(s) = Len(u) + 1 /\ Len(u) \in Nat
    BY <2>2, AppendProperties
  <2>4. Len(u) = n
    BY <2>3
  <2>5. u \in T
    BY <1>2, <2>4
  <2> QED
    BY <2>2, <2>5
<1>3. Nat \subseteq N
  <2> HIDE DEF N
  <2> QED
    BY <1>1, <1>2, Induction
<1>4. \A s \in Seq(S) : Len(s) \in Nat
  OBVIOUS
<1> QED
  BY <1>3, <1>4

LEMMA FlattenEmpty == FlattenSeq(<<>>) = <<>>
BY DEF FlattenSeq

LEMMA FlattenType ==
    ASSUME NEW S, NEW s \in Seq(Seq(S))
    PROVE  FlattenSeq(s) \in Seq(S)
<1>1. CASE s = <<>>
  <2>1. FlattenSeq(s) = <<>>
    BY <1>1, FlattenEmpty
  <2> QED
    BY <2>1, EmptySeq
<1>2. CASE s # <<>>
  <2>1. PICK f \in [1..Len(s) -> Seq(S)] : FlattenSeq(s) = f[Len(s)]
    BY <1>2, FlattenStep
  <2>2. Len(s) \in 1..Len(s)
    BY <1>2, EmptySeq
  <2> QED
    BY <2>1, <2>2
<1> QED
  BY <1>1, <1>2

LEMMA FlattenOne ==
    ASSUME NEW S, NEW x \in Seq(S)
    PROVE  FlattenSeq(<<x>>) = x
<1>1. <<x>> \in Seq(Seq(S)) /\ <<x>> # <<>> /\ Len(<<x>>) = 1 /\ <<x>>[1] = x
  OBVIOUS
<1>2. PICK f \in [1..Len(<<x>>) -> Seq(S)] :
         /\ \A i \in 1..Len(<<x>>) : f[i] = IF i = 1 THEN <<x>>[i] ELSE f[i - 1] \o <<x>>[i]
         /\ FlattenSeq(<<x>>) = f[Len(<<x>>)]
  BY <1>1, FlattenStep
<1> QED
  BY <1>1, <1>2

LEMMA FlattenAppend ==
    ASSUME NEW S, NEW s \in Seq(Seq(S)), NEW x \in Seq(S)
    PROVE  FlattenSeq(Append(s, x)) = FlattenSeq(s) \o x
<1> DEFINE a == Append(s, x)
           n == Len(s)
<1>1. CASE s = <<>>
  <2>1. a = <<x>>
    BY <1>1
  <2> QED
    BY <1>1, <2>1, FlattenOne, FlattenEmpty
<1>2. CASE s # <<>>
  <2>1. /\ a \in Seq(Seq(S)) /\ a # <<>> /\ Len(a) = n + 1
        /\ \A i \in 1..n : a[i] = s[i]
        /\ a[n + 1] = x
    BY AppendProperties
  <2>2. n \in Nat \ {0}
    BY <1>2, EmptySeq
  <2>3. PICK f \in [1..n -> Seq(S)] :
           /\ \A i \in 1..n : f[i] = IF i = 1 THEN s[i] ELSE f[i - 1] \o s[i]
           /\ FlattenSeq(s) = f[n]
    BY <1>2, FlattenStep
  <2> HIDE DEF a, n
  <2>4. PICK g \in [1..Len(a) -> Seq(S)] :
           /\ \A i \in 1..Len(a) : g[i] = IF i = 1 THEN a[i] ELSE g[i - 1] \o a[i]
           /\ FlattenSeq(a) = g[Len(a)]
    BY <2>1, FlattenStep
  <2> DEFINE T == {k \in Nat : k \in 1..n => g[k] = f[k]}
  <2>5. 0 \in T
    OBVIOUS
  <2>6. ASSUME NEW k \in Nat, k \in T PROVE k + 1 \in T
    <3> SUFFICES ASSUME k + 1 \in 1..n PROVE g[k + 1] = f[k + 1]
      OBVIOUS
    <3>1. k + 1 \in 1..Len(a) /\ a[k + 1] = s[k + 1]
      BY <2>1, <2>2
    <3>2. CASE k = 0
      <4>1. k + 1 = 1 /\ 1 \in 1..n
        BY <3>2
      <4>2. f[1] = s[1]
        BY <2>3, <4>1
      <4>3. g[1] = a[1]
        BY <2>4, <3>1, <4>1
      <4> QED
        BY <3>1, <4>1, <4>2, <4>3
    <3>3. CASE k # 0
      <4>1. k \in 1..n /\ k + 1 # 1 /\ (k + 1) - 1 = k
        BY <2>2, <3>3
      <4>2. g[k] = f[k]
        BY <2>6, <4>1
      <4>3. f[k + 1] = f[k] \o s[k + 1]
        BY <2>3, <4>1
      <4>4. g[k + 1] = g[k] \o a[k + 1]
        BY <2>4, <3>1, <4>1
      <4> QED
        BY <3>1, <4>2, <4>3, <4>4
    <3> QED
      BY <3>2, <3>3
  <2>7. g[n] = f[n]
    <3>1. Nat \subseteq T
      <4> HIDE DEF T
      <4> QED
        BY <2>5, <2>6, Induction
    <3>2. n \in Nat /\ n \in 1..n
      BY <2>2
    <3> QED
      BY <3>1, <3>2
  <2>8. g[n + 1] = g[n] \o a[n + 1]
    <3>1. n + 1 \in 1..Len(a) /\ n + 1 # 1 /\ (n + 1) - 1 = n
      BY <2>1, <2>2
    <3> QED
      BY <2>4, <3>1
  <2> QED
    BY <2>1, <2>3, <2>4, <2>7, <2>8 DEF a
<1> QED
  BY <1>1, <1>2

LEMMA FlattenConcat ==
    ASSUME NEW S, NEW s \in Seq(Seq(S)), NEW t \in Seq(Seq(S))
    PROVE  FlattenSeq(s \o t) = FlattenSeq(s) \o FlattenSeq(t)
<1> DEFINE T == {u \in Seq(Seq(S)) : FlattenSeq(s \o u) = FlattenSeq(s) \o FlattenSeq(u)}
<1>0. FlattenSeq(s) \in Seq(S)
  BY FlattenType
<1>1. <<>> \in T
  <2>1. FlattenSeq(s) \o <<>> = FlattenSeq(s) /\ s \o <<>> = s
    BY <1>0, ConcatEmptySeq
  <2>2. FlattenSeq(s \o <<>>) = FlattenSeq(s) \o FlattenSeq(<<>>)
    BY <2>1, FlattenEmpty
  <2> QED
    BY <2>2, EmptySeq
<1>2. ASSUME NEW u \in Seq(Seq(S)), NEW x \in Seq(S), u \in T
      PROVE  Append(u, x) \in T
  <2>1. /\ Append(u, x) \in Seq(Seq(S)) /\ s \o u \in Seq(Seq(S))
        /\ s \o Append(u, x) = Append(s \o u, x)
    OBVIOUS
  <2>2. FlattenSeq(s \o Append(u, x)) = FlattenSeq(s \o u) \o x
    BY <2>1, FlattenAppend
  <2>3. FlattenSeq(s \o u) = FlattenSeq(s) \o FlattenSeq(u)
    BY <1>2
  <2>4. (FlattenSeq(s) \o FlattenSeq(u)) \o x = FlattenSeq(s) \o (FlattenSeq(u) \o x)
    <3>1. FlattenSeq(u) \in Seq(S)
      BY FlattenType
    <3> QED
      BY <1>0, <3>1, ConcatAssociative, SMTT(30)
  <2>5. FlattenSeq(Append(u, x)) = FlattenSeq(u) \o x
    BY FlattenAppend
  <2> QED
    BY <2>1, <2>2, <2>3, <2>4, <2>5
<1>3. Seq(Seq(S)) \subseteq T
  <2> HIDE DEF T
  <2> QED
    BY <1>1, <1>2, SeqInduction
<1> QED
  BY <1>3

LEMMA FlattenHead ==
    ASSUME NEW S, NEW s \in Seq(Seq(S)), s # <<>>
    PROVE  /\ FlattenSeq(s) = Head(s) \o FlattenSeq(Tail(s))
           /\ Head(s) \in Seq(S) /\ Tail(s) \in Seq(Seq(S))
<1>1. /\ Head(s) \in Seq(S) /\ Tail(s) \in Seq(Seq(S))
      /\ s = <<Head(s)>> \o Tail(s)
      /\ <<Head(s)>> \in Seq(Seq(S))
  OBVIOUS
<1>2. FlattenSeq(<<Head(s)>> \o Tail(s)) = FlattenSeq(<<Head(s)>>) \o FlattenSeq(Tail(s))
  BY <1>1, FlattenConcat
<1>3. FlattenSeq(<<Head(s)>>) = Head(s)
  BY <1>1, FlattenOne
<1> QED
  BY <1>1, <1>2, <1>3

-----------------------------------------------------------------------------
(* The chunks of process_in_chunks.                                        *)

Chunks(all, n) ==
    [i \in 1..n |-> SubSeq(all, (i - 1) * CHUNK_SIZE + 1, i * CHUNK_SIZE)]

LEMMA Multiples ==
    /\ CHUNK_SIZE \in Nat \ {0}
    /\ \A k \in Nat : k * CHUNK_SIZE \in Nat /\ (k + 1) * CHUNK_SIZE = k * CHUNK_SIZE + CHUNK_SIZE
    /\ \A k, n \in Nat : k <= n => k * CHUNK_SIZE <= n * CHUNK_SIZE
    /\ \A l \in Nat : l \div CHUNK_SIZE \in Nat /\ (l \div CHUNK_SIZE) * CHUNK_SIZE <= l
<1> DEFINE C == CHUNK_SIZE
<1>1. C \in Nat \ {0}
  BY SizesAssumption
<1> HIDE DEF C
<1>2. \A k \in Nat : k * C \in Nat /\ (k + 1) * C = k * C + C
  BY <1>1
<1>3. \A k, n \in Nat : k <= n => k * C <= n * C
  <2> SUFFICES ASSUME NEW k \in Nat, NEW n \in Nat, k <= n PROVE k * C <= n * C
    OBVIOUS
  <2>1. n - k \in Nat /\ (n - k) * C \in Nat
    BY <1>1
  <2>2. n * C = k * C + (n - k) * C
    BY <1>1, <2>1
  <2>3. k * C \in Nat
    BY <1>1
  <2> QED
    BY <2>1, <2>2, <2>3
<1>4. \A l \in Nat : l \div C \in Nat /\ (l \div C) * C <= l
  BY <1>1
<1> QED
  BY <1>1, <1>2, <1>3, <1>4 DEF C

LEMMA ChunksFlatten ==
    ASSUME NEW all \in Seq(Byte), NEW n \in Nat, n * CHUNK_SIZE <= Len(all)
    PROVE  /\ Chunks(all, n) \in Seq(Seq(Byte))
           /\ Len(Chunks(all, n)) = n
           /\ \A i \in 1..n : Chunks(all, n)[i] # <<>>
           /\ FlattenSeq(Chunks(all, n)) = SubSeq(all, 1, n * CHUNK_SIZE)
<1> DEFINE C == CHUNK_SIZE
           P(i) == SubSeq(all, (i - 1) * C + 1, i * C)
<1>1. /\ C \in Nat \ {0}
      /\ \A k \in Nat : k * C \in Nat /\ (k + 1) * C = k * C + C
      /\ \A k \in Nat : k <= n => k * C <= n * C
      /\ n * C <= Len(all)
  BY Multiples
<1>2. \A k \in Nat : Chunks(all, k) = [i \in 1..k |-> P(i)]
  BY DEF Chunks
<1> HIDE DEF C
<1>3. ASSUME NEW k \in Nat, k + 1 <= n
      PROVE  /\ P(k + 1) = SubSeq(all, k * C + 1, (k + 1) * C)
             /\ P(k + 1) \in Seq(Byte) /\ P(k + 1) # <<>>
             /\ SubSeq(all, 1, k * C) \o P(k + 1) = SubSeq(all, 1, (k + 1) * C)
  <2>1. /\ k * C \in Nat /\ (k + 1) * C = k * C + C /\ (k + 1) * C <= Len(all)
        /\ Len(all) \in Nat
    BY <1>1, <1>3
  <2>2. (k + 1) - 1 = k
    OBVIOUS
  <2>3. P(k + 1) = SubSeq(all, k * C + 1, (k + 1) * C)
    BY <2>2
  <2> DEFINE m == k * C
             l == (k + 1) * C
  <2>4. m \in Nat /\ l \in Nat /\ l = m + C /\ l <= Len(all) /\ m < l
    BY <1>1, <2>1
  <2> HIDE DEF m, l
  <2>5. \A i \in (m + 1)..l : all[i] \in Byte
    BY <2>4
  <2>6. SubSeq(all, m + 1, l) \in Seq(Byte) /\ Len(SubSeq(all, m + 1, l)) = l - (m + 1) + 1
    BY <2>4, <2>5, SubSeqProperties
  <2>7. SubSeq(all, m + 1, l) # <<>>
    <3> DEFINE q == SubSeq(all, m + 1, l)
    <3>1. Len(q) > 0
      BY <2>4, <2>6
    <3> HIDE DEF q
    <3>2. q # <<>>
      BY <3>1
    <3> QED
      BY <3>2 DEF q
  <2>8. SubSeq(all, 1, m) \o SubSeq(all, m + 1, l) = SubSeq(all, 1, l)
    <3>1. 1 \in 1..(Len(all) + 1) /\ m \in (1 - 1)..Len(all) /\ l \in m..Len(all)
      BY <2>1, <2>4
    <3> QED
      BY <3>1, ConcatAdjacentSubSeq
  <2> QED
    BY <2>3, <2>6, <2>7, <2>8 DEF m, l
<1> HIDE DEF P
<1>4. ASSUME NEW i \in 1..n PROVE P(i) \in Seq(Byte) /\ P(i) # <<>>
  <2>1. i - 1 \in Nat /\ (i - 1) + 1 = i /\ (i - 1) + 1 <= n
    OBVIOUS
  <2> QED
    BY <1>3, <2>1
<1>5. ASSUME NEW k \in Nat, k <= n
      PROVE  Chunks(all, k) \in Seq(Seq(Byte)) /\ Len(Chunks(all, k)) = k
  <2>1. \A i \in 1..k : P(i) \in Seq(Byte)
    BY <1>4, <1>5
  <2> QED
    BY <1>2, <2>1
<1> DEFINE T == {k \in Nat : k <= n => FlattenSeq(Chunks(all, k)) = SubSeq(all, 1, k * C)}
<1>6. 0 \in T
  <2>1. Chunks(all, 0) = <<>>
    BY <1>5, EmptySeq
  <2>2. SubSeq(all, 1, 0) = <<>> /\ 0 * C = 0
    BY <1>1, SubSeqEmpty
  <2>3. FlattenSeq(Chunks(all, 0)) = SubSeq(all, 1, 0 * C)
    BY <2>1, <2>2, FlattenEmpty
  <2> QED
    BY <2>3
<1>7. ASSUME NEW k \in Nat, k \in T PROVE k + 1 \in T
  <2> SUFFICES ASSUME k + 1 <= n
               PROVE  FlattenSeq(Chunks(all, k + 1)) = SubSeq(all, 1, (k + 1) * C)
    OBVIOUS
  <2>1. k <= n
    OBVIOUS
  <2>2. FlattenSeq(Chunks(all, k)) = SubSeq(all, 1, k * C)
    BY <1>7, <2>1
  <2>3. Chunks(all, k) \in Seq(Seq(Byte)) /\ Len(Chunks(all, k)) = k
    BY <1>5, <2>1
  <2>4. Chunks(all, k + 1) \in Seq(Seq(Byte)) /\ Len(Chunks(all, k + 1)) = k + 1
    BY <1>5
  <2>5. P(k + 1) \in Seq(Byte)
    BY <1>3
  <2>6. Chunks(all, k + 1) = Append(Chunks(all, k), P(k + 1))
    <3> DEFINE a == Append(Chunks(all, k), P(k + 1))
    <3>1. /\ a \in Seq(Seq(Byte)) /\ Len(a) = k + 1 /\ a[k + 1] = P(k + 1)
          /\ \A i \in 1..k : a[i] = Chunks(all, k)[i]
      BY <2>3, <2>5, AppendProperties
    <3> HIDE DEF a
    <3>2. \A i \in 1..k : Chunks(all, k)[i] = P(i) /\ Chunks(all, k + 1)[i] = P(i)
      BY <1>2
    <3>3. Chunks(all, k + 1)[k + 1] = P(k + 1)
      BY <1>2
    <3>4. ASSUME NEW i \in 1..(k + 1) PROVE Chunks(all, k + 1)[i] = a[i]
      <4>1. CASE i = k + 1
        BY <3>1, <3>3, <4>1
      <4>2. CASE i # k + 1
        <5>1. i \in 1..k
          BY <4>2
        <5> QED
          BY <3>1, <3>2, <5>1
      <4> QED
        BY <4>1, <4>2
    <3>5. Chunks(all, k + 1) = a
      BY <2>4, <3>1, <3>4, SeqEqual
    <3> QED
      BY <3>5 DEF a
  <2>7. FlattenSeq(Chunks(all, k + 1)) = FlattenSeq(Chunks(all, k)) \o P(k + 1)
    BY <2>3, <2>5, <2>6, FlattenAppend
  <2> QED
    BY <1>3, <2>2, <2>7
<1>8. FlattenSeq(Chunks(all, n)) = SubSeq(all, 1, n * C)
  <2>1. Nat \subseteq T
    <3> HIDE DEF T
    <3> QED
      BY <1>6, <1>7, Induction
  <2> QED
    BY <2>1
<1>9. \A i \in 1..n : Chunks(all, n)[i] # <<>>
  BY <1>2, <1>4
<1> QED
  BY <1>5, <1>8, <1>9 DEF C

-----------------------------------------------------------------------------
(* The bytes and the queues.                                               *)

LEMMA BytesIs ==
    ASSUME NEW from \in Nat, NEW to \in Nat, from <= to, to <= Length
    PROVE  /\ Bytes(from, to) \in Seq(Byte) /\ Upto(from) \in Seq(Byte)
           /\ Upto(from) \o Bytes(from, to) = Upto(to)
<1>1. ASSUME NEW a \in Nat, NEW b \in Nat, a <= b, b <= Length
      PROVE  /\ Bytes(a, b) \in Seq(Byte) /\ Len(Bytes(a, b)) = b - a
             /\ \A i \in 1..(b - a) : Bytes(a, b)[i] = a + i
  <2>1. b - a \in Nat /\ \A i \in 1..(b - a) : a + i \in Byte
    BY <1>1, SizesAssumption DEF Byte
  <2> QED
    BY <2>1 DEF Bytes
<1>2. ASSUME NEW n \in Nat, n <= Length
      PROVE  /\ Upto(n) \in Seq(Byte) /\ Len(Upto(n)) = n
             /\ \A i \in 1..n : Upto(n)[i] = i
  <2>1. 0 \in Nat /\ 0 <= n /\ n - 0 = n /\ \A i \in 1..n : 0 + i = i
    OBVIOUS
  <2>2. /\ Bytes(0, n) \in Seq(Byte) /\ Len(Bytes(0, n)) = n - 0
        /\ \A i \in 1..(n - 0) : Bytes(0, n)[i] = 0 + i
    BY <1>1, <1>2, <2>1
  <2> QED
    BY <2>1, <2>2 DEF Upto
<1> DEFINE u == Upto(from)
           v == Bytes(from, to)
           w == Upto(to)
           l == u \o v
<1>3. u \in Seq(Byte) /\ Len(u) = from /\ \A i \in 1..from : u[i] = i
  BY <1>2, SizesAssumption
<1>4. w \in Seq(Byte) /\ Len(w) = to /\ \A i \in 1..to : w[i] = i
  BY <1>2
<1>5. /\ v \in Seq(Byte) /\ Len(v) = to - from
      /\ \A i \in 1..(to - from) : v[i] = from + i
  BY <1>1
<1> HIDE DEF u, v, w
<1>6. /\ l \in Seq(Byte) /\ Len(l) = Len(u) + Len(v)
      /\ \A i \in 1..(Len(u) + Len(v)) : l[i] = IF i <= Len(u) THEN u[i] ELSE v[i - Len(u)]
  BY <1>3, <1>5, ConcatProperties
<1> HIDE DEF l
<1>7. Len(u) + Len(v) = to
  BY <1>3, <1>5
<1>8. ASSUME NEW i \in 1..to PROVE l[i] = w[i]
  <2>1. CASE i <= from
    BY <1>3, <1>4, <1>6, <1>7, <2>1
  <2>2. CASE ~(i <= from)
    <3>1. i - from \in 1..(to - from) /\ from + (i - from) = i
      BY <2>2
    <3>2. l[i] = v[i - from]
      BY <1>3, <1>6, <1>7, <2>2
    <3> QED
      BY <1>4, <1>5, <3>1, <3>2
  <2> QED
    BY <2>1, <2>2
<1>9. l = w
  BY <1>4, <1>6, <1>7, <1>8, SeqEqual
<1> QED
  BY <1>3, <1>5, <1>9 DEF u, v, w, l

LEMMA Regroup ==
    ASSUME NEW a \in Seq(Byte), NEW b \in Seq(Byte), NEW c \in Seq(Byte)
    PROVE  a \o (b \o c) = (a \o b) \o c /\ a \o b \in Seq(Byte)
BY ConcatAssociative, ConcatProperties

\* The head of a queue goes to whoever is before it, and is where it was.
LEMMA TakeOver ==
    ASSUME NEW p \in Seq(Byte), NEW x \in Seq(Byte), NEW r \in Seq(Seq(Byte)), r # <<>>
    PROVE  (p \o (x \o Head(r))) \o FlattenSeq(Tail(r)) = (p \o x) \o FlattenSeq(r)
<1> DEFINE h == Head(r)
           f == FlattenSeq(Tail(r))
           px == p \o x
<1>1. FlattenSeq(r) = h \o f /\ h \in Seq(Byte) /\ f \in Seq(Byte)
  <2>1. FlattenSeq(r) = h \o f /\ h \in Seq(Byte) /\ Tail(r) \in Seq(Seq(Byte))
    BY FlattenHead
  <2>2. f \in Seq(Byte)
    BY <2>1, FlattenType
  <2> QED
    BY <2>1, <2>2
<1>2. h \in Seq(Byte) /\ f \in Seq(Byte)
  BY <1>1
<1> HIDE DEF h, f
<1>3. p \o (x \o h) = px \o h
  BY <1>2, Regroup
<1>4. px \in Seq(Byte)
  BY ConcatProperties
<1> HIDE DEF px
<1>5. (px \o h) \o f = px \o (h \o f)
  BY <1>2, <1>4, Regroup
<1> QED
  BY <1>1, <1>3, <1>5 DEF h, f, px

LEMMA HandOver ==
    ASSUME NEW p \in Seq(Byte), NEW q \in Seq(Seq(Byte)), NEW r \in Seq(Seq(Byte)), r # <<>>
    PROVE  (p \o FlattenSeq(Append(q, Head(r)))) \o FlattenSeq(Tail(r))
              = (p \o FlattenSeq(q)) \o FlattenSeq(r)
<1>1. FlattenSeq(q) \in Seq(Byte)
  BY FlattenType
<1>2. Head(r) \in Seq(Byte)
  BY FlattenHead
<1>3. FlattenSeq(Append(q, Head(r))) = FlattenSeq(q) \o Head(r)
  BY <1>2, FlattenAppend
<1>4. (p \o (FlattenSeq(q) \o Head(r))) \o FlattenSeq(Tail(r))
         = (p \o FlattenSeq(q)) \o FlattenSeq(r)
  BY <1>1, TakeOver
<1> QED
  BY <1>3, <1>4

LEMMA FinalTail ==
    ASSUME NEW q \in Seq(Seq(Byte)), q # <<>>, Final(q)
    PROVE  /\ Head(q) \in Seq(Byte) /\ Tail(q) \in Seq(Seq(Byte)) /\ Final(Tail(q))
           /\ Head(q) \in Range(q) /\ Range(Tail(q)) \subseteq Range(q)
           /\ Head(q) = End => Tail(q) = <<>>
<1> DEFINE h == Head(q)
           t == Tail(q)
<1>1. /\ h \in Seq(Byte) /\ h = q[1]
      /\ t \in Seq(Seq(Byte)) /\ Len(t) = Len(q) - 1
      /\ \A i \in 1..Len(t) : t[i] = q[i + 1]
  BY HeadTailProperties
<1> HIDE DEF h, t
<1>2. Len(q) \in Nat \ {0} /\ DOMAIN q = 1..Len(q) /\ DOMAIN t = 1..Len(t)
  BY <1>1, EmptySeq, LenProperties
<1>3. Final(t)
  <2> SUFFICES ASSUME NEW i \in 1..Len(t), t[i] = End PROVE i = Len(t)
    BY DEF Final
  <2>1. i \in Nat /\ i + 1 \in 1..Len(q) /\ q[i + 1] = End
    BY <1>1, <1>2
  <2>2. i + 1 = Len(q)
    BY <2>1 DEF Final
  <2> QED
    BY <1>1, <1>2, <2>1, <2>2
<1>4. h \in Range(q)
  <2>1. 1 \in DOMAIN q /\ q[1] = h
    BY <1>1, <1>2
  <2> QED
    BY <2>1 DEF Range
<1>5. Range(t) \subseteq Range(q)
  <2>1. \A i \in DOMAIN t : i + 1 \in DOMAIN q /\ t[i] = q[i + 1]
    BY <1>1, <1>2
  <2> QED
    BY <2>1 DEF Range
<1>6. h = End => t = <<>>
  <2> SUFFICES ASSUME h = End PROVE t = <<>>
    OBVIOUS
  <2>1. 1 \in 1..Len(q) /\ q[1] = End
    BY <1>1, <1>2
  <2>2. 1 = Len(q)
    BY <2>1 DEF Final
  <2>3. Len(t) = 0
    BY <1>1, <1>2, <2>2
  <2> QED
    BY <1>1, <2>3, EmptySeq
<1> QED
  BY <1>1, <1>3, <1>4, <1>5, <1>6 DEF h, t

LEMMA FinalConcat ==
    ASSUME NEW q \in Seq(Seq(Byte)), NEW r \in Seq(Seq(Byte)), End \notin Range(q), Final(r)
    PROVE  q \o r \in Seq(Seq(Byte)) /\ Final(q \o r) /\ Range(q \o r) = Range(q) \cup Range(r)
<1> DEFINE c == q \o r
<1>1. /\ c \in Seq(Seq(Byte)) /\ Len(c) = Len(q) + Len(r) /\ Len(q) \in Nat /\ Len(r) \in Nat
      /\ \A i \in 1..Len(q) + Len(r) : c[i] = IF i <= Len(q) THEN q[i] ELSE r[i - Len(q)]
  BY ConcatProperties, LenProperties
<1>2. Range(c) = Range(q) \cup Range(r)
  BY RangeConcatenation
<1> HIDE DEF c
<1>3. Final(c)
  <2> SUFFICES ASSUME NEW i \in 1..Len(c), c[i] = End PROVE i = Len(c)
    BY DEF Final
  <2>1. ~(i <= Len(q))
    <3> SUFFICES ASSUME i <= Len(q) PROVE FALSE
      OBVIOUS
    <3>1. q[i] = End /\ i \in 1..Len(q)
      BY <1>1
    <3>2. DOMAIN q = 1..Len(q)
      BY LenProperties
    <3> QED
      BY <3>1, <3>2 DEF Range
  <2>2. i - Len(q) \in 1..Len(r) /\ r[i - Len(q)] = End
    BY <1>1, <2>1
  <2>3. i - Len(q) = Len(r)
    BY <2>2 DEF Final
  <2> QED
    BY <1>1, <2>3
<1> QED
  BY <1>1, <1>2, <1>3 DEF c

LEMMA FinalOne == Final(<<End>>) /\ Range(<<End>>) = {End}
BY DEF Final, Range

\* A queue that takes what another one gives.
LEMMA FinalAppend ==
    ASSUME NEW q \in Seq(Seq(Byte)), NEW x \in Seq(Byte), End \notin Range(q)
    PROVE  /\ Append(q, x) \in Seq(Seq(Byte)) /\ Final(Append(q, x))
           /\ Range(Append(q, x)) = Range(q) \cup {x}
<1>1. <<x>> \in Seq(Seq(Byte)) /\ Final(<<x>>) /\ Range(<<x>>) = {x}
  BY DEF Final, Range
<1>2. Append(q, x) = q \o <<x>>
  BY AppendIsConcat
<1> QED
  BY <1>1, <1>2, FinalConcat

-----------------------------------------------------------------------------
(* The sending side's steps.                                               *)

\* What is where, as bytes.
LEMMA Parts ==
    ASSUME TypeOK
    PROVE  /\ FlattenSeq(out) \in Seq(Byte) /\ FlattenSeq(file) \in Seq(Byte)
           /\ FlattenSeq(inbox) \in Seq(Byte) /\ FlattenSeq(net) \in Seq(Byte)
           /\ FlattenSeq(input) \in Seq(Byte)
           /\ got \o FlattenSeq(out) \in Seq(Byte)
           /\ (got \o FlattenSeq(out)) \o merged \in Seq(Byte)
           /\ ((got \o FlattenSeq(out)) \o merged) \o FlattenSeq(file) \in Seq(Byte)
           /\ Arrived = (((got \o FlattenSeq(out)) \o merged) \o FlattenSeq(file))
                            \o FlattenSeq(inbox)
           /\ Arrived \in Seq(Byte)
           /\ Arrived \o FlattenSeq(net) \in Seq(Byte)
           /\ (Arrived \o FlattenSeq(net)) \o buffer \in Seq(Byte)
<1>1. /\ FlattenSeq(out) \in Seq(Byte) /\ FlattenSeq(file) \in Seq(Byte)
      /\ FlattenSeq(inbox) \in Seq(Byte) /\ FlattenSeq(net) \in Seq(Byte)
      /\ FlattenSeq(input) \in Seq(Byte)
  BY FlattenType DEF TypeOK
<1>2. got \in Seq(Byte) /\ merged \in Seq(Byte) /\ buffer \in Seq(Byte)
  BY DEF TypeOK
<1>3. got \o FlattenSeq(out) \in Seq(Byte)
  BY <1>1, <1>2, ConcatProperties
<1>4. (got \o FlattenSeq(out)) \o merged \in Seq(Byte)
  BY <1>2, <1>3, ConcatProperties
<1>5. ((got \o FlattenSeq(out)) \o merged) \o FlattenSeq(file) \in Seq(Byte)
  BY <1>1, <1>4, ConcatProperties
<1>6. (((got \o FlattenSeq(out)) \o merged) \o FlattenSeq(file)) \o FlattenSeq(inbox)
         \in Seq(Byte)
  BY <1>1, <1>5, ConcatProperties
<1>7. Arrived = (((got \o FlattenSeq(out)) \o merged) \o FlattenSeq(file)) \o FlattenSeq(inbox)
  BY DEF Arrived
<1>8. Arrived \in Seq(Byte)
  BY <1>6, <1>7
<1>9. Arrived \o FlattenSeq(net) \in Seq(Byte)
  BY <1>1, <1>8, ConcatProperties
<1>10. (Arrived \o FlattenSeq(net)) \o buffer \in Seq(Byte)
  BY <1>2, <1>9, ConcatProperties
<1> QED
  BY <1>1, <1>3, <1>4, <1>5, <1>7, <1>8, <1>9, <1>10

\* Until the sending task has sent the end, nobody has heard of it.
LEMMA BeforeTheEnd ==
    ASSUME IndInv, writer # "ended"
    PROVE  /\ End \notin Range(net) /\ End \notin Range(inbox) /\ reader # "ended"
           /\ ~EndArrived /\ merger = "run" /\ ~(mode = "text" /\ ended)
<1>1. End \notin Range(net) /\ End \notin Range(inbox) /\ reader # "ended"
  BY DEF IndInv, EndInv
<1>2. merger = "run" /\ ~(mode = "text" /\ ended)
  BY <1>1 DEF IndInv, ModeInv, TypeOK
<1> QED
  BY <1>1, <1>2 DEF EndArrived

LEMMA PushStep ==
    ASSUME IndInv, Push
    PROVE  IndInv'
<1>1. PICK n \in Nat : /\ pushed + n <= Length
                       /\ input' = Append(input, Bytes(pushed, pushed + n))
                       /\ pushed' = pushed + n
  BY SizesAssumption DEF Push
<1>2. /\ open /\ open' \in BOOLEAN
      /\ UNCHANGED <<mode, buffer, writer, net, inbox, receiverVars, link>>
  BY DEF Push
<1> DEFINE b == Bytes(pushed, pushed + n)
<1>3. pushed \in Nat /\ pushed + n \in Nat
  BY SizesAssumption DEF IndInv, TypeOK
<1>4. b \in Seq(Byte) /\ Upto(pushed) \o b = Upto(pushed + n)
  BY <1>1, <1>3, BytesIs
<1>5. input' = Append(input, b)
  BY <1>1
<1> HIDE DEF b
<1>6. writer # "ended"
  BY <1>2 DEF IndInv, EndInv
<1>7. TypeOK'
  <2>1. input' \in Seq(Seq(Byte))
    BY <1>4, <1>5, AppendProperties DEF IndInv, TypeOK
  <2>2. pushed' \in 0..Length
    BY <1>1, <1>3
  <2> QED
    BY <1>2, <2>1, <2>2 DEF IndInv, TypeOK, receiverVars
<1>8. EndInv'
  BY <1>2, <1>6 DEF IndInv, EndInv, receiverVars
<1>9. ModeInv'
  BY <1>2 DEF IndInv, ModeInv, receiverVars
<1>10. NothingLost'
  <2> SUFFICES ASSUME link = "up", ~dropped, ~(mode = "text" /\ ended)
               PROVE  ((Arrived \o FlattenSeq(net)) \o buffer) \o FlattenSeq(input') = Upto(pushed')
    BY <1>2 DEF NothingLost, Arrived, receiverVars
  <2> DEFINE p == (Arrived \o FlattenSeq(net)) \o buffer
  <2>1. p \in Seq(Byte) /\ FlattenSeq(input) \in Seq(Byte)
    BY Parts DEF IndInv
  <2>2. p \o FlattenSeq(input) = Upto(pushed)
    BY DEF IndInv, NothingLost
  <2>3. FlattenSeq(input') = FlattenSeq(input) \o b
    BY <1>4, <1>5, FlattenAppend DEF IndInv, TypeOK
  <2> HIDE DEF p
  <2>4. p \o (FlattenSeq(input) \o b) = (p \o FlattenSeq(input)) \o b
    BY <1>4, <2>1, Regroup, Zenon
  <2> QED
    BY <1>1, <1>4, <2>2, <2>3, <2>4 DEF p
<1>11. AllInv'
  <2>1. ~EndArrived' /\ merger' = "run" /\ ~(mode' = "text" /\ ended')
    BY <1>2, <1>6, BeforeTheEnd DEF EndArrived, receiverVars
  <2> QED
    BY <2>1 DEF AllInv
<1> QED
  BY <1>7, <1>8, <1>9, <1>10, <1>11 DEF IndInv

LEMMA CloseInputStep ==
    ASSUME IndInv, CloseInput
    PROVE  IndInv'
<1>1. /\ open' = FALSE
      /\ UNCHANGED <<mode, pushed, input, buffer, writer, net, inbox, receiverVars, link>>
  BY DEF CloseInput
<1>2. TypeOK'
  BY <1>1 DEF IndInv, TypeOK, receiverVars
<1>3. EndInv'
  BY <1>1 DEF IndInv, EndInv, receiverVars
<1>4. ModeInv'
  BY <1>1 DEF IndInv, ModeInv, receiverVars
<1>5. NothingLost' /\ AllInv'
  BY <1>1 DEF IndInv, NothingLost, AllInv, EndArrived, Arrived, receiverVars
<1> QED
  BY <1>2, <1>3, <1>4, <1>5 DEF IndInv

\* process_in_chunks: the full chunks go out, in order, and the rest waits.
LEMMA ForwardStep ==
    ASSUME IndInv, Forward
    PROVE  IndInv'
<1> DEFINE h == Head(input)
           t == Tail(input)
           all == buffer \o h
           n == FullChunks(all)
           C == n * CHUNK_SIZE
           c == Chunks(all, n)
<1>1. /\ writer = "run" /\ input # <<>>
      /\ input' = t /\ Send(c, "run")
      /\ buffer' = SubSeq(all, C + 1, Len(all))
      /\ UNCHANGED <<mode, pushed, open, inbox, receiverVars, link>>
  BY DEF Forward, Chunks
<1>2. buffer \in Seq(Byte) /\ input \in Seq(Seq(Byte)) /\ net \in Seq(Seq(Byte))
  BY DEF IndInv, TypeOK
<1>3. h \in Seq(Byte) /\ t \in Seq(Seq(Byte)) /\ FlattenSeq(input) = h \o FlattenSeq(t)
  BY <1>1, <1>2, FlattenHead
<1> HIDE DEF h, t
<1>4. all \in Seq(Byte)
  BY <1>2, <1>3, ConcatProperties
<1> HIDE DEF all
<1>5. n \in Nat /\ C <= Len(all) /\ C \in Nat /\ Len(all) \in Nat
  <2>1. Len(all) \in Nat
    BY <1>4, LenProperties
  <2> QED
    BY <2>1, Multiples DEF FullChunks
<1> HIDE DEF n
<1>6. /\ c \in Seq(Seq(Byte)) /\ Len(c) = n /\ \A i \in 1..n : c[i] # <<>>
      /\ FlattenSeq(c) = SubSeq(all, 1, C)
  BY <1>4, <1>5, ChunksFlatten
<1> HIDE DEF c
<1>7. End \notin Range(c) /\ Final(c)
  <2>1. DOMAIN c = 1..n
    BY <1>6, LenProperties
  <2> QED
    BY <1>6, <2>1 DEF End, Range, Final
<1> HIDE DEF C
<1>8. /\ buffer' \in Seq(Byte) /\ SubSeq(all, 1, C) \in Seq(Byte)
      /\ SubSeq(all, 1, C) \o buffer' = all
  <2>1. \A i \in (C + 1)..Len(all) : all[i] \in Byte
    BY <1>4, <1>5
  <2>2. \A i \in 1..C : all[i] \in Byte
    BY <1>4, <1>5
  <2>3. SubSeq(all, C + 1, Len(all)) \in Seq(Byte) /\ SubSeq(all, 1, C) \in Seq(Byte)
    BY <1>5, <2>1, <2>2, SubSeqProperties
  <2>4. 1 \in 1..(Len(all) + 1) /\ C \in (1 - 1)..Len(all) /\ Len(all) \in C..Len(all)
    BY <1>5
  <2>5. SubSeq(all, 1, C) \o SubSeq(all, C + 1, Len(all)) = SubSeq(all, 1, Len(all))
    BY <1>4, <2>4, ConcatAdjacentSubSeq
  <2>6. SubSeq(all, 1, Len(all)) = all
    BY <1>4, SubSeqFull
  <2> QED
    BY <1>1, <2>3, <2>5, <2>6
<1>9. /\ End \notin Range(net) /\ End \notin Range(inbox) /\ reader # "ended"
      /\ ~EndArrived /\ merger = "run" /\ ~(mode = "text" /\ ended)
  BY <1>1, BeforeTheEnd
<1>10. \/ link = "up" /\ net' = net \o c /\ writer' = "run"
       \/ link = "down" /\ writer' \in {"run", "failed"} /\ net' = net
  BY <1>1 DEF Send
<1>11. net \o c \in Seq(Seq(Byte)) /\ Final(net \o c) /\ Range(net \o c) = Range(net) \cup Range(c)
  BY <1>2, <1>6, <1>7, <1>9, FinalConcat
<1>12. net' \in Seq(Seq(Byte)) /\ Final(net') /\ End \notin Range(net')
       /\ (link = "down" => net' = <<>>) /\ writer' \in {"run", "failed"}
  BY <1>2, <1>7, <1>9, <1>10, <1>11 DEF IndInv, EndInv
<1>13. TypeOK'
  BY <1>1, <1>3, <1>8, <1>12 DEF IndInv, TypeOK, receiverVars
<1>14. EndInv'
  BY <1>1, <1>9, <1>12 DEF IndInv, EndInv, receiverVars
<1>15. ModeInv'
  BY <1>1 DEF IndInv, ModeInv, receiverVars
<1>16. NothingLost'
  <2> SUFFICES ASSUME link = "up", ~dropped, ~(mode = "text" /\ ended)
               PROVE  ((Arrived \o FlattenSeq(net')) \o buffer') \o FlattenSeq(t) = Upto(pushed)
    BY <1>1 DEF NothingLost, Arrived, receiverVars
  <2> DEFINE p == Arrived \o FlattenSeq(net)
             s == SubSeq(all, 1, C)
  <2>1. Arrived \in Seq(Byte) /\ FlattenSeq(net) \in Seq(Byte) /\ p \in Seq(Byte)
        /\ FlattenSeq(t) \in Seq(Byte)
    BY <1>3, Parts, FlattenType DEF IndInv
  <2>2. (p \o buffer) \o (h \o FlattenSeq(t)) = Upto(pushed)
    BY <1>3 DEF IndInv, NothingLost
  <2>3. FlattenSeq(net') = FlattenSeq(net) \o s
    BY <1>2, <1>6, <1>10, FlattenConcat
  <2> HIDE DEF s
  <2>4. s \in Seq(Byte) /\ s \o buffer' = buffer \o h
    BY <1>8 DEF s, all
  <2>5. Arrived \o (FlattenSeq(net) \o s) = p \o s
    <3>1. Arrived \in Seq(Byte) /\ FlattenSeq(net) \in Seq(Byte) /\ s \in Seq(Byte)
      BY <2>1, <2>4
    <3> QED
      BY <3>1, Regroup, Zenon
  <2> HIDE DEF p
  <2>6. (p \o s) \o buffer' = p \o (s \o buffer')
    <3>1. p \in Seq(Byte) /\ s \in Seq(Byte) /\ buffer' \in Seq(Byte)
      BY <1>8, <2>1, <2>4
    <3> QED
      BY <3>1, Regroup, Zenon
  <2> DEFINE ft == FlattenSeq(t)
             pb == p \o buffer
  <2>7. p \in Seq(Byte) /\ buffer \in Seq(Byte) /\ h \in Seq(Byte) /\ ft \in Seq(Byte)
    BY <1>2, <1>3, <2>1
  <2>8. p \o (buffer \o h) = pb \o h /\ pb \in Seq(Byte)
    <3>1. p \o (buffer \o h) = pb \o h
      BY <2>7, Regroup
    <3>2. pb \in Seq(Byte)
      BY <2>7, ConcatProperties
    <3> QED
      BY <3>1, <3>2
  <2>9. pb \o (h \o ft) = Upto(pushed)
    BY <2>2
  <2> HIDE DEF ft, pb
  <2>10. (pb \o h) \o ft = pb \o (h \o ft)
    BY <2>7, <2>8, Regroup, Zenon
  <2>11. Arrived \o FlattenSeq(net') = p \o s
    BY <2>3, <2>5
  <2>12. (p \o s) \o buffer' = pb \o h
    BY <2>4, <2>6, <2>8
  <2> QED
    BY <2>9, <2>10, <2>11, <2>12 DEF ft
<1>17. AllInv'
  <2>1. ~EndArrived' /\ merger' = "run" /\ ~(mode' = "text" /\ ended')
    BY <1>1, <1>9 DEF EndArrived, receiverVars
  <2> QED
    BY <2>1 DEF AllInv
<1> QED
  BY <1>13, <1>14, <1>15, <1>16, <1>17 DEF IndInv

\* The last of the buffer goes out, and the end after it.
LEMMA ForwardLastStep ==
    ASSUME IndInv, ForwardLast
    PROVE  IndInv'
<1> DEFINE l == Leftover(buffer)
<1>1. /\ writer = "run" /\ input = <<>> /\ ~open
      /\ Send(l, "ended")
      /\ buffer' = <<>>
      /\ UNCHANGED <<mode, pushed, open, input, inbox, receiverVars, link>>
  BY DEF ForwardLast
<1>2. buffer \in Seq(Byte) /\ net \in Seq(Seq(Byte))
  BY DEF IndInv, TypeOK
<1>3. /\ End \in Seq(Byte) /\ <<End>> \in Seq(Seq(Byte))
      /\ Final(<<End>>) /\ Range(<<End>>) = {End} /\ FlattenSeq(<<End>>) = <<>>
  <2>1. End \in Seq(Byte) /\ End = <<>>
    BY EmptySeq DEF End
  <2>2. <<End>> \in Seq(Seq(Byte))
    BY <2>1
  <2>3. FlattenSeq(<<End>>) = End
    BY <2>1, FlattenOne
  <2> QED
    BY <2>1, <2>2, <2>3, FinalOne
<1>4. l \in Seq(Seq(Byte)) /\ Final(l) /\ FlattenSeq(l) = buffer
  <2>1. CASE buffer = <<>>
    <3>1. l = <<End>>
      BY <2>1 DEF Leftover
    <3> QED
      BY <1>3, <2>1, <3>1
  <2>2. CASE buffer # <<>>
    <3>1. l = <<buffer, End>> /\ <<buffer, End>> = <<buffer>> \o <<End>>
      BY <2>2 DEF Leftover
    <3>2. <<buffer>> \in Seq(Seq(Byte)) /\ End \notin Range(<<buffer>>)
      BY <1>2, <2>2 DEF Range, End
    <3>3. l \in Seq(Seq(Byte)) /\ Final(l)
      <4>1. /\ <<buffer>> \o <<End>> \in Seq(Seq(Byte))
            /\ Final(<<buffer>> \o <<End>>)
        BY <1>3, <3>2, FinalConcat
      <4> QED
        BY <3>1, <4>1
    <3>4. FlattenSeq(<<buffer>> \o <<End>>) = FlattenSeq(<<buffer>>) \o FlattenSeq(<<End>>)
      BY <1>3, <3>2, FlattenConcat
    <3>5. FlattenSeq(<<buffer>>) = buffer
      BY <1>2, FlattenOne
    <3>6. buffer \o <<>> = buffer
      BY <1>2, ConcatEmptySeq
    <3>7. FlattenSeq(l) = buffer
      BY <1>3, <3>1, <3>4, <3>5, <3>6
    <3> QED
      BY <3>3, <3>7
  <2> QED
    BY <2>1, <2>2
<1> HIDE DEF l
<1>5. /\ End \notin Range(net) /\ End \notin Range(inbox) /\ reader # "ended"
      /\ ~EndArrived /\ merger = "run" /\ ~(mode = "text" /\ ended)
  BY <1>1, BeforeTheEnd
<1>6. \/ link = "up" /\ net' = net \o l /\ writer' = "ended"
      \/ link = "down" /\ writer' \in {"ended", "failed"} /\ net' = net
  BY <1>1 DEF Send
<1>7. net \o l \in Seq(Seq(Byte)) /\ Final(net \o l)
  BY <1>2, <1>4, <1>5, FinalConcat
<1>8. /\ net' \in Seq(Seq(Byte)) /\ Final(net')
      /\ (End \in Range(net') => writer' = "ended")
      /\ (link = "down" => net' = <<>>) /\ writer' \in {"ended", "failed"}
  BY <1>2, <1>5, <1>6, <1>7 DEF IndInv, EndInv
<1>9. TypeOK'
  BY <1>1, <1>8, EmptySeq DEF IndInv, TypeOK, receiverVars
<1>10. EndInv'
  BY <1>1, <1>5, <1>8 DEF IndInv, EndInv, receiverVars
<1>11. ModeInv'
  BY <1>1 DEF IndInv, ModeInv, receiverVars
<1>12. NothingLost'
  <2> SUFFICES ASSUME link = "up", ~dropped, ~(mode = "text" /\ ended)
               PROVE  ((Arrived \o FlattenSeq(net')) \o <<>>) \o FlattenSeq(input) = Upto(pushed)
    BY <1>1 DEF NothingLost, Arrived, receiverVars
  <2> DEFINE fn == FlattenSeq(net)
  <2>1. Arrived \in Seq(Byte) /\ fn \in Seq(Byte)
    BY Parts DEF IndInv
  <2>2. FlattenSeq(net') = fn \o buffer
    BY <1>2, <1>4, <1>6, FlattenConcat
  <2>3. ((Arrived \o fn) \o buffer) \o FlattenSeq(input) = Upto(pushed)
    BY DEF IndInv, NothingLost
  <2> HIDE DEF fn
  <2>4. Arrived \o (fn \o buffer) = (Arrived \o fn) \o buffer
    BY <1>2, <2>1, Regroup, Zenon
  <2>5. fn \o buffer \in Seq(Byte)
    BY <1>2, <2>1, ConcatProperties
  <2>6. Arrived \o (fn \o buffer) \in Seq(Byte)
    BY <2>1, <2>5, ConcatProperties
  <2>7. (Arrived \o (fn \o buffer)) \o <<>> = Arrived \o (fn \o buffer)
    BY <2>6, ConcatEmptySeq
  <2> QED
    BY <2>2, <2>3, <2>4, <2>7
<1>13. AllInv'
  <2>1. ~EndArrived' /\ merger' = "run" /\ ~(mode' = "text" /\ ended')
    BY <1>1, <1>5 DEF EndArrived, receiverVars
  <2> QED
    BY <2>1 DEF AllInv
<1> QED
  BY <1>9, <1>10, <1>11, <1>12, <1>13 DEF IndInv

-----------------------------------------------------------------------------
(* The channel's steps.                                                    *)

\* The end leaves the channel last, and what it leaves behind is empty: the receiving
\* side has all.
LEMMA DeliverStep ==
    ASSUME IndInv, Deliver
    PROVE  IndInv'
<1> DEFINE h == Head(net)
<1>1. /\ link = "up" /\ net # <<>>
      /\ inbox' = Append(inbox, h) /\ net' = Tail(net)
      /\ UNCHANGED <<mode, senderVars, receiverVars, link>>
  BY DEF Deliver
<1>2. net \in Seq(Seq(Byte)) /\ inbox \in Seq(Seq(Byte)) /\ Final(net)
  BY DEF IndInv, TypeOK, EndInv
<1>3. /\ h \in Seq(Byte) /\ net' \in Seq(Seq(Byte)) /\ Final(net')
      /\ h \in Range(net) /\ Range(net') \subseteq Range(net)
      /\ h = End => net' = <<>>
  BY <1>1, <1>2, FinalTail
<1> HIDE DEF h
<1>4. End \notin Range(inbox) /\ reader # "ended"
  BY <1>1 DEF IndInv, EndInv
<1>5. inbox' \in Seq(Seq(Byte)) /\ Final(inbox') /\ Range(inbox') = Range(inbox) \cup {h}
  BY <1>1, <1>2, <1>3, <1>4, FinalAppend
<1>6. TypeOK'
  BY <1>1, <1>3, <1>5 DEF IndInv, TypeOK, senderVars, receiverVars
<1>7. EndInv'
  BY <1>1, <1>3, <1>4, <1>5 DEF IndInv, EndInv, senderVars, receiverVars
<1>8. ModeInv'
  BY <1>1 DEF IndInv, ModeInv, receiverVars
<1> DEFINE p == ((got \o FlattenSeq(out)) \o merged) \o FlattenSeq(file)
<1>9. p \in Seq(Byte) /\ Arrived = p \o FlattenSeq(inbox)
  BY Parts DEF IndInv
<1>10. Arrived' = p \o FlattenSeq(inbox')
  BY <1>1 DEF Arrived, receiverVars
<1> HIDE DEF p
<1>11. Arrived' \o FlattenSeq(net') = Arrived \o FlattenSeq(net)
  BY <1>1, <1>2, <1>9, <1>10, HandOver DEF h
<1>12. NothingLost'
  BY <1>1, <1>11 DEF IndInv, NothingLost, senderVars, receiverVars
<1>13. AllInv'
  <2>1. merger' = "run" /\ ~(mode' = "text" /\ ended')
    BY <1>1, <1>4 DEF IndInv, ModeInv, TypeOK, receiverVars
  <2>2. ASSUME EndArrived', ~dropped' PROVE Arrived' = Upto(pushed')
    <3>1. h = End /\ net' = <<>> /\ writer = "ended" /\ buffer = <<>> /\ input = <<>>
      BY <1>1, <1>3, <1>4, <1>5, <2>2 DEF EndArrived, IndInv, EndInv, receiverVars
    <3>2. ((Arrived' \o FlattenSeq(net')) \o buffer) \o FlattenSeq(input) = Upto(pushed)
      BY <1>1, <1>12, <2>1, <2>2 DEF NothingLost, senderVars, receiverVars
    <3>3. ((Arrived' \o <<>>) \o <<>>) \o <<>> = Upto(pushed)
      BY <3>1, <3>2, FlattenEmpty
    <3>4. Arrived' \in Seq(Byte)
      <4>1. FlattenSeq(inbox') \in Seq(Byte)
        BY <1>5, FlattenType
      <4> QED
        BY <1>9, <1>10, <4>1, ConcatProperties
    <3>5. Arrived' \o <<>> = Arrived'
      BY <3>4, ConcatEmptySeq
    <3> QED
      BY <1>1, <3>3, <3>5 DEF senderVars
  <2> QED
    BY <2>1, <2>2 DEF AllInv
<1> QED
  BY <1>6, <1>7, <1>8, <1>12, <1>13 DEF IndInv

LEMMA LinkLostStep ==
    ASSUME IndInv, LinkLost
    PROVE  IndInv'
<1>1. /\ link' = "down" /\ net' = <<>>
      /\ UNCHANGED <<mode, senderVars, inbox, receiverVars>>
  BY DEF LinkLost
<1>2. Final(<<>>) /\ End \notin Range(<<>>) /\ <<>> \in Seq(Seq(Byte))
  BY EmptySeq DEF Final, Range
<1>3. TypeOK'
  BY <1>1, <1>2 DEF IndInv, TypeOK, senderVars, receiverVars
<1>4. EndInv'
  BY <1>1, <1>2 DEF IndInv, EndInv, senderVars, receiverVars
<1>5. ModeInv'
  BY <1>1 DEF IndInv, ModeInv, receiverVars
<1>6. NothingLost'
  BY <1>1 DEF NothingLost
<1>7. AllInv'
  BY <1>1 DEF IndInv, AllInv, EndArrived, Arrived, senderVars, receiverVars
<1> QED
  BY <1>3, <1>4, <1>5, <1>6, <1>7 DEF IndInv

-----------------------------------------------------------------------------
(* The receiving side's steps.                                             *)

LEMMA ReadChunkStep ==
    ASSUME IndInv, ReadChunk
    PROVE  IndInv'
<1> DEFINE h == Head(inbox)
           t == Tail(inbox)
<1>1. /\ mode = "file" /\ reader = "run" /\ inbox # <<>> /\ h # End
      /\ inbox' = t
      /\ \/ dropped /\ reader' = "failed" /\ file' = file
         \/ ~dropped /\ file' = Append(file, h) /\ reader' = reader
      /\ UNCHANGED <<mode, senderVars, net, dropped, merged, merger, out, got, ended, link>>
  BY DEF ReadChunk
<1>2. inbox \in Seq(Seq(Byte)) /\ file \in Seq(Seq(Byte)) /\ Final(inbox)
  BY DEF IndInv, TypeOK, EndInv
<1>3. /\ h \in Seq(Byte) /\ t \in Seq(Seq(Byte)) /\ Final(t)
      /\ Range(t) \subseteq Range(inbox)
  BY <1>1, <1>2, FinalTail
<1> HIDE DEF h, t
<1>4. merger = "run"
  BY <1>1 DEF IndInv, ModeInv, TypeOK
<1>5. TypeOK'
  <2>1. file' \in Seq(Seq(Byte))
    <3>1. Append(file, h) \in Seq(Seq(Byte))
      BY <1>2, <1>3, AppendProperties
    <3> QED
      BY <1>1, <1>2, <3>1
  <2>2. reader' \in {"run", "failed"}
    BY <1>1
  <2> QED
    BY <1>1, <1>3, <2>1, <2>2 DEF IndInv, TypeOK, senderVars
<1>6. EndInv'
  BY <1>1, <1>3 DEF IndInv, EndInv, senderVars
<1>7. ModeInv'
  BY <1>1, <1>4 DEF IndInv, ModeInv
<1>8. CASE dropped
  BY <1>1, <1>4, <1>5, <1>6, <1>7, <1>8 DEF IndInv, NothingLost, AllInv
<1>9. CASE ~dropped
  <2> DEFINE p == (got \o FlattenSeq(out)) \o merged
  <2>1. p \in Seq(Byte) /\ Arrived = (p \o FlattenSeq(file)) \o FlattenSeq(inbox)
    BY Parts DEF IndInv
  <2>2. Arrived' = (p \o FlattenSeq(file')) \o FlattenSeq(inbox')
    BY <1>1 DEF Arrived
  <2> HIDE DEF p
  <2>3. file' = Append(file, Head(inbox)) /\ inbox' = Tail(inbox) /\ reader' = reader
    BY <1>1, <1>9 DEF h, t
  <2>4. Arrived' = Arrived
    <3>1. (p \o FlattenSeq(Append(file, Head(inbox)))) \o FlattenSeq(Tail(inbox))
             = (p \o FlattenSeq(file)) \o FlattenSeq(inbox)
      BY <1>1, <1>2, <2>1, HandOver
    <3> QED
      BY <2>1, <2>2, <2>3, <3>1
  <2>5. NothingLost'
    BY <1>1, <2>4 DEF IndInv, NothingLost, senderVars
  <2>6. AllInv'
    <3>1. EndArrived' => EndArrived
      BY <1>1, <1>3, <2>3 DEF EndArrived
    <3> QED
      BY <1>1, <1>4, <2>4, <3>1 DEF IndInv, AllInv, senderVars
  <2> QED
    BY <1>5, <1>6, <1>7, <2>5, <2>6 DEF IndInv
<1> QED
  BY <1>8, <1>9

\* The end is the last thing in the inbox: it goes and takes nothing with it.
LEMMA EndIsLast ==
    ASSUME TypeOK, EndInv, inbox # <<>>, Head(inbox) = End
    PROVE  /\ Tail(inbox) = <<>> /\ FlattenSeq(inbox) = <<>> /\ End \in Range(inbox)
           /\ writer = "ended" /\ net = <<>> /\ EndArrived
<1>1. inbox \in Seq(Seq(Byte)) /\ Final(inbox)
  BY DEF TypeOK, EndInv
<1>2. Tail(inbox) = <<>> /\ End \in Range(inbox)
  BY <1>1, FinalTail
<1>3. FlattenSeq(inbox) = Head(inbox) \o FlattenSeq(Tail(inbox))
  BY <1>1, FlattenHead
<1>4. FlattenSeq(inbox) = <<>> \o <<>>
  BY <1>2, <1>3, FlattenEmpty DEF End
<1>5. <<>> \in Seq(Byte) /\ <<>> \o <<>> = <<>>
  BY EmptySeq, ConcatEmptySeq
<1> QED
  BY <1>2, <1>4, <1>5 DEF EndInv, EndArrived

LEMMA ReadEndStep ==
    ASSUME IndInv, ReadEnd
    PROVE  IndInv'
<1>1. /\ mode = "file" /\ reader = "run" /\ inbox # <<>> /\ Head(inbox) = End
      /\ inbox' = Tail(inbox) /\ reader' = "ended"
      /\ UNCHANGED <<mode, senderVars, net, file, dropped, merged, merger, out, got, ended,
                     link>>
  BY DEF ReadEnd, FileStateNone
<1>2. /\ inbox' = <<>> /\ FlattenSeq(inbox) = <<>> /\ writer = "ended" /\ net = <<>>
      /\ EndArrived
  BY <1>1, EndIsLast DEF IndInv
<1>3. Final(<<>>) /\ End \notin Range(<<>>) /\ <<>> \in Seq(Seq(Byte))
  BY EmptySeq DEF Final, Range
<1>4. merger = "run"
  BY <1>1 DEF IndInv, ModeInv, TypeOK
<1>5. TypeOK'
  BY <1>1, <1>2, <1>3 DEF IndInv, TypeOK, senderVars
<1>6. EndInv'
  BY <1>1, <1>2, <1>3 DEF IndInv, EndInv, senderVars
<1>7. ModeInv'
  BY <1>1, <1>4 DEF IndInv, ModeInv
<1>8. Arrived' = Arrived
  BY <1>1, <1>2, FlattenEmpty DEF Arrived
<1>9. NothingLost'
  BY <1>1, <1>8 DEF IndInv, NothingLost, senderVars
<1>10. AllInv'
  BY <1>1, <1>2, <1>4, <1>8 DEF IndInv, AllInv, senderVars
<1> QED
  BY <1>5, <1>6, <1>7, <1>9, <1>10 DEF IndInv

\* receive_string_from_chunks has the text in its buffer when the end comes.
LEMMA ReadTextStep ==
    ASSUME IndInv, ReadText
    PROVE  IndInv'
<1> DEFINE h == Head(inbox)
           t == Tail(inbox)
<1>1. /\ mode = "text" /\ reader = "run" /\ inbox # <<>> /\ inbox' = t
      /\ UNCHANGED <<mode, senderVars, net, file, dropped, merger, out, link>>
  BY DEF ReadText
<1>2. inbox \in Seq(Seq(Byte)) /\ Final(inbox) /\ merged \in Seq(Byte)
  BY DEF IndInv, TypeOK, EndInv
<1>3. /\ h \in Seq(Byte) /\ t \in Seq(Seq(Byte)) /\ Final(t)
      /\ Range(t) \subseteq Range(inbox)
  BY <1>1, <1>2, FinalTail
<1>4. /\ file = <<>> /\ out = <<>> /\ ~dropped /\ merger = "run" /\ ~ended /\ got = <<>>
  BY <1>1 DEF IndInv, ModeInv
<1>5. FlattenSeq(file) = <<>> /\ FlattenSeq(out) = <<>> /\ FlattenSeq(<<>>) = <<>>
  BY <1>4, FlattenEmpty
\* What there is, is in the buffer and the inbox.
<1>6. \A m \in Seq(Byte) : (((<<>> \o <<>>) \o m) \o <<>>) = m
  <2> TAKE m \in Seq(Byte)
  <2>1. <<>> \in Seq(Byte) /\ <<>> \o <<>> = <<>>
    BY EmptySeq, ConcatEmptySeq
  <2>2. <<>> \o m = m /\ m \o <<>> = m
    BY ConcatEmptySeq
  <2> QED
    BY <2>1, <2>2
<1>7. Arrived = merged \o FlattenSeq(inbox)
  <2>1. Arrived = (((got \o FlattenSeq(out)) \o merged) \o FlattenSeq(file)) \o FlattenSeq(inbox)
    BY DEF Arrived
  <2> QED
    BY <1>2, <1>4, <1>5, <1>6, <2>1
<1>8. CASE /\ h # End /\ merged' = merged \o h
           /\ UNCHANGED <<reader, got, ended>>
  <2>1. merged' \in Seq(Byte)
    BY <1>2, <1>3, <1>8, ConcatProperties
  <2>2. TypeOK'
    BY <1>1, <1>3, <1>8, <2>1 DEF IndInv, TypeOK, senderVars
  <2>3. EndInv'
    BY <1>1, <1>3, <1>8 DEF IndInv, EndInv, senderVars
  <2>4. ModeInv'
    BY <1>1, <1>4, <1>8 DEF IndInv, ModeInv
  <2>5. Arrived' = merged' \o FlattenSeq(inbox')
    <3>1. Arrived' = (((got \o FlattenSeq(out)) \o merged') \o FlattenSeq(file))
                        \o FlattenSeq(inbox')
      BY <1>1, <1>8 DEF Arrived
    <3> QED
      BY <1>4, <1>5, <1>6, <2>1, <3>1
  <2>6. (merged \o h) \o FlattenSeq(t) = merged \o FlattenSeq(inbox)
    <3> DEFINE ft == FlattenSeq(t)
    <3>1. FlattenSeq(inbox) = h \o ft
      BY <1>1, <1>2, FlattenHead
    <3>2. ft \in Seq(Byte)
      BY <1>3, FlattenType
    <3> HIDE DEF h, ft
    <3>3. merged \o (h \o ft) = (merged \o h) \o ft
      BY <1>2, <1>3, <3>2, Regroup
    <3> QED
      BY <3>1, <3>3 DEF ft
  <2>7. Arrived' = Arrived
    BY <1>1, <1>7, <1>8, <2>5, <2>6
  <2>8. NothingLost'
    BY <1>1, <1>8, <2>7 DEF IndInv, NothingLost, senderVars
  <2>9. AllInv'
    <3>1. EndArrived' => EndArrived
      BY <1>1, <1>3, <1>8 DEF EndArrived
    <3> QED
      BY <1>1, <1>4, <1>8, <2>7, <3>1 DEF IndInv, AllInv, senderVars
  <2> QED
    BY <2>2, <2>3, <2>4, <2>8, <2>9 DEF IndInv
<1>9. CASE /\ h = End /\ got' = merged /\ ended' = TRUE /\ reader' = "ended"
           /\ UNCHANGED merged
  <2>1. /\ t = <<>> /\ FlattenSeq(inbox) = <<>> /\ writer = "ended" /\ net = <<>>
        /\ EndArrived
    BY <1>1, <1>9, EndIsLast DEF IndInv
  <2>2. merged = Upto(pushed)
    <3>1. Arrived = Upto(pushed)
      BY <1>4, <2>1 DEF IndInv, AllInv
    <3>2. merged \o <<>> = merged
      BY <1>2, ConcatEmptySeq
    <3> QED
      BY <1>7, <2>1, <3>1, <3>2
  <2>3. TypeOK'
    BY <1>1, <1>2, <1>3, <1>9 DEF IndInv, TypeOK, senderVars
  <2>4. EndInv'
    BY <1>1, <1>3, <1>9, <2>1 DEF IndInv, EndInv, senderVars
  <2>5. ModeInv'
    BY <1>1, <1>4, <1>9 DEF IndInv, ModeInv
  <2>6. NothingLost'
    BY <1>1, <1>9 DEF NothingLost
  <2>7. AllInv'
    BY <1>1, <1>4, <1>9, <2>2 DEF AllInv, senderVars
  <2> QED
    BY <2>3, <2>4, <2>5, <2>6, <2>7 DEF IndInv
<1> QED
  BY <1>8, <1>9 DEF ReadText

\* buffer_receiver takes a chunk, ...
LEMMA MergeStep ==
    ASSUME IndInv, Merge
    PROVE  IndInv'
<1> DEFINE h == Head(file)
           t == Tail(file)
<1>1. /\ mode = "file" /\ merger = "run" /\ file # <<>>
      /\ merged' = merged \o h /\ file' = t
      /\ UNCHANGED <<mode, senderVars, net, inbox, reader, dropped, merger, out, got, ended,
                     link>>
  BY DEF Merge
<1>2. file \in Seq(Seq(Byte)) /\ merged \in Seq(Byte)
  BY DEF IndInv, TypeOK
<1>3. h \in Seq(Byte) /\ t \in Seq(Seq(Byte))
  BY <1>1, <1>2, FlattenHead
<1>4. Arrived' = Arrived
  <2> DEFINE p == got \o FlattenSeq(out)
             fi == FlattenSeq(inbox)
  <2>1. p \in Seq(Byte) /\ Arrived = ((p \o merged) \o FlattenSeq(file)) \o fi
    BY Parts DEF IndInv
  <2>2. Arrived' = ((p \o (merged \o h)) \o FlattenSeq(t)) \o fi
    BY <1>1 DEF Arrived
  <2> HIDE DEF p, fi
  <2>3. (p \o (merged \o h)) \o FlattenSeq(t) = (p \o merged) \o FlattenSeq(file)
    BY <1>1, <1>2, <2>1, TakeOver
  <2> QED
    BY <2>1, <2>2, <2>3
<1> HIDE DEF h, t
<1>5. merged' \in Seq(Byte)
  BY <1>1, <1>2, <1>3, ConcatProperties
<1>6. TypeOK'
  BY <1>1, <1>3, <1>5 DEF IndInv, TypeOK, senderVars
<1>7. EndInv'
  BY <1>1 DEF IndInv, EndInv, senderVars
<1>8. ModeInv'
  BY <1>1 DEF IndInv, ModeInv
<1>9. NothingLost'
  BY <1>1, <1>4 DEF IndInv, NothingLost, senderVars
<1>10. AllInv'
  BY <1>1, <1>4 DEF IndInv, AllInv, EndArrived, senderVars
<1> QED
  BY <1>6, <1>7, <1>8, <1>9, <1>10 DEF IndInv

\* ... and passes on what it has, at the end with all that came.
LEMMA PassOnStep ==
    ASSUME IndInv, PassOn
    PROVE  IndInv'
<1>1. /\ mode = "file" /\ merger = "run" /\ ~dropped
      /\ merger' = "run" \/ (file = <<>> /\ reader # "run" /\ merger' = "ended")
      /\ out' = IF merged = <<>> THEN out ELSE out \o <<merged>>
      /\ merged' = <<>>
      /\ UNCHANGED <<mode, senderVars, net, inbox, reader, file, dropped, got, ended, link>>
  BY DEF PassOn, Copied
<1>2. out \in Seq(Seq(Byte)) /\ merged \in Seq(Byte) /\ got \in Seq(Byte)
  BY DEF IndInv, TypeOK
<1>3. out' \in Seq(Seq(Byte)) /\ FlattenSeq(out') = FlattenSeq(out) \o merged
  <2>1. CASE merged = <<>>
    <3>1. FlattenSeq(out) \in Seq(Byte)
      BY Parts DEF IndInv
    <3>2. FlattenSeq(out) \o <<>> = FlattenSeq(out)
      BY <3>1, ConcatEmptySeq
    <3>3. out' = out
      BY <1>1, <2>1
    <3> QED
      BY <1>2, <2>1, <3>2, <3>3
  <2>2. CASE merged # <<>>
    <3>1. out' = Append(out, merged)
      BY <1>1, <1>2, <2>2, AppendIsConcat
    <3>2. Append(out, merged) \in Seq(Seq(Byte))
      BY <1>2, AppendProperties
    <3>3. FlattenSeq(Append(out, merged)) = FlattenSeq(out) \o merged
      BY <1>2, FlattenAppend
    <3> QED
      BY <3>1, <3>2, <3>3
  <2> QED
    BY <2>1, <2>2
<1> DEFINE fo == FlattenSeq(out)
           ff == FlattenSeq(file)
           fi == FlattenSeq(inbox)
           all == (got \o fo) \o merged
<1>4. fo \in Seq(Byte) /\ all \in Seq(Byte) /\ Arrived = (all \o ff) \o fi
  BY Parts DEF IndInv
<1>5. Arrived' = (((got \o FlattenSeq(out')) \o <<>>) \o ff) \o fi
  BY <1>1 DEF Arrived
<1>6. got \o FlattenSeq(out') = all
  <2> HIDE DEF fo
  <2>1. got \o (fo \o merged) = (got \o fo) \o merged
    BY <1>2, <1>4, Regroup
  <2> QED
    BY <1>3, <2>1 DEF fo
<1> HIDE DEF all, ff, fi
<1>7. all \o <<>> = all
  BY <1>4, ConcatEmptySeq
<1>8. Arrived' = Arrived
  BY <1>4, <1>5, <1>6, <1>7
<1>9. TypeOK'
  BY <1>1, <1>3, EmptySeq DEF IndInv, TypeOK, senderVars
<1>10. EndInv'
  BY <1>1 DEF IndInv, EndInv, senderVars
\* The reading task has not failed: that takes an app that has dropped the stream.
<1>11. merger' = "ended" => reader = "ended" /\ file = <<>> /\ inbox = <<>>
  BY <1>1 DEF IndInv, ModeInv, EndInv, TypeOK
<1>12. ~ended
  BY <1>1 DEF IndInv, ModeInv
<1>13. ModeInv'
  BY <1>1, <1>11, <1>12 DEF IndInv, ModeInv
<1>14. NothingLost'
  BY <1>1, <1>8 DEF IndInv, NothingLost, senderVars
<1>15. AllInv'
  <2>1. EndArrived' /\ ~dropped' /\ ~(mode' = "text" /\ ended') => Arrived' = Upto(pushed')
    BY <1>1, <1>8 DEF IndInv, AllInv, EndArrived, senderVars
  <2>2. ASSUME merger' = "ended" PROVE got' \o FlattenSeq(out') = Upto(pushed')
    <3>1. Arrived = Upto(pushed)
      BY <1>1, <1>11, <2>2 DEF IndInv, AllInv, EndArrived
    <3>2. ff = <<>> /\ fi = <<>>
      BY <1>11, <2>2, FlattenEmpty DEF ff, fi
    <3>3. Arrived = all
      BY <1>4, <1>7, <3>2
    <3> QED
      BY <1>1, <1>6, <3>1, <3>3 DEF senderVars
  <2> QED
    BY <1>1, <2>1, <2>2 DEF AllInv
<1> QED
  BY <1>9, <1>10, <1>13, <1>14, <1>15 DEF IndInv

LEMMA ReceiveStep ==
    ASSUME IndInv, Receive
    PROVE  IndInv'
<1>1. UNCHANGED <<mode, senderVars, net, inbox, reader, file, dropped, merged, merger, link>>
  BY DEF Receive
<1>2. CASE /\ out # <<>> /\ got' = got \o Head(out) /\ out' = Tail(out) /\ UNCHANGED ended
  <2>1. mode = "file" /\ ~ended
    BY <1>2 DEF IndInv, ModeInv, TypeOK
  <2>2. out \in Seq(Seq(Byte)) /\ got \in Seq(Byte)
    BY DEF IndInv, TypeOK
  <2>3. Head(out) \in Seq(Byte) /\ out' \in Seq(Seq(Byte))
        /\ FlattenSeq(out) = Head(out) \o FlattenSeq(out')
    BY <1>2, <2>2, FlattenHead
  <2>4. got' \in Seq(Byte)
    BY <1>2, <2>2, <2>3, ConcatProperties
  <2>5. got' \o FlattenSeq(out') = got \o FlattenSeq(out)
    <3> DEFINE h == Head(out)
               ft == FlattenSeq(out')
    <3>1. h \in Seq(Byte) /\ ft \in Seq(Byte)
      BY <2>3, FlattenType
    <3>2. FlattenSeq(out) = h \o ft /\ got' = got \o h
      BY <1>2, <2>3
    <3> HIDE DEF h, ft
    <3>3. got \o (h \o ft) = (got \o h) \o ft
      BY <2>2, <3>1, Regroup
    <3> QED
      BY <3>2, <3>3 DEF ft
  <2>6. Arrived' = Arrived
    BY <1>1, <2>5 DEF Arrived
  <2>7. TypeOK'
    BY <1>1, <1>2, <2>3, <2>4 DEF IndInv, TypeOK, senderVars
  <2>8. EndInv'
    BY <1>1 DEF IndInv, EndInv, senderVars
  <2>9. ModeInv'
    BY <1>1, <1>2, <2>1 DEF IndInv, ModeInv
  <2>10. NothingLost'
    BY <1>1, <1>2, <2>6 DEF IndInv, NothingLost, senderVars
  <2>11. AllInv'
    BY <1>1, <1>2, <2>1, <2>5, <2>6 DEF IndInv, AllInv, EndArrived, senderVars
  <2> QED
    BY <2>7, <2>8, <2>9, <2>10, <2>11 DEF IndInv
<1>3. CASE /\ mode = "file" /\ out = <<>> /\ merger = "ended" /\ ended' = TRUE
           /\ UNCHANGED <<got, out>>
  <2>1. TypeOK'
    BY <1>1, <1>3 DEF IndInv, TypeOK, senderVars
  <2>2. EndInv'
    BY <1>1 DEF IndInv, EndInv, senderVars
  <2>3. ModeInv'
    BY <1>1, <1>3 DEF IndInv, ModeInv
  <2>4. NothingLost'
    BY <1>1, <1>3 DEF IndInv, NothingLost, Arrived, senderVars
  <2>5. AllInv'
    BY <1>1, <1>3 DEF IndInv, AllInv, EndArrived, Arrived, senderVars
  <2> QED
    BY <2>1, <2>2, <2>3, <2>4, <2>5 DEF IndInv
<1> QED
  BY <1>2, <1>3 DEF Receive

LEMMA DropStep ==
    ASSUME IndInv, Drop
    PROVE  IndInv'
<1>1. /\ mode = "file" /\ dropped' = TRUE /\ file' = <<>>
      /\ UNCHANGED <<mode, senderVars, net, inbox, reader, merged, merger, out, got, ended,
                     link>>
  BY DEF Drop
<1>2. TypeOK'
  BY <1>1, EmptySeq DEF IndInv, TypeOK, senderVars
<1>3. EndInv'
  BY <1>1 DEF IndInv, EndInv, senderVars
<1>4. ModeInv'
  BY <1>1 DEF IndInv, ModeInv
<1>5. NothingLost'
  BY <1>1 DEF NothingLost
<1>6. AllInv'
  BY <1>1 DEF IndInv, AllInv, senderVars
<1> QED
  BY <1>2, <1>3, <1>4, <1>5, <1>6 DEF IndInv

-----------------------------------------------------------------------------
(* The theorems.                                                           *)

LEMMA InvInit == Init => IndInv
<1> SUFFICES ASSUME Init PROVE IndInv
  OBVIOUS
<1>1. /\ pushed = 0 /\ open = TRUE /\ input = <<>> /\ buffer = <<>> /\ writer = "run"
      /\ net = <<>> /\ inbox = <<>> /\ link = "up" /\ mode \in {"file", "text"}
      /\ reader = "run" /\ file = <<>> /\ dropped = FALSE
      /\ merged = <<>> /\ merger = "run" /\ out = <<>> /\ got = <<>> /\ ended = FALSE
  BY DEF Init
<1>2. /\ <<>> \in Seq(Byte) /\ <<>> \in Seq(Seq(Byte)) /\ <<>> \o <<>> = <<>>
      /\ Final(<<>>) /\ End \notin Range(<<>>) /\ FlattenSeq(<<>>) = <<>>
  BY EmptySeq, ConcatEmptySeq, FlattenEmpty DEF Final, Range
<1>3. Upto(0) = <<>>
  BY EmptySeq DEF Upto, Bytes
<1>4. TypeOK
  <2>1. 0 \in 0..Length
    BY SizesAssumption
  <2>2. <<>> \in Seq(Byte) /\ <<>> \in Seq(Seq(Byte))
    BY <1>2
  <2> QED
    BY <1>1, <2>1, <2>2 DEF TypeOK
<1>5. EndInv /\ ModeInv
  BY <1>1, <1>2 DEF EndInv, ModeInv
<1>6. NothingLost
  <2>1. Arrived = <<>>
    BY <1>1, <1>2 DEF Arrived
  <2> QED
    BY <1>1, <1>2, <1>3, <2>1 DEF NothingLost
<1>7. AllInv
  BY <1>1, <1>2 DEF AllInv, EndArrived
<1> QED
  BY <1>4, <1>5, <1>6, <1>7 DEF IndInv

LEMMA InvStep == IndInv /\ [Next]_vars => IndInv'
<1> SUFFICES ASSUME IndInv, [Next]_vars PROVE IndInv'
  OBVIOUS
<1>1. CASE Tasks
  BY <1>1, ForwardStep, ForwardLastStep, DeliverStep, ReadChunkStep, ReadEndStep,
     ReadTextStep, MergeStep, PassOnStep, ReceiveStep DEF Tasks
<1>2. CASE Push \/ CloseInput \/ LinkLost \/ Drop
  BY <1>2, PushStep, CloseInputStep, LinkLostStep, DropStep
<1>3. CASE UNCHANGED vars
  <2>1. UNCHANGED <<mode, senderVars, net, inbox, receiverVars, link>>
    BY <1>3 DEF vars
  <2>2. TypeOK' /\ EndInv' /\ ModeInv'
    BY <2>1 DEF IndInv, TypeOK, EndInv, ModeInv, senderVars, receiverVars
  <2>3. NothingLost' /\ AllInv'
    BY <2>1 DEF IndInv, NothingLost, AllInv, EndArrived, Arrived, senderVars, receiverVars
  <2> QED
    BY <2>2, <2>3 DEF IndInv
<1> QED
  BY <1>1, <1>2, <1>3 DEF Next

\* The inductive invariant: what each queue and buffer holds, where the end is, and
\* what has arrived once it has.
THEOREM Inductive == Spec => []IndInv
<1>1. Init => IndInv
  BY InvInit
<1>2. IndInv /\ [Next]_vars => IndInv'
  BY InvStep
<1> QED
  BY <1>1, <1>2, PTL DEF Spec

\* process_in_chunks, the data channel, the receiving task, buffer_receiver and the
\* app's sink hand on every byte in its place, for every length of a file or a text,
\* every way the app cuts it, every size of the chunks and the buffer, and every
\* capacity of the queues.
THEOREM BytesKept == Spec => []NothingLost
<1>1. IndInv => NothingLost
  BY DEF IndInv
<1> QED
  BY <1>1, Inductive, PTL

\* The string that ends a file or a text reaches the app behind its last byte: a
\* connection that is lost on the way is never taken for it.
THEOREM EndIsTrue == Spec => []EndedMeansAll
<1>1. IndInv => EndedMeansAll
  <2> SUFFICES ASSUME IndInv, ended PROVE ~open /\ got = Upto(pushed)
    BY DEF EndedMeansAll
  <2>1. reader = "ended"
    BY DEF IndInv, ModeInv, TypeOK
  <2>2. ~open
    BY <2>1 DEF IndInv, EndInv
  <2>3. CASE mode = "text"
    BY <2>2, <2>3 DEF IndInv, AllInv
  <2>4. CASE mode = "file"
    <3>1. got \o FlattenSeq(out) = Upto(pushed) /\ out = <<>>
      BY <2>4 DEF IndInv, AllInv, ModeInv
    <3>2. got \o <<>> = got
      BY ConcatEmptySeq DEF IndInv, TypeOK
    <3> QED
      BY <2>2, <3>1, <3>2, FlattenEmpty
  <2> QED
    BY <2>3, <2>4 DEF IndInv, TypeOK
<1> QED
  BY <1>1, Inductive, PTL
=============================================================================
