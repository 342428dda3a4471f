---------------------------- MODULE BytesLemmas ----------------------------
(***************************************************************************)
(* Facts about the operators of Bytes and about FlattenSeq.                *)
(*                                                                         *)
(* FlattenSeq is a recursive function, so that what it returns is shown by *)
(* induction.  Induction is stated for a set of numbers (Induction), as    *)
(* the provers cannot instantiate a rule with an operator.                 *)
(***************************************************************************)
EXTENDS Bytes, SequencesExt, SequenceTheorems, CountingLemmas

LEMMA Induction ==
  ASSUME NEW T, 0 \in T, \A n \in Nat : n \in T => n + 1 \in T
  PROVE  Nat \subseteq T
  <1> SUFFICES ASSUME NEW m \in Nat, m \notin T PROVE FALSE
    OBVIOUS
  <1> DEFINE S == {n \in 0 .. m : n \notin T}
             f == [n \in S |-> n - 1]
  <1>1. m \in S
    OBVIOUS
  <1>2. IsFiniteSet(S)
    <2>1. IsFiniteSet(0 .. m)
      BY FS_Interval
    <2> QED
      BY <2>1, FS_Subset
  <1>3. f \in Injection(S, S \ {m})
    <2>1. \A n \in S : n - 1 \in S \ {m}
      <3> SUFFICES ASSUME NEW n \in S PROVE n - 1 \in S \ {m}
        OBVIOUS
      <3>1. n \in 0 .. m /\ n \notin T /\ n # 0
        OBVIOUS
      <3>2. n - 1 \in 0 .. m /\ n - 1 # m /\ (n - 1) + 1 = n
        BY <3>1
      <3>3. n - 1 \notin T
        BY <3>1, <3>2
      <3> QED
        BY <3>2, <3>3
    <2>2. \A i, j \in S : i - 1 = j - 1 => i = j
      OBVIOUS
    <2> HIDE DEF S
    <2>3. f \in [S -> S \ {m}]
      BY <2>1
    <2> QED
      BY <2>2, <2>3 DEF Injection, IsInjective
  <1> HIDE DEF S, f
  <1>4. IsFiniteSet(S \ {m}) /\ Cardinality(S \ {m}) = Cardinality(S) - 1
    BY <1>1, <1>2, FS_RemoveElement
  <1>5. Cardinality(S) <= Cardinality(S \ {m})
    BY <1>3, <1>4, FS_Injection
  <1>6. Cardinality(S) \in Nat
    BY <1>2, FS_CardinalityType
  <1> QED
    BY <1>4, <1>5, <1>6

-----------------------------------------------------------------------------
(***************************************************************************)
(* Offsets and chunks.                                                     *)
(***************************************************************************)
LEMMA Quotient ==
  ASSUME NEW q \in Nat, NEW r \in 0 .. ChunkSize - 1
  PROVE  ChunkOf(q * ChunkSize + r) = q /\ (q * ChunkSize + r) % ChunkSize = r
  BY ChunkSizeAssumption DEF ChunkOf

LEMMA ChunkOfOffset ==
  ASSUME NEW off \in Nat
  PROVE  /\ ChunkOf(off) \in Nat /\ off % ChunkSize \in 0 .. ChunkSize - 1
         /\ off = ChunkOf(off) * ChunkSize + (off % ChunkSize)
  BY ChunkSizeAssumption DEF ChunkOf

LEMMA ChunkBounds ==
  ASSUME NEW off \in Nat
  PROVE  /\ ChunkOf(off) \in Nat /\ ChunkOf(off) * ChunkSize \in Nat
         /\ ChunkOf(off) * ChunkSize <= off
         /\ off < ChunkOf(off) * ChunkSize + ChunkSize
  <1> DEFINE a == ChunkOf(off) * ChunkSize
             b == off % ChunkSize
  <1>1. ChunkOf(off) \in Nat /\ b \in 0 .. ChunkSize - 1 /\ off = a + b
    BY ChunkOfOffset
  <1>2. a \in Nat
    BY <1>1, ChunkSizeAssumption
  <1> HIDE DEF a, b
  <1>3. a <= off /\ off < a + ChunkSize
    BY <1>1, <1>2, ChunkSizeAssumption
  <1> QED
    BY <1>1, <1>2, <1>3 DEF a

LEMMA ChunkOfMonotonic ==
  ASSUME NEW a \in Nat, NEW b \in Nat, a <= b
  PROVE  ChunkOf(a) <= ChunkOf(b)
  BY ChunkOfOffset, ChunkSizeAssumption DEF ChunkOf

-----------------------------------------------------------------------------
(***************************************************************************)
(* What the operators of Bytes return.                                     *)
(***************************************************************************)
LEMMA OverlayIsSeq ==
  ASSUME NEW S, Hole \in S, NEW s \in Seq(S), NEW off \in Nat, NEW d \in Seq(S)
  PROVE  /\ Overlay(s, off, d) \in Seq(S)
         /\ Len(Overlay(s, off, d)) = Greater(Len(s), off + Len(d))
  <1> DEFINE n == Greater(Len(s), off + Len(d))
             t == Overlay(s, off, d)
  <1>1. Len(s) \in Nat /\ Len(d) \in Nat /\ n \in Nat
    BY DEF Greater
  <1>2. DOMAIN t = 1 .. n /\ \A i \in 1 .. n : t[i] \in S
    BY <1>1 DEF Overlay
  <1>3. t \in [1 .. n -> S]
    BY <1>1, <1>2 DEF Overlay
  <1> HIDE DEF n, t
  <1> QED
    BY <1>1, <1>3 DEF n, t

LEMMA ResizeIsSeq ==
  ASSUME NEW S, Hole \in S, NEW s \in Seq(S), NEW n \in Nat
  PROVE  Resize(s, n) \in Seq(S) /\ Len(Resize(s, n)) = n
  <1> DEFINE t == Resize(s, n)
  <1>1. t \in [1 .. n -> S]
    BY DEF Resize
  <1> HIDE DEF t
  <1> QED
    BY <1>1 DEF t

LEMMA SliceIsSeq ==
  ASSUME NEW S, NEW s \in Seq(S), NEW off \in Nat, NEW n \in Nat
  PROVE  /\ Slice(s, off, n) \in Seq(S)
         /\ Len(Slice(s, off, n)) <= n
         /\ \A k \in 1 .. Len(Slice(s, off, n)) : off + k \in 1 .. Len(s) /\ Slice(s, off, n)[k] = s[off + k]
  <1> DEFINE to == Smaller(off + n, Len(s))
  <1>1. to \in Nat /\ to <= Len(s) /\ to <= off + n /\ \A i \in off + 1 .. to : s[i] \in S
    BY DEF Smaller
  <1> HIDE DEF to
  <1> QED
    BY <1>1, SubSeqProperties DEF Slice, to

LEMMA SplicedIsSeq ==
  ASSUME NEW S, NEW s \in Seq(S), NEW off \in 0 .. Len(s), NEW d \in Seq(S)
  PROVE  Spliced(s, off, d) \in Seq(S)
  <1>1. SubSeq(s, 1, off) \in Seq(S) /\ SubSeq(s, off + 1, Len(s)) \in Seq(S)
    BY SubSeqProperties
  <1> QED
    BY <1>1 DEF Spliced

-----------------------------------------------------------------------------
(***************************************************************************)
(* FlattenSeq: g[i] is what the first i parts of s make together.          *)
(***************************************************************************)
Joins(S, s, n, g) ==
  /\ \A i \in 1 .. n : s[i] \in Seq(S)
  /\ g \in [0 .. n -> Seq(S)]
  /\ g[0] = << >>
  /\ \A i \in 0 .. n - 1 : g[i + 1] = g[i] \o s[i + 1]

\* c is a with b after it.
Joined(a, b, c) ==
  /\ Len(a) \in Nat /\ Len(b) \in Nat
  /\ Len(c) = Len(a) + Len(b)
  /\ \A p \in 1 .. Len(c) : c[p] = IF p <= Len(a) THEN a[p] ELSE b[p - Len(a)]

LEMMA JoinOneMore ==
  ASSUME NEW S, NEW s, NEW n \in Nat, NEW g, Joins(S, s, n, g), s[n + 1] \in Seq(S)
  PROVE  \E h : Joins(S, s, n + 1, h)
  <1> DEFINE h == [i \in 0 .. n + 1 |-> IF i <= n THEN g[i] ELSE g[n] \o s[n + 1]]
  <1>1. /\ \A i \in 1 .. n : s[i] \in Seq(S)
        /\ g \in [0 .. n -> Seq(S)] /\ g[0] = << >>
        /\ \A i \in 0 .. n - 1 : g[i + 1] = g[i] \o s[i + 1]
    BY DEF Joins
  <1>2. g[n] \o s[n + 1] \in Seq(S)
    BY <1>1
  <1>3. \A i \in 0 .. n : h[i] = g[i]
    OBVIOUS
  <1>4. h[n + 1] = g[n] \o s[n + 1]
    OBVIOUS
  <1>5. h \in [0 .. n + 1 -> Seq(S)]
    BY <1>1, <1>2
  <1> HIDE DEF h
  <1>6. h[0] = << >>
    BY <1>1, <1>3
  <1>7. \A i \in 0 .. n : h[i + 1] = h[i] \o s[i + 1]
    <2> SUFFICES ASSUME NEW i \in 0 .. n PROVE h[i + 1] = h[i] \o s[i + 1]
      OBVIOUS
    <2>1. h[i] = g[i]
      BY <1>3
    <2>2. CASE i = n
      BY <1>4, <2>1, <2>2
    <2>3. CASE i # n
      <3>1. i \in 0 .. n - 1 /\ i + 1 \in 0 .. n
        BY <2>3
      <3> QED
        BY <1>1, <1>3, <2>1, <3>1
    <2> QED
      BY <2>2, <2>3
  <1>8. \A i \in 1 .. n + 1 : s[i] \in Seq(S)
    <2> SUFFICES ASSUME NEW i \in 1 .. n + 1 PROVE s[i] \in Seq(S)
      OBVIOUS
    <2>1. i \in 1 .. n \/ i = n + 1
      OBVIOUS
    <2> QED
      BY <1>1, <2>1
  <1>9. (n + 1) - 1 = n
    OBVIOUS
  <1> QED
    BY <1>5, <1>6, <1>7, <1>8, <1>9 DEF Joins

LEMMA JoinsExist ==
  ASSUME NEW S, NEW s \in Seq(Seq(S))
  PROVE  \E g : Joins(S, s, Len(s), g)
  <1> DEFINE T == {n \in Nat : n <= Len(s) => \E g : Joins(S, s, n, g)}
  <1>1. 0 \in T
    <2>1. Joins(S, s, 0, [i \in 0 .. 0 |-> << >>])
      BY DEF Joins
    <2> QED
      BY <2>1
  <1>2. ASSUME NEW n \in Nat, n \in T
        PROVE  n + 1 \in T
    <2> SUFFICES ASSUME n + 1 <= Len(s) PROVE \E g : Joins(S, s, n + 1, g)
      OBVIOUS
    <2>1. n <= Len(s) /\ s[n + 1] \in Seq(S)
      OBVIOUS
    <2>2. PICK g : Joins(S, s, n, g)
      BY <1>2, <2>1
    <2> QED
      BY <2>1, <2>2, JoinOneMore
  <1> HIDE DEF T
  <1>3. Len(s) \in T
    BY <1>1, <1>2, Induction
  <1> QED
    BY <1>3 DEF T

\* The recursive function in FlattenSeq keeps its equations, because one that does exists.
LEMMA FlattenIsLastJoin ==
  ASSUME NEW S, NEW s \in Seq(Seq(S)), NEW g, Joins(S, s, Len(s), g)
  PROVE  FlattenSeq(s) = g[Len(s)]
  <1> DEFINE n == Len(s)
  <1>0. n \in Nat /\ g \in [0 .. n -> Seq(S)] /\ g[0] = << >>
        /\ \A i \in 0 .. n - 1 : g[i + 1] = g[i] \o s[i + 1]
    BY DEF Joins
  <1>1. CASE n = 0
    <2>1. s = << >>
      BY <1>1
    <2> QED
      BY <1>0, <1>1, <2>1 DEF FlattenSeq
  <1>2. CASE n # 0
    <2> DEFINE Eqn(f) == f = [i \in 1 .. n |-> IF i = 1 THEN s[i] ELSE f[i - 1] \o s[i]]
               F == CHOOSE f : Eqn(f)
               h == [i \in 1 .. n |-> g[i]]
    <2>1. n \in Nat \ {0}
      BY <1>0, <1>2
    <2>2. FlattenSeq(s) = F[n]
      BY <1>2 DEF FlattenSeq
    <2>3. \A i \in 1 .. n : g[i] = IF i = 1 THEN s[i] ELSE g[i - 1] \o s[i]
      <3> SUFFICES ASSUME NEW i \in 1 .. n PROVE g[i] = IF i = 1 THEN s[i] ELSE g[i - 1] \o s[i]
        OBVIOUS
      <3>1. s[i] \in Seq(S)
        OBVIOUS
      <3>2. << >> \o s[i] = s[i]
        BY <3>1, ConcatEmptySeq
      <3> HIDE DEF n
      <3>3. i - 1 \in 0 .. n - 1 /\ (i - 1) + 1 = i
        BY <1>0
      <3>4. g[i] = g[i - 1] \o s[i]
        BY <1>0, <3>3
      <3>5. CASE i = 1
        <4>1. i - 1 = 0
          BY <3>5
        <4>2. g[i] = << >> \o s[i]
          BY <1>0, <3>4, <4>1
        <4> QED
          BY <3>2, <3>5, <4>2
      <3> QED
        BY <3>4, <3>5
    <2>4. Eqn(h)
      <3> SUFFICES h = [i \in 1 .. n |-> IF i = 1 THEN s[i] ELSE h[i - 1] \o s[i]]
        OBVIOUS
      <3>1. \A i \in 1 .. n : h[i] = IF i = 1 THEN s[i] ELSE h[i - 1] \o s[i]
        BY <2>1, <2>3
      <3> QED
        BY <3>1
    <2>5. Eqn(F)
      BY <2>4
    <2> DEFINE T == {k \in Nat : k + 1 <= n => F[k + 1] = g[k + 1]}
    <2> HIDE DEF F, n
    <2>6. \A i \in 1 .. n : F[i] = IF i = 1 THEN s[i] ELSE F[i - 1] \o s[i]
      BY <2>5
    <2>7. 0 \in T
      BY <2>1, <2>3, <2>6
    <2>8. ASSUME NEW k \in Nat, k \in T PROVE k + 1 \in T
      <3>1. ASSUME (k + 1) + 1 <= n PROVE F[(k + 1) + 1] = g[(k + 1) + 1]
        <4>1. F[k + 1] = g[k + 1]
          BY <2>1, <2>8, <3>1
        <4>2. (k + 1) + 1 \in 1 .. n /\ (k + 1) + 1 # 1 /\ ((k + 1) + 1) - 1 = k + 1
          BY <2>1, <3>1
        <4> QED
          BY <2>3, <2>6, <4>1, <4>2
      <3> QED
        BY <3>1
    <2> HIDE DEF T
    <2>9. n - 1 \in T
      BY <2>1, <2>7, <2>8, Induction
    <2> QED
      BY <2>1, <2>2, <2>9 DEF T, n
  <1> QED
    BY <1>1, <1>2

LEMMA FlattenIsSeq ==
  ASSUME NEW S, NEW s \in Seq(Seq(S))
  PROVE  FlattenSeq(s) \in Seq(S)
  <1>1. PICK g : Joins(S, s, Len(s), g)
    BY JoinsExist
  <1>2. FlattenSeq(s) = g[Len(s)]
    BY <1>1, FlattenIsLastJoin
  <1> QED
    BY <1>1, <1>2 DEF Joins

LEMMA ConcatJoins ==
  ASSUME NEW S, NEW a \in Seq(S), NEW b \in Seq(S)
  PROVE  Joined(a, b, a \o b)
  BY DEF Joined

LEMMA JoinStep ==
  ASSUME NEW S, NEW s, NEW n \in Nat, NEW g, Joins(S, s, n, g), NEW k \in 0 .. n - 1
  PROVE  Joined(g[k], s[k + 1], g[k + 1])
  <1>1. g[k] \in Seq(S) /\ s[k + 1] \in Seq(S)
    BY DEF Joins
  <1>2. g[k + 1] = g[k] \o s[k + 1]
    BY DEF Joins
  <1> QED
    BY <1>1, <1>2, ConcatJoins

\* t is what m full parts make.
Fills(t, m) == Len(t) = m * ChunkSize

LEMMA JoinLength ==
  ASSUME NEW S, NEW s, NEW n \in Nat, NEW g, Joins(S, s, n, g),
         NEW m \in 0 .. n, \A i \in 1 .. m : Len(s[i]) = ChunkSize
  PROVE  Fills(g[m], m)
  <1> DEFINE T == {k \in Nat : k <= m => Len(g[k]) = k * ChunkSize}
  <1>1. 0 \in T
    BY ChunkSizeAssumption DEF Joins
  <1>2. ASSUME NEW k \in Nat, k \in T PROVE k + 1 \in T
    <2> SUFFICES ASSUME k + 1 <= m PROVE Len(g[k + 1]) = (k + 1) * ChunkSize
      OBVIOUS
    <2>1. Len(g[k]) = k * ChunkSize
      BY <1>2
    <2>2. k \in 0 .. n - 1 /\ k + 1 \in 1 .. m
      OBVIOUS
    <2> HIDE DEF T
    <2>3. Joined(g[k], s[k + 1], g[k + 1])
      BY <2>2, JoinStep
    <2>4. (k + 1) * ChunkSize = k * ChunkSize + ChunkSize
      BY ChunkSizeAssumption
    <2> QED
      BY <2>1, <2>2, <2>3, <2>4 DEF Joined
  <1> HIDE DEF T
  <1>3. m \in T
    BY <1>1, <1>2, Induction
  <1> QED
    BY <1>3 DEF T, Fills

\* Parts that are all full but the last.
FullButLast(s) ==
  /\ \A i \in 1 .. Len(s) - 1 : Len(s[i]) = ChunkSize
  /\ s # << >> => Len(s[Len(s)]) <= ChunkSize

LEMMA FlattenLength ==
  ASSUME NEW S, NEW s \in Seq(Seq(S)), s # << >>, FullButLast(s)
  PROVE  Len(FlattenSeq(s)) = (Len(s) - 1) * ChunkSize + Len(s[Len(s)])
  <1> DEFINE n == Len(s)
             m == n - 1
  <1>1. PICK g : Joins(S, s, n, g)
    BY JoinsExist
  <1>2. FlattenSeq(s) = g[n]
    BY <1>1, FlattenIsLastJoin
  <1>3. n \in Nat /\ m \in 0 .. n - 1 /\ m \in 0 .. n /\ m + 1 = n
    OBVIOUS
  <1>4. \A i \in 1 .. m : Len(s[i]) = ChunkSize
    BY DEF FullButLast
  <1> HIDE DEF n, m
  <1>5. Fills(g[m], m)
    BY <1>1, <1>3, <1>4, JoinLength
  <1>6. Joined(g[m], s[m + 1], g[m + 1])
    BY <1>1, <1>3, JoinStep
  <1> QED
    BY <1>2, <1>3, <1>5, <1>6 DEF n, m, Fills, Joined

\* The byte at offset p - 1, where its chunk puts it.
ByOffset(s, p) == s[ChunkOf(p - 1) + 1][((p - 1) % ChunkSize) + 1]

IsOffset(s, p) ==
  ChunkOf(p - 1) + 1 \in 1 .. Len(s) /\ ((p - 1) % ChunkSize) + 1 \in 1 .. Len(s[ChunkOf(p - 1) + 1])

\* A byte in a part, counted from the start of the first part.
LEMMA OffsetInPart ==
  ASSUME NEW m \in Nat, NEW k \in 1 .. ChunkSize
  PROVE  /\ m * ChunkSize + k \in Nat \ {0}
         /\ ChunkOf((m * ChunkSize + k) - 1) = m
         /\ (((m * ChunkSize + k) - 1) % ChunkSize) + 1 = k
  <1>1. m * ChunkSize \in Nat /\ k - 1 \in 0 .. ChunkSize - 1
    BY ChunkSizeAssumption
  <1>2. (m * ChunkSize + k) - 1 = m * ChunkSize + (k - 1)
    BY <1>1
  <1>3. ChunkOf(m * ChunkSize + (k - 1)) = m /\ (m * ChunkSize + (k - 1)) % ChunkSize = k - 1
    BY <1>1, Quotient
  <1> QED
    BY <1>1, <1>2, <1>3

\* A byte of a file is found by its offset.
LEMMA FlattenIndex ==
  ASSUME NEW S, NEW s \in Seq(Seq(S)), FullButLast(s), NEW p \in 1 .. Len(FlattenSeq(s))
  PROVE  IsOffset(s, p) /\ FlattenSeq(s)[p] = ByOffset(s, p)
  <1> DEFINE n == Len(s)
  <1>1. PICK g : Joins(S, s, n, g)
    BY JoinsExist
  <1>2. FlattenSeq(s) = g[n]
    BY <1>1, FlattenIsLastJoin
  <1>3. n \in Nat
    OBVIOUS
  <1>4. \A i \in 1 .. n : Len(s[i]) \in Nat /\ Len(s[i]) <= ChunkSize
    <2> SUFFICES ASSUME NEW i \in 1 .. n PROVE Len(s[i]) \in Nat /\ Len(s[i]) <= ChunkSize
      OBVIOUS
    <2>1. Len(s[i]) \in Nat
      OBVIOUS
    <2> QED
      BY <2>1, ChunkSizeAssumption DEF FullButLast
  <1>5. \A i \in 1 .. n - 1 : Len(s[i]) = ChunkSize
    BY DEF FullButLast
  <1> HIDE DEF n
  <1>6. \A m \in 0 .. n - 1 : Fills(g[m], m)
    <2> SUFFICES ASSUME NEW m \in 0 .. n - 1 PROVE Fills(g[m], m)
      OBVIOUS
    <2>1. m \in 0 .. n /\ \A i \in 1 .. m : Len(s[i]) = ChunkSize
      BY <1>3, <1>5
    <2> QED
      BY <1>1, <1>3, <2>1, JoinLength
  <1> DEFINE Right(t) == \A q \in 1 .. Len(t) : IsOffset(s, q) /\ t[q] = ByOffset(s, q)
             T == {k \in Nat : k <= n => Right(g[k])}
  <1>7. 0 \in T
    <2>1. Len(g[0]) = 0
      BY <1>1 DEF Joins
    <2> QED
      BY <2>1
  <1>8. ASSUME NEW m \in Nat, m \in T PROVE m + 1 \in T
    <2> SUFFICES ASSUME m + 1 <= n, NEW q \in 1 .. Len(g[m + 1])
                 PROVE  IsOffset(s, q) /\ g[m + 1][q] = ByOffset(s, q)
      OBVIOUS
    <2>1. m \in 0 .. n - 1 /\ m + 1 \in 1 .. n
      BY <1>3
    <2>2. \A r \in 1 .. Len(g[m]) : IsOffset(s, r) /\ g[m][r] = ByOffset(s, r)
      BY <1>3, <1>8
    <2> HIDE DEF T, Right
    <2>3. Joined(g[m], s[m + 1], g[m + 1])
      BY <1>1, <1>3, <2>1, JoinStep
    <2> DEFINE a == Len(g[m])
               b == Len(s[m + 1])
    <2>4. a = m * ChunkSize
      BY <1>6, <2>1 DEF Fills
    <2>5. a \in Nat /\ b \in Nat /\ Len(g[m + 1]) = a + b
      BY <2>3 DEF Joined
    <2>6. q \in 1 .. a + b
      BY <2>5
    <2>7. g[m + 1][q] = IF q <= a THEN g[m][q] ELSE s[m + 1][q - a]
      BY <2>3 DEF Joined
    <2>8. \A r \in 1 .. a : IsOffset(s, r) /\ g[m][r] = ByOffset(s, r)
      BY <2>2
    <2>9. b <= ChunkSize
      BY <1>4, <2>1
    <2>10. q - a \in 1 .. b => IsOffset(s, q) /\ s[m + 1][q - a] = ByOffset(s, q)
      <3> SUFFICES ASSUME q - a \in 1 .. b PROVE IsOffset(s, q) /\ s[m + 1][q - a] = ByOffset(s, q)
        OBVIOUS
      <3> DEFINE r == q - a
      <3>1. r \in 1 .. Len(s[m + 1])
        OBVIOUS
      <3> HIDE DEF a, b
      <3>2. q = a + r
        BY <2>5, <2>6
      <3>3. r \in 1 .. ChunkSize
        BY <2>5, <2>9, ChunkSizeAssumption
      <3> HIDE DEF r
      <3>4. ChunkOf(q - 1) = m /\ ((q - 1) % ChunkSize) + 1 = r
        BY <2>4, <3>2, <3>3, OffsetInPart
      <3> QED
        BY <2>1, <3>1, <3>4 DEF IsOffset, ByOffset, n, r
    <2> HIDE DEF a, b
    <2>11. q \in 1 .. a \/ (~(q <= a) /\ q - a \in 1 .. b)
      BY <2>5, <2>6
    <2> QED
      BY <2>5, <2>6, <2>7, <2>8, <2>10, <2>11
  <1> HIDE DEF T
  <1>9. n \in T
    BY <1>3, <1>7, <1>8, Induction
  <1> QED
    BY <1>2, <1>3, <1>9 DEF T

\* The first part is not longer than all parts together.
LEMMA FlattenFirst ==
  ASSUME NEW S, NEW s \in Seq(Seq(S)), s # << >>
  PROVE  Len(s[1]) <= Len(FlattenSeq(s))
  <1> DEFINE n == Len(s)
  <1>1. PICK g : Joins(S, s, n, g)
    BY JoinsExist
  <1>2. FlattenSeq(s) = g[n]
    BY <1>1, FlattenIsLastJoin
  <1>3. n \in Nat \ {0} /\ s[1] \in Seq(S)
    OBVIOUS
  <1> HIDE DEF n
  <1> DEFINE first == Len(s[1])
             T == {k \in Nat : k + 1 <= n => first <= Len(g[k + 1])}
  <1>4. first \in Nat
    BY <1>3
  <1>5. 0 \in T
    <2>1. Joined(g[0], s[0 + 1], g[0 + 1])
      BY <1>1, <1>3, JoinStep
    <2>2. Len(g[0]) = 0
      BY <1>1 DEF Joins
    <2> QED
      BY <1>4, <2>1, <2>2 DEF Joined
  <1>6. ASSUME NEW k \in Nat, k \in T PROVE k + 1 \in T
    <2> SUFFICES ASSUME (k + 1) + 1 <= n PROVE first <= Len(g[(k + 1) + 1])
      OBVIOUS
    <2>1. k + 1 \in 0 .. n - 1 /\ k + 1 <= n
      BY <1>3
    <2>2. first <= Len(g[k + 1])
      BY <1>6, <2>1
    <2> HIDE DEF T
    <2>3. Joined(g[k + 1], s[(k + 1) + 1], g[(k + 1) + 1])
      BY <1>1, <1>3, <2>1, JoinStep
    <2> DEFINE a == Len(g[k + 1])
               b == Len(s[(k + 1) + 1])
    <2>4. a \in Nat /\ b \in Nat /\ Len(g[(k + 1) + 1]) = a + b /\ first <= a
      BY <2>2, <2>3 DEF Joined
    <2> HIDE DEF a, b, first
    <2> QED
      BY <1>4, <2>4
  <1> HIDE DEF T
  <1>7. Nat \subseteq T
    BY <1>5, <1>6, Induction
  <1>8. n - 1 \in T
    BY <1>3, <1>7
  <1> QED
    BY <1>2, <1>3, <1>8 DEF T

\* m parts, none too long, are all full if together they are long enough.
Tight(s, m, t) ==
  /\ Len(t) \in Nat /\ Len(t) <= m * ChunkSize
  /\ Fills(t, m) => \A i \in 1 .. m : Len(s[i]) = ChunkSize

LEMMA TightStep ==
  ASSUME NEW s, NEW m \in Nat, NEW t, NEW u, Tight(s, m, t), Joined(t, s[m + 1], u),
         Len(s[m + 1]) <= ChunkSize
  PROVE  Tight(s, m + 1, u)
  <1> DEFINE a == Len(t)
             b == Len(s[m + 1])
  <1>1. a \in Nat /\ b \in Nat /\ Len(u) = a + b
    BY DEF Joined
  <1>2. a <= m * ChunkSize /\ b <= ChunkSize
    BY DEF Tight
  <1>3. m * ChunkSize \in Nat /\ (m + 1) * ChunkSize = m * ChunkSize + ChunkSize
    BY ChunkSizeAssumption
  <1>4. a = m * ChunkSize => \A i \in 1 .. m : Len(s[i]) = ChunkSize
    BY DEF Tight, Fills
  <1>5. b = ChunkSize => Len(s[m + 1]) = ChunkSize
    OBVIOUS
  <1> HIDE DEF a, b
  <1>6. a + b \in Nat /\ a + b <= (m + 1) * ChunkSize
    BY <1>1, <1>2, <1>3, ChunkSizeAssumption
  <1>7. ASSUME a + b = (m + 1) * ChunkSize PROVE a = m * ChunkSize /\ b = ChunkSize
    BY <1>1, <1>2, <1>3, <1>7, ChunkSizeAssumption
  <1>8. ASSUME Fills(u, m + 1), NEW i \in 1 .. m + 1 PROVE Len(s[i]) = ChunkSize
    <2>1. a = m * ChunkSize /\ b = ChunkSize
      BY <1>1, <1>7, <1>8 DEF Fills
    <2>2. i \in 1 .. m \/ i = m + 1
      OBVIOUS
    <2> QED
      BY <1>4, <1>5, <2>1, <2>2
  <1> QED
    BY <1>1, <1>6, <1>8 DEF Tight

LEMMA FlattenTight ==
  ASSUME NEW S, NEW s \in Seq(Seq(S)), s # << >>, \A i \in 1 .. Len(s) : Len(s[i]) <= ChunkSize,
         NEW w \in Nat, Len(s[Len(s)]) <= w,
         Len(FlattenSeq(s)) = (Len(s) - 1) * ChunkSize + w
  PROVE  FullButLast(s) /\ Len(s[Len(s)]) = w
  <1> DEFINE n == Len(s)
             m == n - 1
  <1>1. PICK g : Joins(S, s, n, g)
    BY JoinsExist
  <1>2. FlattenSeq(s) = g[n]
    BY <1>1, FlattenIsLastJoin
  <1>3. n \in Nat /\ m \in Nat /\ m \in 0 .. n - 1 /\ m + 1 = n
    OBVIOUS
  <1>4. \A i \in 1 .. n : Len(s[i]) <= ChunkSize
    OBVIOUS
  <1>5. Len(g[n]) = m * ChunkSize + w /\ Len(s[n]) <= w
    BY <1>2
  <1> HIDE DEF n, m
  <1> DEFINE T == {k \in Nat : k <= m => Tight(s, k, g[k])}
  <1>6. 0 \in T
    <2>1. Len(g[0]) = 0
      BY <1>1 DEF Joins
    <2> QED
      BY <2>1, ChunkSizeAssumption DEF Tight
  <1>7. ASSUME NEW k \in Nat, k \in T PROVE k + 1 \in T
    <2> SUFFICES ASSUME k + 1 <= m PROVE Tight(s, k + 1, g[k + 1])
      OBVIOUS
    <2>1. k <= m /\ k \in 0 .. n - 1 /\ k + 1 \in 1 .. n
      BY <1>3
    <2>2. Tight(s, k, g[k])
      BY <1>7, <2>1
    <2>3. Joined(g[k], s[k + 1], g[k + 1])
      BY <1>1, <1>3, <2>1, JoinStep
    <2> QED
      BY <1>4, <2>1, <2>2, <2>3, TightStep
  <1> HIDE DEF T
  <1>8. m \in T
    BY <1>3, <1>6, <1>7, Induction
  <1>9. Tight(s, m, g[m])
    BY <1>3, <1>8 DEF T
  <1>10. Joined(g[m], s[n], g[n])
    BY <1>1, <1>3, JoinStep
  <1> DEFINE a == Len(g[m])
             b == Len(s[n])
  <1>11. a \in Nat /\ b \in Nat /\ a + b = m * ChunkSize + w /\ b <= w /\ a <= m * ChunkSize
    BY <1>5, <1>9, <1>10 DEF Joined, Tight
  <1>12. a = m * ChunkSize => \A i \in 1 .. m : Len(s[i]) = ChunkSize
    BY <1>9 DEF Tight, Fills
  <1> HIDE DEF a
  <1>13. a = m * ChunkSize /\ b = w
    <2> HIDE DEF b
    <2>1. m * ChunkSize \in Nat
      BY <1>3, ChunkSizeAssumption
    <2> QED
      BY <1>11, <2>1
  <1> QED
    BY <1>4, <1>12, <1>13 DEF FullButLast, n, m

LEMMA FlattenBound ==
  ASSUME NEW S, NEW s \in Seq(Seq(S)), s # << >>, \A i \in 1 .. Len(s) : Len(s[i]) <= ChunkSize
  PROVE  Len(FlattenSeq(s)) <= Len(s) * ChunkSize
  <1> DEFINE n == Len(s)
  <1>1. PICK g : Joins(S, s, n, g)
    BY JoinsExist
  <1>2. FlattenSeq(s) = g[n]
    BY <1>1, FlattenIsLastJoin
  <1>3. n \in Nat /\ \A i \in 1 .. n : Len(s[i]) <= ChunkSize
    OBVIOUS
  <1> HIDE DEF n
  <1> DEFINE T == {k \in Nat : k <= n => Tight(s, k, g[k])}
  <1>4. 0 \in T
    <2>1. Len(g[0]) = 0
      BY <1>1 DEF Joins
    <2> QED
      BY <2>1, ChunkSizeAssumption DEF Tight
  <1>5. ASSUME NEW k \in Nat, k \in T PROVE k + 1 \in T
    <2> SUFFICES ASSUME k + 1 <= n PROVE Tight(s, k + 1, g[k + 1])
      OBVIOUS
    <2>1. k <= n /\ k \in 0 .. n - 1 /\ k + 1 \in 1 .. n
      BY <1>3
    <2>2. Tight(s, k, g[k])
      BY <1>5, <2>1
    <2>3. Joined(g[k], s[k + 1], g[k + 1])
      BY <1>1, <1>3, <2>1, JoinStep
    <2> QED
      BY <1>3, <2>1, <2>2, <2>3, TightStep
  <1> HIDE DEF T
  <1>6. n \in T
    BY <1>3, <1>4, <1>5, Induction
  <1> QED
    BY <1>2, <1>3, <1>6 DEF T, Tight, n

-----------------------------------------------------------------------------
(***************************************************************************)
(* The first place in a sequence, and what comes and goes there.           *)
(***************************************************************************)
LEMMA LeastExists ==
  ASSUME NEW S, S \subseteq Nat, S # {}
  PROVE  Min(S) \in S /\ \A k \in S : Min(S) <= k
  <1> SUFFICES ASSUME \A m \in S : ~(\A k \in S : m <= k) PROVE FALSE
    BY DEF Min
  <1> DEFINE T == {n \in Nat : \A k \in 0 .. n : k \notin S}
  <1>1. 0 \in T
    OBVIOUS
  <1>2. ASSUME NEW n \in Nat, n \in T PROVE n + 1 \in T
    BY <1>2
  <1> HIDE DEF T
  <1>3. Nat \subseteq T
    BY <1>1, <1>2, Induction
  <1>4. PICK k : k \in S
    OBVIOUS
  <1>5. k \in Nat /\ k \in 0 .. k
    BY <1>4
  <1>6. k \in T
    BY <1>3, <1>5
  <1> QED
    BY <1>4, <1>5, <1>6 DEF T

\* What SelectInSeq gives for the first e of s.
PlaceOf(s, e) ==
  LET I == {i \in 1 .. Len(s) : s[i] = e} IN IF I # {} THEN Min(I) ELSE 0

LEMMA PlaceIsFirst ==
  ASSUME NEW S, NEW s \in Seq(S), NEW e
  PROVE  /\ PlaceOf(s, e) \in 0 .. Len(s)
         /\ PlaceOf(s, e) # 0 => s[PlaceOf(s, e)] = e /\ \A k \in 1 .. PlaceOf(s, e) - 1 : s[k] # e
         /\ e \in ToSet(s) => PlaceOf(s, e) # 0
  <1> DEFINE I == {i \in 1 .. Len(s) : s[i] = e}
  <1>1. PlaceOf(s, e) = IF I # {} THEN Min(I) ELSE 0
    BY DEF PlaceOf
  <1>2. I # {} => Min(I) \in I /\ \A k \in I : Min(I) <= k
    <2>1. I \subseteq Nat
      OBVIOUS
    <2> HIDE DEF I
    <2> QED
      BY <2>1, LeastExists
  <1>3. e \in ToSet(s) => I # {}
    BY DEF ToSet
  <1>4. CASE I # {}
    <2> DEFINE m == Min(I)
    <2>0. PlaceOf(s, e) = m
      BY <1>1, <1>4
    <2>1. m \in 1 .. Len(s) /\ s[m] = e
      BY <1>2, <1>4
    <2>2. \A k \in I : m <= k
      BY <1>2, <1>4
    <2> HIDE DEF m
    <2>3. \A k \in 1 .. m - 1 : s[k] # e
      BY <2>1, <2>2
    <2> QED
      BY <2>0, <2>1, <2>3
  <1>5. CASE I = {}
    <2>1. PlaceOf(s, e) = 0 /\ e \notin ToSet(s)
      BY <1>1, <1>3, <1>5
    <2> QED
      BY <2>1
  <1> QED
    BY <1>4, <1>5

LEMMA InsertAtIsSeq ==
  ASSUME NEW S, NEW s \in Seq(S), NEW i \in 1 .. Len(s) + 1, NEW e \in S
  PROVE  /\ InsertAt(s, i, e) \in Seq(S)
         /\ ToSet(InsertAt(s, i, e)) = ToSet(s) \cup {e}
  <1> DEFINE a == SubSeq(s, 1, i - 1)
             b == SubSeq(s, i, Len(s))
             t == InsertAt(s, i, e)
  <1>1. a \in Seq(S) /\ Len(a) = i - 1 /\ \A k \in 1 .. i - 1 : a[k] = s[k]
    BY SubSeqProperties
  <1>2. b \in Seq(S) /\ Len(b) = Len(s) - i + 1 /\ \A k \in 1 .. Len(s) - i + 1 : b[k] = s[i + k - 1]
    BY SubSeqProperties
  <1>3. t = a \o <<e>> \o b
    BY DEF InsertAt
  <1> HIDE DEF a, b, t
  <1> DEFINE c == a \o <<e>>
  <1>10. /\ c \in Seq(S) /\ Len(c) = i /\ c[i] = e
        /\ \A k \in 1 .. i - 1 : c[k] = s[k]
    <2>1. <<e>> \in Seq(S) /\ Len(<<e>>) = 1 /\ <<e>>[1] = e
      OBVIOUS
    <2>2. c \in Seq(S) /\ Len(c) = Len(a) + 1
      BY <1>1, <2>1
    <2>3. \A k \in 1 .. i : c[k] = IF k <= i - 1 THEN a[k] ELSE <<e>>[k - (i - 1)]
      BY <1>1, <2>1
    <2>4. Len(c) = i
      BY <1>1, <2>2
    <2> HIDE DEF c
    <2>5. c[i] = <<e>>[i - (i - 1)] /\ i - (i - 1) = 1
      BY <2>3
    <2> QED
      BY <1>1, <2>1, <2>2, <2>3, <2>4, <2>5
  <1>11. t = c \o b
    BY <1>3
  <1> HIDE DEF c
  <1>4. t \in Seq(S) /\ Len(t) = Len(s) + 1
    <2>1. t \in Seq(S) /\ Len(t) = Len(c) + Len(b)
      BY <1>2, <1>10, <1>11
    <2> QED
      BY <1>2, <1>10, <2>1
  <1>5. \A k \in 1 .. Len(s) + 1 : t[k] = IF k < i THEN s[k] ELSE IF k = i THEN e ELSE s[k - 1]
    <2>1. \A k \in 1 .. i : t[k] = c[k]
      BY <1>2, <1>10, <1>11
    <2>2. ASSUME NEW k \in i + 1 .. Len(s) + 1 PROVE t[k] = s[k - 1]
      <3>1. t[k] = b[k - i] /\ k - i \in 1 .. Len(s) - i + 1
        BY <1>2, <1>10, <1>11
      <3>2. b[k - i] = s[i + (k - i) - 1]
        BY <1>2, <3>1
      <3> QED
        BY <3>1, <3>2
    <2> QED
      BY <1>10, <2>1, <2>2
  <1>6. ToSet(t) = {t[k] : k \in 1 .. Len(s) + 1} /\ ToSet(s) = {s[k] : k \in 1 .. Len(s)}
    BY <1>4 DEF ToSet
  <1>7. ToSet(s) \cup {e} \subseteq ToSet(t)
    <2>1. t[i] = e
      BY <1>5
    <2>2. ASSUME NEW k \in 1 .. Len(s) PROVE s[k] \in ToSet(t)
      <3>1. s[k] = t[IF k < i THEN k ELSE k + 1]
        BY <1>5
      <3> QED
        BY <1>6, <3>1
    <2> QED
      BY <1>6, <2>1, <2>2
  <1>8. ToSet(t) \subseteq ToSet(s) \cup {e}
    BY <1>5, <1>6
  <1> QED
    BY <1>4, <1>7, <1>8 DEF t

LEMMA RemoveAtIsSeq ==
  ASSUME NEW S, NEW s \in Seq(S), NEW i \in 1 .. Len(s)
  PROVE  /\ RemoveAt(s, i) \in Seq(S)
         /\ ToSet(RemoveAt(s, i)) \subseteq ToSet(s)
         /\ ToSet(s) \subseteq ToSet(RemoveAt(s, i)) \cup {s[i]}
         /\ i = 1 => RemoveAt(s, i) = Tail(s)
  <1> DEFINE a == SubSeq(s, 1, i - 1)
             b == SubSeq(s, i + 1, Len(s))
             t == RemoveAt(s, i)
  <1>1. a \in Seq(S) /\ Len(a) = i - 1 /\ \A k \in 1 .. i - 1 : a[k] = s[k]
    BY SubSeqProperties
  <1>2. b \in Seq(S) /\ Len(b) = Len(s) - i /\ \A k \in 1 .. Len(s) - i : b[k] = s[i + k]
    BY SubSeqProperties
  <1>3. t = a \o b
    BY DEF RemoveAt
  <1> HIDE DEF a, b, t
  <1>4. t \in Seq(S) /\ Len(t) = Len(s) - 1
    BY <1>1, <1>2, <1>3
  <1>5. \A k \in 1 .. Len(s) - 1 : t[k] = IF k < i THEN s[k] ELSE s[k + 1]
    BY <1>1, <1>2, <1>3
  <1>6. ToSet(t) = {t[k] : k \in 1 .. Len(s) - 1} /\ ToSet(s) = {s[k] : k \in 1 .. Len(s)}
    BY <1>4 DEF ToSet
  <1>7. ToSet(t) \subseteq ToSet(s)
    BY <1>5, <1>6
  <1>8. ToSet(s) \subseteq ToSet(t) \cup {s[i]}
    <2>1. ASSUME NEW k \in 1 .. Len(s), k # i PROVE s[k] \in ToSet(t)
      <3>1. s[k] = t[IF k < i THEN k ELSE k - 1] /\ (IF k < i THEN k ELSE k - 1) \in 1 .. Len(s) - 1
        BY <1>5, <2>1
      <3> QED
        BY <1>6, <3>1
    <2> QED
      BY <1>6, <2>1
  <1>9. i = 1 => t = Tail(s)
    <2> SUFFICES ASSUME i = 1 PROVE t = Tail(s)
      OBVIOUS
    <2>1. Tail(s) \in Seq(S) /\ Len(Tail(s)) = Len(s) - 1 /\ \A k \in 1 .. Len(s) - 1 : Tail(s)[k] = s[k + 1]
      OBVIOUS
    <2>2. \A k \in 1 .. Len(t) : t[k] = Tail(s)[k]
      BY <1>4, <1>5, <2>1
    <2> QED
      BY <1>4, <2>1, <2>2, SeqEqual
  <1> QED
    BY <1>4, <1>7, <1>8, <1>9 DEF t

LEMMA RemoveFirstIsSeq ==
  ASSUME NEW S, NEW s \in Seq(S), NEW e
  PROVE  /\ RemoveFirst(s, e) \in Seq(S)
         /\ ToSet(RemoveFirst(s, e)) \subseteq ToSet(s)
         /\ ToSet(s) \subseteq ToSet(RemoveFirst(s, e)) \cup {e}
         /\ s # << >> /\ e = Head(s) => RemoveFirst(s, e) = Tail(s)
  <1> DEFINE i == PlaceOf(s, e)
  <1>1. /\ i \in 0 .. Len(s)
        /\ i # 0 => s[i] = e /\ \A k \in 1 .. i - 1 : s[k] # e
        /\ e \in ToSet(s) => i # 0
    BY PlaceIsFirst
  <1>2. CASE \E k \in 1 .. Len(s) : s[k] = e
    <2>1. RemoveFirst(s, e) = RemoveAt(s, i)
      BY <1>2 DEF RemoveFirst, SelectInSeq, PlaceOf
    <2>2. e \in ToSet(s)
      BY <1>2 DEF ToSet
    <2>3. i \in 1 .. Len(s) /\ s[i] = e
      BY <1>1, <2>2
    <2> HIDE DEF i
    <2>4. s # << >> /\ e = Head(s) => i = 1
      <3>1. s # << >> => Head(s) = s[1]
        OBVIOUS
      <3> QED
        BY <1>1, <2>3, <3>1
    <2> QED
      BY <2>1, <2>3, <2>4, RemoveAtIsSeq
  <1>3. CASE ~\E k \in 1 .. Len(s) : s[k] = e
    <2>1. RemoveFirst(s, e) = s
      BY <1>3 DEF RemoveFirst
    <2>2. s # << >> => Head(s) = s[1] /\ 1 \in 1 .. Len(s)
      BY EmptySeq
    <2> QED
      BY <1>3, <2>1, <2>2
  <1> QED
    BY <1>2, <1>3
=============================================================================
