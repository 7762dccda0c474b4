----------------------------- MODULE VascoProofs -----------------------------
(***************************************************************************)
(* Theorems about the engine of the points-to analysis, for every set of    *)
(* modules that LLVM hands over, which the splitting and SLIM turn into      *)
(* programs of the form the engine needs.  The parts of the invariant are   *)
(* in VascoInvariant, in the order in which they are proved here.           *)
(***************************************************************************)
EXTENDS VascoInvariant, FiniteSetTheorems, SequenceTheorems, TLAPS

-----------------------------------------------------------------------------
(* Sequences *)

LEMMA LeastElement ==
  ASSUME NEW S \in SUBSET Nat, S # {}
  PROVE  \E k \in S : \A j \in S : k <= j
<1> DEFINE R == OpToRel(<, Nat)
<1>1. IsWellFoundedOn(R, Nat)
  BY NatLessThanWellFounded, Zenon
<1>2. \E k \in S : \A j \in S : <<j, k>> \notin R
  <2>. HIDE DEF R
  <2>. QED  BY <1>1, WFMin
<1>3. \A j, k \in S : <<j, k>> \notin R => k <= j
  BY DEF OpToRel
<1>. HIDE DEF R
<1>. QED  BY <1>2, <1>3

(* A set of positions counted from below: each count belongs to one of them. *)
Rank(S, i) == Cardinality({m \in S : m <= i})

LEMMA RankLemma ==
  ASSUME NEW n \in Nat, NEW S \in SUBSET (1 .. n)
  PROVE  /\ IsFiniteSet(S) /\ Cardinality(S) \in Nat
         /\ \A i \in S : Rank(S, i) \in 1 .. Cardinality(S)
         /\ \A i, j \in S : i < j => Rank(S, i) < Rank(S, j)
         /\ \A k \in 1 .. Cardinality(S) : \E i \in S : Rank(S, i) = k
<1> DEFINE upto(i) == {m \in S : m <= i}
<1>1. IsFiniteSet(S) /\ Cardinality(S) \in Nat
  <2>1. IsFiniteSet(1 .. n)
    BY FS_Interval
  <2>2. IsFiniteSet(S)
    BY <2>1, FS_Subset
  <2>. QED  BY <2>2, FS_CardinalityType
<1>2. ASSUME NEW i \in S
      PROVE  /\ IsFiniteSet(upto(i)) /\ Rank(S, i) = Cardinality(upto(i))
             /\ Rank(S, i) \in 1 .. Cardinality(S)
  <2>1. upto(i) \in SUBSET S
    OBVIOUS
  <2>2. IsFiniteSet(upto(i)) /\ Cardinality(upto(i)) <= Cardinality(S)
    BY <1>1, <2>1, FS_Subset
  <2>3. Cardinality(upto(i)) \in Nat
    BY <2>2, FS_CardinalityType
  <2>4. upto(i) # {}
    OBVIOUS
  <2>5. Cardinality(upto(i)) # 0
    BY <2>2, <2>4, FS_EmptySet
  <2>6. Rank(S, i) = Cardinality(upto(i))
    BY DEF Rank
  <2>. HIDE DEF upto
  <2>. QED  BY <1>1, <2>2, <2>3, <2>5, <2>6
<1>3. ASSUME NEW i \in S, NEW j \in S, i < j
      PROVE  Rank(S, i) < Rank(S, j)
  <2>1. upto(i) \in SUBSET upto(j) /\ j \in upto(j) /\ j \notin upto(i)
    <3>1. i \in Int /\ j \in Int /\ \A m \in S : m \in Int
      OBVIOUS
    <3>2. j \in upto(j) /\ j \notin upto(i)
      BY <1>3, <3>1
    <3>3. \A m \in S : m <= i => m <= j
      BY <1>3, <3>1
    <3>. QED  BY <3>2, <3>3
  <2>2. /\ Rank(S, i) = Cardinality(upto(i)) /\ Rank(S, i) \in 1 .. Cardinality(S)
        /\ Rank(S, j) = Cardinality(upto(j)) /\ Rank(S, j) \in 1 .. Cardinality(S)
        /\ IsFiniteSet(upto(j))
    BY <1>2
  <2>. HIDE DEF upto
  <2>3. /\ Cardinality(upto(i)) <= Cardinality(upto(j))
        /\ Cardinality(upto(j)) # Cardinality(upto(i))
    BY <2>1, <2>2, FS_Subset
  <2>. QED  BY <1>1, <2>2, <2>3
<1>4. ASSUME NEW k \in 1 .. Cardinality(S), ~ \E i \in S : Rank(S, i) = k
      PROVE  FALSE
  <2>6. \A i \in S : Rank(S, i) \in Nat
    <3>. HIDE DEF upto
    <3>. QED  BY <1>1, <1>2
  <2>7. \A i, j \in S : i # j => Rank(S, i) # Rank(S, j)
    <3>1. \A i, j \in S : i # j => i < j \/ j < i
      OBVIOUS
    <3>. HIDE DEF upto
    <3>. QED  BY <1>3, <3>1, <2>6
  <2> DEFINE T == (1 .. Cardinality(S)) \ {k}
             f == [i \in S |-> Rank(S, i)]
  <2>1. f \in [S -> T]
    BY <1>2, <1>4
  <2>2. IsFiniteSet(1 .. Cardinality(S)) /\ Cardinality(1 .. Cardinality(S)) = Cardinality(S)
    BY <1>1, FS_Interval
  <2>3. IsFiniteSet(T) /\ Cardinality(T) = Cardinality(S) - 1
    BY <2>2, FS_RemoveElement
  <2>4. Cardinality(T) < Cardinality(S)
    BY <1>1, <2>3
  <2>5. \A i, j \in S : i # j => f[i] # f[j]
    BY <2>7
  <2>. HIDE DEF T, f
  <2>. QED  BY <1>1, <2>1, <2>3, <2>4, <2>5, FS_PigeonHole
<1>. QED  BY <1>1, <1>2, <1>3, <1>4

LEMMA ConcatLemma ==
  ASSUME NEW S, NEW s \in Seq(S), NEW t \in Seq(S)
  PROVE  s \o t \in Seq(S) /\ ToSet(s \o t) = ToSet(s) \cup ToSet(t)
<1>1. /\ s \o t \in Seq(S)
      /\ \A i \in 1 .. Len(s) : (s \o t)[i] = s[i]
      /\ \A i \in 1 .. Len(t) : (s \o t)[Len(s) + i] = t[i]
      /\ Len(s \o t) = Len(s) + Len(t)
  OBVIOUS
<1>2. DOMAIN (s \o t) = 1 .. Len(s) + Len(t) /\ DOMAIN s = 1 .. Len(s) /\ DOMAIN t = 1 .. Len(t)
  BY <1>1
<1>3. ToSet(s \o t) \subseteq ToSet(s) \cup ToSet(t)
  <2>. SUFFICES ASSUME NEW i \in 1 .. Len(s) + Len(t)
                PROVE  (s \o t)[i] \in ToSet(s) \cup ToSet(t)
    BY <1>2 DEF ToSet
  <2>1. CASE i \in 1 .. Len(s)
    BY <1>1, <1>2, <2>1 DEF ToSet
  <2>2. CASE i \notin 1 .. Len(s)
    <3>1. i - Len(s) \in 1 .. Len(t) /\ i = Len(s) + (i - Len(s))
      BY <2>2
    <3>. QED  BY <1>1, <1>2, <3>1 DEF ToSet
  <2>. QED  BY <2>1, <2>2
<1>4. ToSet(s) \subseteq ToSet(s \o t)
  BY <1>1, <1>2 DEF ToSet
<1>5. ToSet(t) \subseteq ToSet(s \o t)
  <2>1. \A i \in 1 .. Len(t) : Len(s) + i \in 1 .. Len(s) + Len(t)
    OBVIOUS
  <2>. QED  BY <1>1, <1>2, <2>1 DEF ToSet
<1>. QED  BY <1>1, <1>3, <1>4, <1>5

(* Flattening: what is put together piece by piece.                          *)
Assembled(seqs, n, g) ==
  /\ g[1] = seqs[1]
  /\ \A i \in 2 .. n : g[i] = g[i - 1] \o seqs[i]
  /\ FlattenSeq(seqs) = g[n]

LEMMA FlattenSteps ==
  ASSUME NEW S, NEW n \in Nat \ {0}, NEW seqs \in [1 .. n -> Seq(S)]
  PROVE  \E g \in [1 .. n -> Seq(S)] : Assembled(seqs, n, g)
<1> DEFINE Built(m, g) == g[1] = seqs[1] /\ \A i \in 2 .. m : g[i] = g[i - 1] \o seqs[i]
           Bad == {m \in 1 .. n : ~ \E g \in [1 .. m -> Seq(S)] : Built(m, g)}
<1>1. ASSUME Bad # {} PROVE FALSE
  <2>1. Bad \in SUBSET Nat
    <3>. HIDE DEF Built
    <3>. QED  OBVIOUS
  <2>2. PICK m \in Bad : \A j \in Bad : m <= j
    <3>. HIDE DEF Bad
    <3>. QED  BY <1>1, <2>1, LeastElement
  <2>3. m \in 1 .. n /\ ~ \E g \in [1 .. m -> Seq(S)] : Built(m, g)
    <3>. HIDE DEF Built
    <3>. QED  OBVIOUS
  <2>4. CASE m = 1
    <3> DEFINE g == [i \in 1 .. m |-> seqs[1]]
    <3>1. g \in [1 .. m -> Seq(S)] /\ Built(m, g)
      BY <2>4
    <3>. QED  BY <2>3, <3>1
  <2>5. CASE m # 1
    <3>1. m - 1 \in 1 .. n /\ m - 1 \notin Bad
      <4>. HIDE DEF Bad
      <4>. QED  BY <2>2, <2>3, <2>5
    <3>2. PICK g \in [1 .. m - 1 -> Seq(S)] : Built(m - 1, g)
      <4>. HIDE DEF Built
      <4>. QED  BY <3>1
    <3> DEFINE h == [i \in 1 .. m |-> IF i < m THEN g[i] ELSE g[m - 1] \o seqs[m]]
    <3>3. g[m - 1] \o seqs[m] \in Seq(S)
      <4>1. g[m - 1] \in Seq(S) /\ seqs[m] \in Seq(S)
        BY <2>3, <2>5
      <4>. QED  BY <4>1
    <3>4. h \in [1 .. m -> Seq(S)]
      BY <2>3, <3>3
    <3>5. Built(m, h)
      <4>1. h[1] = seqs[1]
        BY <2>3, <2>5, <3>2
      <4>2. ASSUME NEW i \in 2 .. m PROVE h[i] = h[i - 1] \o seqs[i]
        <5>1. CASE i = m
          <6>1. m \in 1 .. m /\ m - 1 \in 1 .. m /\ ~(m < m) /\ m - 1 < m
            BY <2>3, <2>5
          <6>2. h[m] = g[m - 1] \o seqs[m] /\ h[m - 1] = g[m - 1]
            BY <6>1
          <6>. QED  BY <5>1, <6>2
        <5>2. CASE i # m
          <6>1. i \in 2 .. m - 1 /\ i < m /\ i - 1 < m /\ i \in 1 .. m /\ i - 1 \in 1 .. m
            BY <2>3, <5>2
          <6>2. h[i] = g[i] /\ h[i - 1] = g[i - 1]
            BY <6>1
          <6>. QED  BY <3>2, <6>1, <6>2
        <5>. QED  BY <5>1, <5>2
      <4>. QED  BY <4>1, <4>2
    <3>. HIDE DEF h
    <3>. QED  BY <2>3, <3>4, <3>5
  <2>. QED  BY <2>4, <2>5
<1>2. PICK g \in [1 .. n -> Seq(S)] : Built(n, g)
  <2>1. n \in 1 .. n
    OBVIOUS
  <2>2. n \notin Bad
    <3>. HIDE DEF Bad
    <3>. QED  BY <1>1
  <2>. HIDE DEF Built
  <2>. QED  BY <2>1, <2>2
<1> DEFINE F(f) == [i \in 1 .. n |-> IF i = 1 THEN seqs[i] ELSE f[i - 1] \o seqs[i]]
           fix == CHOOSE f : f = F(f)
<1>3. g = F(g)
  <2>1. ASSUME NEW i \in 1 .. n PROVE g[i] = IF i = 1 THEN seqs[i] ELSE g[i - 1] \o seqs[i]
    <3>1. i = 1 \/ i \in 2 .. n
      OBVIOUS
    <3>. QED  BY <1>2, <3>1
  <2>. QED  BY <2>1
<1>4. fix = F(fix)
  BY <1>3
<1>5. Len(seqs) = n /\ DOMAIN seqs = 1 .. n
  OBVIOUS
<1>6. FlattenSeq(seqs) = fix[n]
  BY <1>5 DEF FlattenSeq
<1>. HIDE DEF fix
<1>7. \A i \in 1 .. n : fix[i] = IF i = 1 THEN seqs[i] ELSE fix[i - 1] \o seqs[i]
  BY <1>4
<1> DEFINE Wrong == {i \in 1 .. n : fix[i] # g[i]}
<1>8. ASSUME Wrong # {} PROVE FALSE
  <2>1. Wrong \in SUBSET Nat
    OBVIOUS
  <2>2. PICK m \in Wrong : \A j \in Wrong : m <= j
    <3>. HIDE DEF Wrong
    <3>. QED  BY <1>8, <2>1, LeastElement
  <2>3. m \in 1 .. n /\ fix[m] # g[m]
    OBVIOUS
  <2>4. m # 1 => fix[m - 1] = g[m - 1]
    <3>1. m # 1 => m - 1 \in 1 .. n /\ ~(m <= m - 1)
      BY <2>3
    <3>. QED  BY <2>2, <3>1
  <2>5. CASE m = 1
    BY <1>2, <1>7, <2>3, <2>5
  <2>6. CASE m # 1
    <3>1. m \in 2 .. n
      BY <2>3, <2>6
    <3>2. g[m] = g[m - 1] \o seqs[m] /\ fix[m] = fix[m - 1] \o seqs[m]
      BY <1>2, <1>7, <2>3, <2>6, <3>1
    <3>. QED  BY <2>3, <2>4, <2>6, <3>2
  <2>. QED  BY <2>5, <2>6
<1>9. fix[n] = g[n]
  <2>1. n \in 1 .. n
    OBVIOUS
  <2>2. n \notin Wrong
    <3>. HIDE DEF Wrong
    <3>. QED  BY <1>8
  <2>. QED  BY <2>1, <2>2
<1>. QED  BY <1>2, <1>6, <1>9 DEF Assembled

LEMMA ConcatInjective ==
  ASSUME NEW S, NEW s \in Seq(S), NEW t \in Seq(S), IsInjective(s), IsInjective(t),
         ToSet(s) \cap ToSet(t) = {}
  PROVE  IsInjective(s \o t)
<1>1. /\ Len(s \o t) = Len(s) + Len(t) /\ DOMAIN (s \o t) = 1 .. Len(s) + Len(t)
      /\ DOMAIN s = 1 .. Len(s) /\ DOMAIN t = 1 .. Len(t)
      /\ Len(s) \in Nat /\ Len(t) \in Nat
      /\ \A i \in 1 .. Len(s) : (s \o t)[i] = s[i]
      /\ \A i \in 1 .. Len(t) : (s \o t)[Len(s) + i] = t[i]
  OBVIOUS
<1>2. \A i \in 1 .. Len(s) + Len(t) :
        \/ i \in 1 .. Len(s) /\ (s \o t)[i] = s[i] /\ s[i] \in ToSet(s)
        \/ /\ i - Len(s) \in 1 .. Len(t) /\ i \notin 1 .. Len(s)
           /\ (s \o t)[i] = t[i - Len(s)] /\ t[i - Len(s)] \in ToSet(t)
  <2>. SUFFICES ASSUME NEW i \in 1 .. Len(s) + Len(t)
                PROVE  \/ i \in 1 .. Len(s) /\ (s \o t)[i] = s[i] /\ s[i] \in ToSet(s)
                       \/ /\ i - Len(s) \in 1 .. Len(t) /\ i \notin 1 .. Len(s)
                          /\ (s \o t)[i] = t[i - Len(s)] /\ t[i - Len(s)] \in ToSet(t)
    OBVIOUS
  <2>1. CASE i \in 1 .. Len(s)
    BY <1>1, <2>1 DEF ToSet
  <2>2. CASE i \notin 1 .. Len(s)
    <3>1. i - Len(s) \in 1 .. Len(t) /\ i = Len(s) + (i - Len(s))
      BY <1>1, <2>2
    <3>2. (s \o t)[i] = t[i - Len(s)]
      BY <1>1, <3>1
    <3>. QED  BY <1>1, <2>2, <3>1, <3>2 DEF ToSet
  <2>. QED  BY <2>1, <2>2
<1>. SUFFICES ASSUME NEW i \in 1 .. Len(s) + Len(t), NEW j \in 1 .. Len(s) + Len(t),
                     (s \o t)[i] = (s \o t)[j]
              PROVE  i = j
  BY <1>1 DEF IsInjective
<1>3. CASE i \in 1 .. Len(s) /\ j \in 1 .. Len(s)
  BY <1>1, <1>2, <1>3 DEF IsInjective
<1>4. CASE i \notin 1 .. Len(s) /\ j \notin 1 .. Len(s)
  <2>1. t[i - Len(s)] = t[j - Len(s)] /\ i - Len(s) \in 1 .. Len(t) /\ j - Len(s) \in 1 .. Len(t)
    BY <1>2, <1>4
  <2>2. i - Len(s) = j - Len(s)
    BY <1>1, <2>1 DEF IsInjective
  <2>. QED  BY <1>1, <2>2
<1>5. CASE ~(i \in 1 .. Len(s) <=> j \in 1 .. Len(s))
  BY <1>2, <1>5
<1>. QED  BY <1>3, <1>4, <1>5

LEMMA FlattenLemma ==
  ASSUME NEW S, NEW n \in Nat, NEW seqs \in [1 .. n -> Seq(S)]
  PROVE  /\ FlattenSeq(seqs) \in Seq(S)
         /\ ToSet(FlattenSeq(seqs)) = UNION {ToSet(seqs[i]) : i \in 1 .. n}
         /\ /\ \A i \in 1 .. n : IsInjective(seqs[i])
            /\ \A i, j \in 1 .. n : i # j => ToSet(seqs[i]) \cap ToSet(seqs[j]) = {}
            => IsInjective(FlattenSeq(seqs))
<1>1. CASE n = 0
  <2>1. Len(seqs) = 0 /\ seqs = <<>>
    BY <1>1
  <2>2. FlattenSeq(seqs) = <<>>
    BY <2>1 DEF FlattenSeq
  <2>3. ToSet(<<>>) = {} /\ IsInjective(<<>>) /\ <<>> \in Seq(S)
    BY DEF ToSet, IsInjective
  <2>. QED  BY <1>1, <2>2, <2>3
<1>2. CASE n # 0
  <2>1. PICK g \in [1 .. n -> Seq(S)] : Assembled(seqs, n, g)
    <3>1. n \in Nat \ {0}
      BY <1>2
    <3>. QED  BY <3>1, FlattenSteps
  <2> DEFINE Apart == /\ \A i \in 1 .. n : IsInjective(seqs[i])
                      /\ \A i, j \in 1 .. n : i # j => ToSet(seqs[i]) \cap ToSet(seqs[j]) = {}
             Good(m) == /\ ToSet(g[m]) = UNION {ToSet(seqs[i]) : i \in 1 .. m}
                        /\ Apart => IsInjective(g[m])
             Bad == {m \in 1 .. n : ~Good(m)}
  <2>2. ASSUME Bad # {} PROVE FALSE
    <3>. HIDE DEF Good
    <3>1. Bad \in SUBSET Nat
      OBVIOUS
    <3>2. PICK m \in Bad : \A j \in Bad : m <= j
      <4>. HIDE DEF Bad
      <4>. QED  BY <2>2, <3>1, LeastElement
    <3>3. m \in 1 .. n /\ ~Good(m)
      OBVIOUS
    <3>4. CASE m = 1
      <4>1. {ToSet(seqs[i]) : i \in 1 .. m} = {ToSet(seqs[1])}
        BY <3>4
      <4>. QED  BY <2>1, <3>3, <3>4, <4>1 DEF Good, Assembled
    <3>5. CASE m # 1
      <4>1. m \in 2 .. n /\ m - 1 \in 1 .. n /\ Good(m - 1)
        <5>1. m \in 2 .. n /\ m - 1 \in 1 .. n /\ ~(m <= m - 1)
          BY <3>3, <3>5
        <5>. QED  BY <3>2, <5>1
      <4>2. g[m] = g[m - 1] \o seqs[m] /\ g[m - 1] \in Seq(S) /\ seqs[m] \in Seq(S)
        BY <2>1, <3>3, <4>1 DEF Assembled
      <4>3. ToSet(g[m]) = ToSet(g[m - 1]) \cup ToSet(seqs[m])
        BY <4>2, ConcatLemma
      <4>4. ToSet(g[m]) = UNION {ToSet(seqs[i]) : i \in 1 .. m}
        <5>1. ToSet(g[m - 1]) = UNION {ToSet(seqs[i]) : i \in 1 .. m - 1}
          BY <4>1 DEF Good
        <5>2. 1 .. m = (1 .. m - 1) \cup {m}
          BY <4>1
        <5>. QED  BY <4>3, <5>1, <5>2
      <4>5. ASSUME Apart PROVE IsInjective(g[m])
        <5>1. IsInjective(g[m - 1]) /\ IsInjective(seqs[m])
          BY <3>3, <4>1, <4>5 DEF Good
        <5>2. ToSet(g[m - 1]) \cap ToSet(seqs[m]) = {}
          <6>1. \A i \in 1 .. m - 1 : i \in 1 .. n /\ i # m
            BY <3>3
          <6>2. \A i \in 1 .. m - 1 : ToSet(seqs[i]) \cap ToSet(seqs[m]) = {}
            BY <3>3, <4>5, <6>1
          <6>3. ToSet(g[m - 1]) = UNION {ToSet(seqs[i]) : i \in 1 .. m - 1}
            BY <4>1 DEF Good
          <6>. QED  BY <6>2, <6>3
        <5>. QED  BY <4>2, <5>1, <5>2, ConcatInjective
      <4>. QED  BY <3>3, <4>4, <4>5 DEF Good
    <3>. QED  BY <3>4, <3>5
  <2>3. Good(n)
    <3>1. n \in 1 .. n
      BY <1>2
    <3>2. n \notin Bad
      <4>. HIDE DEF Bad
      <4>. QED  BY <2>2
    <3>. HIDE DEF Good
    <3>. QED  BY <3>1, <3>2
  <2>4. g[n] \in Seq(S)
    BY <1>2
  <2>. QED  BY <2>1, <2>3, <2>4 DEF Assembled
<1>. QED  BY <1>1, <1>2

LEMMA InsertLemma ==
  ASSUME NEW S, NEW w \in Seq(S), NEW es \in Seq(S)
  PROVE  /\ InsertAll(w, es) \in Seq(S)
         /\ ToSet(InsertAll(w, es)) = ToSet(w) \cup ToSet(es)
         /\ IsInjective(w) => IsInjective(InsertAll(w, es))
<1> DEFINE new == Missing(w, es)
           N == Cardinality(new)
           nth(k) == CHOOSE n \in new : Cardinality({m \in new : m <= n}) = k
           tail == [k \in 1 .. N |-> es[nth(k)]]
<1>1. /\ new \in SUBSET (1 .. Len(es))
      /\ \A n \in new : es[n] \notin ToSet(w) /\ \A m \in new : m < n => es[m] # es[n]
  BY DEF Missing
<1>2. \A n \in 1 .. Len(es) : es[n] \in ToSet(w) \/ \E m \in new : es[m] = es[n]
  <2>. SUFFICES ASSUME NEW n \in 1 .. Len(es), es[n] \notin ToSet(w)
                PROVE  \E m \in new : es[m] = es[n]
    OBVIOUS
  <2> DEFINE Same == {m \in 1 .. Len(es) : es[m] = es[n]}
  <2>1. Same \in SUBSET Nat /\ Same # {}
    OBVIOUS
  <2>2. PICK m \in Same : \A j \in Same : m <= j
    <3>. HIDE DEF Same
    <3>. QED  BY <2>1, LeastElement
  <2>3. \A j \in 1 .. m - 1 : es[j] # es[m]
    BY <2>2
  <2>4. m \in new
    BY <2>2, <2>3 DEF Missing
  <2>. QED  BY <2>2, <2>4
<1>. HIDE DEF new
<1>3. /\ N \in Nat
      /\ \A k \in 1 .. N : \E i \in new : Rank(new, i) = k
      /\ \A i \in new : Rank(new, i) \in 1 .. N
      /\ \A i, j \in new : i < j => Rank(new, i) < Rank(new, j)
  <2>1. Len(es) \in Nat
    OBVIOUS
  <2>. QED  BY <1>1, <2>1, RankLemma
<1>4. \A k \in 1 .. N : nth(k) \in new /\ Rank(new, nth(k)) = k
  BY <1>3 DEF Rank
<1>. HIDE DEF nth
<1>5. \A i, j \in new : Rank(new, i) = Rank(new, j) => i = j
  <2>1. \A i, j \in new : i = j \/ i < j \/ j < i
    BY <1>1
  <2>2. \A i \in new : Rank(new, i) \in Nat
    BY <1>3
  <2>. QED  BY <1>3, <2>1, <2>2
<1>6. \A i \in new : nth(Rank(new, i)) = i
  BY <1>3, <1>4, <1>5
<1>7. tail \in Seq(S) /\ Len(tail) = N /\ DOMAIN tail = 1 .. N
  <2>1. \A k \in 1 .. N : es[nth(k)] \in S
    <3>1. \A n \in 1 .. Len(es) : es[n] \in S
      OBVIOUS
    <3>. QED  BY <1>1, <1>4, <3>1
  <2>. HIDE DEF N
  <2>. QED  BY <1>3, <2>1
<1>8. InsertAll(w, es) = w \o tail
  BY DEF InsertAll, new, nth
<1>9. ToSet(tail) = {es[i] : i \in new}
  BY <1>3, <1>4, <1>6 DEF ToSet
<1>10. \A k, l \in 1 .. N : tail[k] = tail[l] => k = l
  <2>. SUFFICES ASSUME NEW k \in 1 .. N, NEW l \in 1 .. N, tail[k] = tail[l]
                PROVE  k = l
    OBVIOUS
  <2>1. nth(k) = nth(l)
    <3>1. es[nth(k)] = es[nth(l)] /\ nth(k) \in new /\ nth(l) \in new
      BY <1>4
    <3>2. nth(k) \in Nat /\ nth(l) \in Nat
      <4>1. \A n \in new : n \in Nat
        BY <1>1
      <4>. QED  BY <3>1, <4>1
    <3>. QED  BY <1>1, <3>1, <3>2
  <2>. QED  BY <1>4, <2>1
<1>11. \A k \in 1 .. N : tail[k] \notin ToSet(w)
  BY <1>1, <1>4
<1>. HIDE DEF tail, N
<1>12. ToSet(w \o tail) = ToSet(w) \cup ToSet(tail) /\ w \o tail \in Seq(S)
  BY <1>7, ConcatLemma
<1>13. ToSet(w) \cup ToSet(tail) = ToSet(w) \cup ToSet(es)
  <2>1. ToSet(es) = {es[n] : n \in 1 .. Len(es)}
    BY DEF ToSet
  <2>. QED  BY <1>1, <1>2, <1>9, <2>1
<1>14. ASSUME IsInjective(w) PROVE IsInjective(w \o tail)
  <2>1. /\ Len(w \o tail) = Len(w) + N
        /\ \A i \in 1 .. Len(w) : (w \o tail)[i] = w[i] /\ w[i] \in ToSet(w)
        /\ \A i \in 1 .. N : (w \o tail)[Len(w) + i] = tail[i]
    BY <1>7 DEF ToSet
  <2>2. \A i \in DOMAIN (w \o tail) :
          \/ i \in 1 .. Len(w)
          \/ (i - Len(w)) \in 1 .. N /\ (w \o tail)[i] = tail[i - Len(w)]
    BY <1>3, <1>12, <2>1
  <2>. SUFFICES ASSUME NEW i \in DOMAIN (w \o tail), NEW j \in DOMAIN (w \o tail),
                       (w \o tail)[i] = (w \o tail)[j]
                PROVE  i = j
    BY DEF IsInjective
  <2>3. i \in Int /\ j \in Int
    BY <1>12
  <2>4. CASE i \in 1 .. Len(w) /\ j \in 1 .. Len(w)
    BY <1>14, <2>1, <2>4 DEF IsInjective
  <2>5. CASE i \notin 1 .. Len(w) /\ j \notin 1 .. Len(w)
    <3>1. i - Len(w) = j - Len(w)
      BY <1>10, <2>2, <2>5
    <3>. QED  BY <2>3, <3>1
  <2>6. CASE i \in 1 .. Len(w) /\ j \notin 1 .. Len(w)
    BY <1>11, <2>1, <2>2, <2>6
  <2>7. CASE i \notin 1 .. Len(w) /\ j \in 1 .. Len(w)
    BY <1>11, <2>1, <2>2, <2>7
  <2>. QED  BY <2>4, <2>5, <2>6, <2>7
<1>. QED  BY <1>8, <1>12, <1>13, <1>14

LEMMA WorkInsertLemma ==
  ASSUME NEW S, NEW w \in Seq(S), NEW e \in S
  PROVE  /\ workInsert(w, e) \in Seq(S)
         /\ ToSet(workInsert(w, e)) = ToSet(w) \cup {e}
         /\ IsInjective(w) => IsInjective(workInsert(w, e))
<1>1. CASE e \in ToSet(w)
  BY <1>1 DEF workInsert
<1>2. CASE e \notin ToSet(w)
  <2>1. workInsert(w, e) = Append(w, e)
    BY <1>2 DEF workInsert
  <2>2. /\ Append(w, e) \in Seq(S) /\ Len(Append(w, e)) = Len(w) + 1
        /\ \A i \in 1 .. Len(w) : Append(w, e)[i] = w[i] /\ w[i] \in ToSet(w)
        /\ Append(w, e)[Len(w) + 1] = e
    BY DEF ToSet
  <2>3. DOMAIN Append(w, e) = 1 .. Len(w) + 1
    OBVIOUS
  <2>4. \A i \in DOMAIN Append(w, e) : i \in 1 .. Len(w) \/ i = Len(w) + 1
    BY <2>3
  <2>5. \A i \in 1 .. Len(w) : i \in DOMAIN Append(w, e)
    BY <2>3
  <2>6. Len(w) + 1 \in DOMAIN Append(w, e)
    BY <2>3
  <2>7. ToSet(Append(w, e)) = ToSet(w) \cup {e}
    BY <2>2, <2>4, <2>5, <2>6 DEF ToSet
  <2>8. ASSUME IsInjective(w) PROVE IsInjective(Append(w, e))
    BY <1>2, <2>2, <2>4, <2>8 DEF IsInjective
  <2>. QED  BY <2>1, <2>2, <2>7, <2>8
<1>. QED  BY <1>1, <1>2

(* Any order of a set is a sequence of exactly its elements.                 *)
LEMMA OrderLemma ==
  ASSUME NEW S, IsFiniteSet(S), NEW s \in SetToSeqs(S)
  PROVE  s \in Seq(S) /\ ToSet(s) = S /\ IsInjective(s)
<1> DEFINE N == Cardinality(S)
<1>1. N \in Nat
  BY FS_CardinalityType
<1>2. s \in [1 .. N -> S] /\ \A i, j \in 1 .. N : i # j => s[i] # s[j]
  BY DEF SetToSeqs
<1>3. s \in Seq(S) /\ DOMAIN s = 1 .. N
  BY <1>1, <1>2
<1>4. IsInjective(s)
  BY <1>2 DEF IsInjective
<1>5. ASSUME NEW x \in S, x \notin ToSet(s) PROVE FALSE
  <2>1. s \in [1 .. N -> S \ {x}]
    BY <1>2, <1>5 DEF ToSet
  <2>2. IsFiniteSet(S \ {x}) /\ Cardinality(S \ {x}) = N - 1
    BY FS_RemoveElement
  <2>3. IsFiniteSet(1 .. N) /\ Cardinality(1 .. N) = N
    BY <1>1, FS_Interval
  <2>. HIDE DEF N
  <2>4. Cardinality(S \ {x}) < Cardinality(1 .. N)
    BY <1>1, <2>2, <2>3
  <2>5. \E i, j \in 1 .. N : i # j /\ s[i] = s[j]
    BY <2>1, <2>2, <2>3, <2>4, FS_PigeonHole
  <2>. QED  BY <1>2, <2>5 DEF N
<1>6. ToSet(s) \subseteq S
  BY <1>2, <1>3 DEF ToSet
<1>. QED  BY <1>3, <1>4, <1>5, <1>6
-----------------------------------------------------------------------------
(* The program: splitting, and what SLIM adds at calls *)

(* The points at which a block is split, in order.                           *)
LEMMA SplitPointsLemma ==
  ASSUME NEW code, NEW n \in Nat \ {0}, DOMAIN code = 1 .. n
  PROVE  LET at     == SplitPoints(code)
             points == {1} \cup {i \in 1 .. n : isSplittedOnThisInstruction(code, i)}
             N      == Cardinality(points)
         IN  /\ N \in Nat \ {0} /\ DOMAIN at = 1 .. N /\ Len(at) = N /\ at[1] = 1
             /\ \A k \in 1 .. N : at[k] \in points
             /\ \A k \in 1 .. N - 1 : at[k] < at[k + 1]
             /\ \A k \in 1 .. N : \A i \in points :
                  at[k] < i => k < N /\ at[k + 1] <= i
<1> DEFINE points == {1} \cup {i \in 1 .. n : isSplittedOnThisInstruction(code, i)}
           N == Cardinality(points)
           at == SplitPoints(code)
<1>1. points \in SUBSET (1 .. n) /\ 1 \in points /\ \A i \in points : i \in Nat /\ i >= 1
  OBVIOUS
<1>2. at = [k \in 1 .. N |-> CHOOSE i \in points : Rank(points, i) = k]
  BY DEF SplitPoints, Rank
<1>. HIDE DEF points, at
<1>3. /\ IsFiniteSet(points) /\ N \in Nat
      /\ \A i \in points : Rank(points, i) \in 1 .. N
      /\ \A i, j \in points : i < j => Rank(points, i) < Rank(points, j)
      /\ \A k \in 1 .. N : \E i \in points : Rank(points, i) = k
  BY <1>1, RankLemma
<1>. HIDE DEF N
<1>4. DOMAIN at = 1 .. N /\ Len(at) = N
  <2>1. Len([k \in 1 .. N |-> CHOOSE i \in points : Rank(points, i) = k]) = N
    BY <1>3
  <2>. QED  BY <1>2, <2>1
<1>5. \A k \in 1 .. N : at[k] \in points /\ Rank(points, at[k]) = k
  BY <1>2, <1>3
<1>6. \A i, j \in points : i < j \/ i = j \/ j < i
  BY <1>1
<1>7. \A i, j \in points : Rank(points, i) < Rank(points, j) => i < j
  <2>. SUFFICES ASSUME NEW i \in points, NEW j \in points, Rank(points, i) < Rank(points, j)
                PROVE  i < j
    OBVIOUS
  <2>1. Rank(points, i) \in Nat /\ Rank(points, j) \in Nat
    BY <1>3
  <2>2. ~(j < i) /\ i # j
    BY <1>3, <2>1
  <2>. QED  BY <1>6, <2>2
<1>8. \A i, j \in points : Rank(points, i) = Rank(points, j) => i = j
  <2>1. \A i \in points : Rank(points, i) \in Nat
    BY <1>3
  <2>. QED  BY <1>3, <1>6, <2>1
<1>9. N # 0
  BY <1>1, <1>3
<1>10. at[1] = 1
  <2>1. 1 \in 1 .. N /\ at[1] \in points /\ Rank(points, at[1]) = 1
    BY <1>3, <1>5, <1>9
  <2>2. Rank(points, 1) \in 1 .. N
    BY <1>1, <1>3
  <2>3. ~(1 < at[1])
    <3>1. 1 < at[1] => Rank(points, 1) < Rank(points, at[1])
      BY <1>1, <1>3, <2>1
    <3>. QED  BY <2>1, <2>2, <3>1
  <2>4. at[1] \in Nat /\ at[1] >= 1
    BY <1>1, <2>1
  <2>. QED  BY <2>3, <2>4
<1>11. ASSUME NEW k \in 1 .. N - 1 PROVE at[k] < at[k + 1]
  <2>1. k \in 1 .. N /\ k + 1 \in 1 .. N /\ k < k + 1
    BY <1>3
  <2>. QED  BY <1>5, <1>7, <2>1
<1>12. ASSUME NEW k \in 1 .. N, NEW i \in points, at[k] < i
       PROVE  k < N /\ at[k + 1] <= i
  <2>1. Rank(points, at[k]) < Rank(points, i) /\ Rank(points, at[k]) = k
    BY <1>3, <1>5, <1>12
  <2>2. Rank(points, i) \in 1 .. N
    BY <1>3
  <2>3. k < N /\ k + 1 \in 1 .. N /\ k + 1 <= Rank(points, i)
    BY <1>3, <2>1, <2>2
  <2>4. at[k + 1] \in points /\ Rank(points, at[k + 1]) = k + 1
    BY <1>5, <2>3
  <2>5. ~(i < at[k + 1])
    <3>1. i < at[k + 1] => Rank(points, i) < k + 1
      BY <1>3, <2>4
    <3>. QED  BY <2>2, <2>3, <3>1
  <2>6. i \in Nat /\ at[k + 1] \in Nat
    BY <1>1, <2>4
  <2>. QED  BY <2>3, <2>5, <2>6
<1>. QED  BY <1>3, <1>4, <1>5, <1>9, <1>10, <1>11, <1>12 DEF points, at, N

(* A block that ends is split into parts that end, of which each has a call  *)
(* at its start only, and then builtin calls and a branch.                   *)
HandledAlone(part) ==
  \A m \in DOMAIN part :
    part[m].op = "call" =>
      /\ m = 1 /\ part[Len(part)].op = "br"
      /\ \A j \in 2 .. Len(part) : part[j].op \in Builtin \cup {"br"}

LEMMA PartsLemma ==
  ASSUME NEW S, Br \in S, NEW code \in Seq(S), code # <<>>,
         \A i \in 1 .. Len(code) : code[i].op \in {"br", "ret", "unreachable"} <=> i = Len(code)
  PROVE  /\ Len(Parts(code)) \in Nat \ {0} /\ DOMAIN Parts(code) = 1 .. Len(Parts(code))
         /\ \A k \in DOMAIN Parts(code) :
              /\ Parts(code)[k] \in Seq(S) /\ Parts(code)[k] # <<>>
              /\ ToSet(Parts(code)[k]) \subseteq ToSet(code) \cup {Br}
              /\ HandledAlone(Parts(code)[k])
              /\ Last(Parts(code)[k]).op = "ret" => Last(Parts(code)[k]) \in ToSet(code)
<1> DEFINE n == Len(code)
           at == SplitPoints(code)
           points == {1} \cup {i \in 1 .. n : isSplittedOnThisInstruction(code, i)}
           N == Cardinality(points)
<1>1. /\ n \in Nat \ {0} /\ DOMAIN code = 1 .. n
      /\ \A i \in 1 .. n : /\ code[i] \in S
                           /\ code[i].op \in {"br", "ret", "unreachable"} <=> i = n
  OBVIOUS
<1>. HIDE DEF n
<1>2. /\ N \in Nat \ {0} /\ DOMAIN at = 1 .. N /\ Len(at) = N /\ at[1] = 1
      /\ \A k \in 1 .. N : at[k] \in points
      /\ \A k \in 1 .. N - 1 : at[k] < at[k + 1]
      /\ \A k \in 1 .. N : \A i \in points : at[k] < i => k < N /\ at[k + 1] <= i
  BY <1>1, SplitPointsLemma
<1>3. points \in SUBSET (1 .. n)
  BY <1>1
<1>. HIDE DEF at, N
<1>4. Parts(code) = [k \in 1 .. N |->
         IF k = N THEN SubSeq(code, at[k], n)
         ELSE Append(SubSeq(code, at[k], at[k + 1] - 1), Br)]
  BY <1>2 DEF Parts, at, n
<1>5. DOMAIN Parts(code) = 1 .. N /\ Len(Parts(code)) = N
  BY <1>2, <1>4
<1>6. ASSUME NEW i \in 1 .. n, i # 1, i \notin points
      PROVE  /\ code[i].op # "call"
             /\ code[i].op \in Builtin \cup {"br"} \/ ~AfterCall(code, i)
  BY <1>6 DEF isSplittedOnThisInstruction
(* Between two points there is no call, nor anything but builtins after one. *)
<1>7. ASSUME NEW a \in 1 .. n, NEW b \in 1 .. n, a <= b,
             \A i \in points : ~(a < i /\ i <= b)
      PROVE  /\ \A i \in a + 1 .. b : code[i].op # "call"
             /\ code[a].op = "call" => \A i \in a + 1 .. b : code[i].op \in Builtin \cup {"br"}
  <2>1. \A i \in a + 1 .. b : i \in 1 .. n /\ i # 1 /\ i \notin points
    <3>1. \A i \in a + 1 .. b : i \in 1 .. n /\ i # 1 /\ a < i /\ i <= b
      BY <1>1
    <3>. HIDE DEF points
    <3>. QED  BY <1>7, <3>1
  <2>2. \A i \in a + 1 .. b : code[i].op # "call"
    BY <1>6, <2>1
  <2>3. ASSUME code[a].op = "call", \E i \in a + 1 .. b : code[i].op \notin Builtin \cup {"br"}
        PROVE  FALSE
    <3> DEFINE Odd == {i \in a + 1 .. b : code[i].op \notin Builtin \cup {"br"}}
    <3>1. Odd \in SUBSET Nat /\ Odd # {}
      BY <2>3
    <3>2. PICK i \in Odd : \A j \in Odd : i <= j
      <4>. HIDE DEF Odd
      <4>. QED  BY <3>1, LeastElement
    <3>3. i \in a + 1 .. b /\ code[i].op \notin Builtin \cup {"br"}
      OBVIOUS
    <3>4. \A m \in a + 1 .. i - 1 : code[m].op \in Builtin
      <4>. SUFFICES ASSUME NEW m \in a + 1 .. i - 1 PROVE code[m].op \in Builtin
        OBVIOUS
      <4>1. m \in a + 1 .. b /\ m \notin Odd /\ m \in 1 .. n /\ m # n
        <5>1. m \in a + 1 .. b /\ m \in 1 .. n /\ m # n /\ ~(i <= m)
          BY <1>1, <3>3
        <5>. HIDE DEF Odd
        <5>. QED  BY <3>2, <5>1
      <4>2. code[m].op # "br"
        <5>. HIDE DEF Odd
        <5>. QED  BY <1>1, <4>1
      <4>. QED  BY <4>1, <4>2
    <3>5. AfterCall(code, i)
      <4>1. a \in 1 .. i - 1
        BY <3>3
      <4>. QED  BY <2>3, <3>4, <4>1 DEF AfterCall
    <3>. QED  BY <1>6, <2>1, <3>3, <3>5
  <2>. QED  BY <2>2, <2>3
<1>8. ASSUME NEW k \in 1 .. N
      PROVE  LET part == Parts(code)[k] IN
             /\ part \in Seq(S) /\ part # <<>> /\ ToSet(part) \subseteq ToSet(code) \cup {Br}
             /\ HandledAlone(part)
             /\ Last(part).op = "ret" => Last(part) \in ToSet(code)
  <2> DEFINE part == Parts(code)[k]
             a == at[k]
             b == IF k = N THEN n ELSE at[k + 1] - 1
             whole == SubSeq(code, a, b)
  <2>1. a \in 1 .. n /\ b \in 1 .. n /\ a <= b /\ \A i \in points : ~(a < i /\ i <= b)
    <3>1. a \in points /\ a \in 1 .. n
      BY <1>2, <1>3
    <3>2. CASE k = N
      <4>1. \A i \in points : ~(a < i)
        BY <1>2, <3>2
      <4>. QED  BY <1>1, <3>1, <3>2, <4>1
    <3>3. CASE k # N
      <4>1. k \in 1 .. N - 1 /\ k + 1 \in 1 .. N
        BY <1>2, <3>3
      <4>2. at[k + 1] \in 1 .. n /\ a < at[k + 1]
        BY <1>2, <1>3, <4>1
      <4>3. \A i \in points : a < i => at[k + 1] <= i
        BY <1>2
      <4>4. b = at[k + 1] - 1 /\ at[k + 1] \in Int /\ a \in Int /\ \A i \in points : i \in Int
        BY <1>1, <1>3, <3>1, <3>3, <4>2
      <4>. HIDE DEF points, a, b
      <4>5. \A i \in points : a < i => ~(i <= b)
        BY <4>3, <4>4
      <4>. QED  BY <1>1, <3>1, <4>2, <4>4, <4>5
    <3>. QED  BY <3>2, <3>3
  <2>2. part = IF k = N THEN whole ELSE Append(whole, Br)
    BY <1>4
  <2>. HIDE DEF a, b, part
  <2>3. /\ whole \in Seq(S) /\ Len(whole) = b - a + 1 /\ Len(whole) \in Nat \ {0}
        /\ \A i \in 1 .. Len(whole) : whole[i] = code[a + i - 1] /\ a + i - 1 \in a .. b
    <3>1. a \in Int /\ b \in Int /\ \A i \in a .. b : i \in 1 .. n /\ code[i] \in S
      BY <1>1, <2>1
    <3>2. /\ whole \in Seq(S) /\ Len(whole) = IF a <= b THEN b - a + 1 ELSE 0
          /\ \A i \in 1 .. b - a + 1 : whole[i] = code[a + i - 1]
      BY <3>1, SubSeqProperties
    <3>. HIDE DEF whole
    <3>3. Len(whole) = b - a + 1 /\ Len(whole) \in Nat \ {0}
      BY <2>1, <3>1, <3>2
    <3>4. \A i \in 1 .. b - a + 1 : a + i - 1 \in a .. b
      BY <3>1
    <3>. QED  BY <3>2, <3>3, <3>4
  <2>. HIDE DEF whole
  <2>4. ASSUME NEW i \in 1 .. Len(whole)
        PROVE  /\ whole[i] \in ToSet(code) /\ whole[i] = code[a + i - 1]
               /\ a + i - 1 \in 1 .. n
               /\ i # 1 => whole[i].op # "call"
               /\ i # 1 /\ whole[1].op = "call" => whole[i].op \in Builtin \cup {"br"}
    <3>1. whole[i] = code[a + i - 1] /\ a + i - 1 \in 1 .. n /\ whole[1] = code[a]
      <4>1. 1 \in 1 .. Len(whole) /\ a + 1 - 1 = a /\ a .. b \subseteq 1 .. n
        <5>. HIDE DEF points
        <5>1. 1 \in 1 .. Len(whole)
          BY <2>3
        <5>2. n \in Nat
          BY <1>1
        <5>3. a + 1 - 1 = a /\ a .. b \subseteq 1 .. n
          BY <2>1, <5>2
        <5>. QED  BY <5>1, <5>3
      <4>2. whole[1] = code[a + 1 - 1]
        BY <2>3, <4>1
      <4>. QED  BY <2>3, <4>1, <4>2
    <3>2. i # 1 => a + i - 1 \in a + 1 .. b
      BY <2>1, <2>3
    <3>3. whole[i] \in ToSet(code)
      BY <1>1, <3>1 DEF ToSet
    <3>. QED  BY <1>7, <2>1, <3>1, <3>2, <3>3
  <2>5. CASE k # N
    <3>1. /\ part \in Seq(S) /\ Len(part) = Len(whole) + 1 /\ part[Len(part)] = Br
          /\ \A i \in 1 .. Len(whole) : part[i] = whole[i]
      BY <2>2, <2>3, <2>5
    <3>2. Br.op = "br"
      BY DEF Br, BaseInstruction
    <3>3. DOMAIN part = 1 .. Len(whole) + 1 /\ part # <<>>
      BY <2>3, <3>1
    <3>4. \A i \in 1 .. Len(whole) + 1 : i \in 1 .. Len(whole) \/ (i = Len(part) /\ part[i] = Br)
      BY <2>3, <3>1
    <3>5. ToSet(part) \subseteq ToSet(code) \cup {Br}
      BY <2>4, <3>1, <3>3, <3>4 DEF ToSet
    <3>6. HandledAlone(part)
      <4>. SUFFICES ASSUME NEW m \in 1 .. Len(part), part[m].op = "call"
                    PROVE  m = 1 /\ \A j \in 2 .. Len(part) : part[j].op \in Builtin \cup {"br"}
        BY <3>1, <3>2, <3>3 DEF HandledAlone
      <4>1. m \in 1 .. Len(whole)
        BY <3>1, <3>2, <3>3, <3>4
      <4>2. m = 1 /\ whole[1].op = "call"
        BY <2>4, <3>1, <4>1
      <4>3. ASSUME NEW j \in 2 .. Len(part) PROVE part[j].op \in Builtin \cup {"br"}
        <5>1. CASE j \in 1 .. Len(whole)
          <6>1. part[j] = whole[j] /\ j # 1
            BY <3>1, <5>1
          <6>2. whole[j].op \in Builtin \cup {"br"}
            BY <2>4, <4>2, <5>1, <6>1
          <6>. QED  BY <6>1, <6>2
        <5>2. CASE part[j] = Br
          BY <3>2, <5>2
        <5>. QED  BY <2>3, <3>1, <3>4, <5>1, <5>2
      <4>. QED  BY <4>2, <4>3
    <3>7. Last(part).op # "ret"
      BY <3>1, <3>2 DEF Last
    <3>. QED  BY <3>1, <3>3, <3>5, <3>6, <3>7 DEF part
  <2>6. CASE k = N
    <3>1. part = whole /\ b = n /\ DOMAIN part = 1 .. Len(whole) /\ part # <<>>
      BY <2>2, <2>3, <2>6 DEF b
    <3>2. ToSet(part) \subseteq ToSet(code)
      BY <2>4, <3>1 DEF ToSet
    <3>3. part[Len(part)] = code[n] /\ code[n].op \in {"br", "ret", "unreachable"}
      <4>1. Len(whole) \in 1 .. Len(whole) /\ a + Len(whole) - 1 = n
        BY <1>1, <2>1, <2>3, <3>1
      <4>2. whole[Len(whole)] = code[n]
        BY <2>3, <4>1
      <4>. QED  BY <1>1, <3>1, <4>2
    <3>4. HandledAlone(part)
      <4>. SUFFICES ASSUME NEW m \in 1 .. Len(part), part[m].op = "call"
                    PROVE  /\ m = 1 /\ part[Len(part)].op = "br"
                           /\ \A j \in 2 .. Len(part) : part[j].op \in Builtin \cup {"br"}
        BY <3>1 DEF HandledAlone
      <4>1. m = 1
        BY <2>4, <3>1
      <4>2. \A j \in 2 .. Len(part) : part[j].op \in Builtin \cup {"br"}
        BY <2>4, <3>1, <4>1
      <4>3. Len(part) # 1
        BY <3>3, <4>1
      <4>4. part[Len(part)].op \in Builtin \cup {"br"}
        BY <2>3, <3>1, <4>2, <4>3
      <4>. QED  BY <3>3, <4>1, <4>2, <4>4 DEF Builtin
    <3>5. Last(part) \in ToSet(code)
      <4>1. n \in 1 .. n
        BY <1>1
      <4>. QED  BY <1>1, <3>3, <4>1 DEF Last, ToSet
    <3>. QED  BY <2>3, <3>1, <3>2, <3>4, <3>5 DEF part
  <2>. QED  BY <2>5, <2>6
<1>. QED  BY <1>2, <1>5, <1>8

(* Blocks spread into their parts                                            *)
PartNames(b, N) == {<<b, k>> : k \in 1 .. N[b]}
AllParts(B, N) == UNION {PartNames(b, N) : b \in B}

LEMMA SpreadLemma ==
  ASSUME NEW B, NEW N \in [B -> Nat \ {0}], NEW All, All = AllParts(B, N),
         NEW bs \in Seq(B), IsInjective(bs), NEW names \in [1 .. Len(bs) -> Seq(All)],
         \A n \in 1 .. Len(bs) : /\ IsInjective(names[n])
                                 /\ ToSet(names[n]) = PartNames(bs[n], N)
  PROVE  /\ FlattenSeq(names) \in Seq(All) /\ IsInjective(FlattenSeq(names))
         /\ ToSet(FlattenSeq(names)) = AllParts(ToSet(bs), N)
<1>1. Len(bs) \in Nat /\ DOMAIN bs = 1 .. Len(bs)
  OBVIOUS
<1>2. \A i, j \in 1 .. Len(bs) : i # j => ToSet(names[i]) \cap ToSet(names[j]) = {}
  <2>. SUFFICES ASSUME NEW i \in 1 .. Len(bs), NEW j \in 1 .. Len(bs), i # j,
                       NEW x \in ToSet(names[i]), x \in ToSet(names[j])
                PROVE  FALSE
    OBVIOUS
  <2>1. x \in PartNames(bs[i], N) /\ x \in PartNames(bs[j], N)
    OBVIOUS
  <2>2. bs[i] = bs[j]
    BY <2>1 DEF PartNames
  <2>. QED  BY <1>1, <2>2 DEF IsInjective
<1>3. /\ FlattenSeq(names) \in Seq(All) /\ IsInjective(FlattenSeq(names))
      /\ ToSet(FlattenSeq(names)) = UNION {ToSet(names[i]) : i \in 1 .. Len(bs)}
  BY <1>1, <1>2, FlattenLemma
<1>4. UNION {ToSet(names[i]) : i \in 1 .. Len(bs)} = UNION {PartNames(b, N) : b \in ToSet(bs)}
  <2>1. {ToSet(names[i]) : i \in 1 .. Len(bs)} = {PartNames(bs[i], N) : i \in 1 .. Len(bs)}
    OBVIOUS
  <2>2. {PartNames(bs[i], N) : i \in 1 .. Len(bs)} = {PartNames(b, N) : b \in ToSet(bs)}
    BY <1>1 DEF ToSet
  <2>. QED  BY <2>1, <2>2
<1>. QED  BY <1>3, <1>4 DEF AllParts

(* What splitting makes of a function.                                       *)
Passes(i) ==
  i.op = "call" => i.lhs \in Variable \cup {""} /\ i.args \in Seq(Formal \X Variable)

IsPart(code, prog) ==
  /\ code \in Seq(ToSet(code)) /\ code # <<>>
  /\ \A n \in DOMAIN code : IsInstruction(code[n], prog) /\ Passes(code[n])

IsSplit(fn, prog) ==
  /\ DOMAIN fn = {"layout", "code", "succ", "post", "ipost"}
  /\ fn.layout \in Seq(Blocks(fn)) /\ fn.layout # <<>>
  /\ fn.post \in Seq(Blocks(fn)) /\ IsInjective(fn.post)
  /\ fn.ipost \in Seq(Blocks(fn)) /\ IsInjective(fn.ipost)
  /\ DOMAIN fn.code = Blocks(fn)
  /\ \A b \in Blocks(fn) : IsPart(fn.code[b], prog) /\ fn.succ[b] \in Seq(Blocks(fn))
  /\ \A b \in ToSet(fn.ipost) : HandledAlone(fn.code[b])

AllSplit(prog) == \A f \in DOMAIN prog : IsSplit(prog[f], prog)

LEMMA BranchLemma == ASSUME NEW prog
                     PROVE  IsInstruction(Br, prog) /\ Br.op = "br"
  BY DEF IsInstruction, Br, BaseInstruction

LEMMA SplittingLemma ==
  ASSUME NEW prog, NEW fn, WellFormed(fn, prog)
  PROVE  IsSplit(performSplittingBB(fn), prog)
<1> DEFINE parts == [b \in Blocks(fn) |->
                       IF b \in ToSet(fn.ipost) THEN Parts(fn.code[b]) ELSE <<fn.code[b]>>]
           N == [b \in Blocks(fn) |-> Len(parts[b])]
           names(b) == [k \in DOMAIN parts[b] |-> <<b, k>>]
           all == UNION {ToSet(names(b)) : b \in Blocks(fn)}
           spread(bs) == FlattenSeq([n \in DOMAIN bs |-> names(bs[n])])
           code == [p \in all |-> parts[p[1]][p[2]]]
           succ == [p \in all |->
                      IF p[2] < Len(parts[p[1]]) THEN <<<<p[1], p[2] + 1>>>>
                      ELSE [n \in DOMAIN fn.succ[p[1]] |-> <<fn.succ[p[1]][n], 1>>]]
           post == FlattenSeq([n \in DOMAIN fn.post |-> Reverse(names(fn.post[n]))])
<1>0. PICK split : split = performSplittingBB(fn)
  OBVIOUS
<1>1. split = [layout |-> spread(fn.layout), code |-> code, succ |-> succ,
               post |-> post, ipost |-> spread(fn.ipost)]
  BY <1>0 DEF performSplittingBB
<1>2. /\ \A blocks \in {fn.layout, fn.post, fn.ipost} :
            blocks \in Seq(Blocks(fn)) /\ blocks # <<>> /\ IsInjective(blocks)
      /\ \A b \in Blocks(fn) : IsCode(fn.code[b], prog) /\ fn.succ[b] \in Seq(Blocks(fn))
  BY DEF WellFormed
<1>3. ASSUME NEW b \in Blocks(fn)
      PROVE  /\ N[b] \in Nat \ {0} /\ DOMAIN parts[b] = 1 .. N[b]
             /\ \A k \in 1 .. N[b] : /\ IsPart(parts[b][k], prog)
                                     /\ b \in ToSet(fn.ipost) => HandledAlone(parts[b][k])
  <2> DEFINE c == fn.code[b]
  <2>1. IsCode(c, prog)
    BY <1>2
  <2>. HIDE DEF c
  <2>0. c \in Seq(ToSet(c)) /\ c # <<>>
    BY <2>1 DEF IsCode
  <2>2. DOMAIN c = 1 .. Len(c) /\ Len(c) \in Nat /\ c \in Seq(ToSet(c)) /\ c # <<>>
    <3> DEFINE S == ToSet(c)
    <3>. HIDE DEF S
    <3>1. c \in Seq(S)
      BY <2>0 DEF S
    <3>. QED  BY <2>0, <3>1
  <2>3. ASSUME NEW part, part \in Seq(ToSet(c) \cup {Br}), part # <<>>, ToSet(part) \subseteq ToSet(c) \cup {Br}
        PROVE  IsPart(part, prog)
    <3>1. DOMAIN part = 1 .. Len(part) /\ \A n \in DOMAIN part : part[n] \in ToSet(part)
      BY <2>3 DEF ToSet
    <3>2. part \in Seq(ToSet(part))
      BY <2>3, <3>1
    <3>3. ASSUME NEW n \in DOMAIN part
          PROVE  IsInstruction(part[n], prog) /\ Passes(part[n])
      <4>1. part[n] \in ToSet(c) \/ part[n] = Br
        BY <2>3, <3>1
      <4>2. CASE part[n] = Br
        BY <4>2, BranchLemma DEF Passes
      <4>3. CASE part[n] \in ToSet(c)
        <5>1. PICK m \in DOMAIN c : part[n] = c[m]
          BY <4>3 DEF ToSet
        <5>. QED  BY <2>1, <5>1 DEF IsCode, Passes
      <4>. QED  BY <4>1, <4>2, <4>3
    <3>. QED  BY <2>3, <3>2, <3>3 DEF IsPart
  <2>4. CASE b \in ToSet(fn.ipost)
    <3>1. parts[b] = Parts(c) /\ N[b] = Len(Parts(c))
      BY <2>4 DEF c
    <3>2. /\ Len(Parts(c)) \in Nat \ {0} /\ DOMAIN Parts(c) = 1 .. Len(Parts(c))
          /\ \A k \in DOMAIN Parts(c) :
               /\ Parts(c)[k] \in Seq(ToSet(c) \cup {Br}) /\ Parts(c)[k] # <<>>
               /\ ToSet(Parts(c)[k]) \subseteq ToSet(c) \cup {Br}
               /\ HandledAlone(Parts(c)[k])
      <4> DEFINE S == ToSet(c) \cup {Br}
      <4>1. Br \in S /\ c \in Seq(S)
        BY <2>2
      <4>2. \A i \in 1 .. Len(c) : c[i].op \in {"br", "ret", "unreachable"} <=> i = Len(c)
        BY <2>1, <2>2 DEF IsCode
      <4>3. ToSet(c) \cup {Br} = S
        OBVIOUS
      <4>. HIDE DEF S
      <4>4. /\ Len(Parts(c)) \in Nat \ {0} /\ DOMAIN Parts(c) = 1 .. Len(Parts(c))
            /\ \A k \in DOMAIN Parts(c) :
              /\ Parts(c)[k] \in Seq(S) /\ Parts(c)[k] # <<>>
              /\ ToSet(Parts(c)[k]) \subseteq ToSet(c) \cup {Br}
              /\ HandledAlone(Parts(c)[k])
        BY <2>2, <4>1, <4>2, PartsLemma
      <4>. QED  BY <4>3, <4>4
    <3>. HIDE DEF parts, N
    <3>3. \A k \in 1 .. N[b] : IsPart(parts[b][k], prog) /\ HandledAlone(parts[b][k])
      BY <2>3, <3>1, <3>2
    <3>. QED  BY <3>1, <3>2, <3>3
  <2>5. CASE b \notin ToSet(fn.ipost)
    <3>1. parts[b] = <<c>> /\ N[b] = 1
      BY <2>5 DEF c
    <3>2. IsPart(c, prog)
      BY <2>1 DEF IsCode, IsPart, Passes
    <3>3. DOMAIN <<c>> = 1 .. 1 /\ <<c>>[1] = c /\ \A k \in 1 .. 1 : k = 1
      OBVIOUS
    <3>. HIDE DEF parts, N
    <3>. QED  BY <2>5, <3>1, <3>2, <3>3
  <2>. QED  BY <2>4, <2>5
<1>4. N \in [Blocks(fn) -> Nat \ {0}] /\ \A b \in Blocks(fn) : Len(parts[b]) = N[b]
  <2>1. \A b \in Blocks(fn) : N[b] \in Nat \ {0}
    BY <1>3
  <2>2. N = [b \in Blocks(fn) |-> N[b]] /\ \A b \in Blocks(fn) : Len(parts[b]) = N[b]
    OBVIOUS
  <2>. HIDE DEF N
  <2>. QED  BY <2>1, <2>2
<1>. HIDE DEF parts, N
<1>5. ASSUME NEW b \in Blocks(fn)
      PROVE  /\ names(b) = [k \in 1 .. N[b] |-> <<b, k>>] /\ names(b) \in Seq(PartNames(b, N))
             /\ IsInjective(names(b)) /\ ToSet(names(b)) = PartNames(b, N)
             /\ Reverse(names(b)) \in Seq(PartNames(b, N))
             /\ IsInjective(Reverse(names(b))) /\ ToSet(Reverse(names(b))) = PartNames(b, N)
  <2> DEFINE n == N[b]
             nm == [k \in 1 .. n |-> <<b, k>>]
  <2>1. names(b) = nm /\ n \in Nat \ {0} /\ PartNames(b, N) = {<<b, k>> : k \in 1 .. n}
    BY <1>3 DEF PartNames
  <2>. HIDE DEF n
  <2>2. Len(nm) = n /\ DOMAIN nm = 1 .. n /\ \A k \in 1 .. n : nm[k] = <<b, k>>
    <3>1. n \in Nat
      BY <2>1
    <3>. QED  BY <3>1
  <2>3. Reverse(nm) = [k \in 1 .. n |-> nm[(n - k) + 1]]
    <3>. HIDE DEF nm
    <3>. QED  BY <2>2 DEF Reverse
  <2>4. \A k \in 1 .. n : (n - k) + 1 \in 1 .. n /\ (n - ((n - k) + 1)) + 1 = k
    BY <2>1
  <2>5. Reverse(nm) = [k \in 1 .. n |-> <<b, (n - k) + 1>>]
    BY <2>2, <2>3, <2>4
  <2>6. /\ nm \in Seq({<<b, k>> : k \in 1 .. n}) /\ IsInjective(nm)
        /\ ToSet(nm) = {<<b, k>> : k \in 1 .. n}
    BY <2>1 DEF IsInjective, ToSet
  <2> DEFINE rv == [k \in 1 .. n |-> <<b, (n - k) + 1>>]
  <2>7. DOMAIN rv = 1 .. n /\ \A k \in 1 .. n : rv[k] = <<b, (n - k) + 1>>
    OBVIOUS
  <2>. HIDE DEF rv
  <2>8. rv \in Seq({<<b, k>> : k \in 1 .. n})
    <3>1. \A k \in 1 .. n : <<b, (n - k) + 1>> \in {<<b, m>> : m \in 1 .. n}
      BY <2>4
    <3>. QED  BY <2>1, <3>1 DEF rv
  <2>9. IsInjective(rv)
    <3>1. \A k, m \in 1 .. n : <<b, (n - k) + 1>> = <<b, (n - m) + 1>> => k = m
      BY <2>1
    <3>. QED  BY <2>7, <3>1 DEF IsInjective
  <2>10. ToSet(rv) = {<<b, k>> : k \in 1 .. n}
    <3>1. \A k \in 1 .. n : rv[k] \in {<<b, m>> : m \in 1 .. n}
      BY <2>4, <2>7
    <3>2. \A k \in 1 .. n : rv[(n - k) + 1] = <<b, k>>
      BY <2>4, <2>7
    <3>. QED  BY <2>4, <2>7, <3>1, <3>2 DEF ToSet
  <2>11. Reverse(names(b)) = rv
    BY <2>1, <2>5 DEF rv
  <2>12. names(b) = [k \in 1 .. N[b] |-> <<b, k>>]
    BY <2>1 DEF n
  <2>. HIDE DEF nm, names
  <2>. QED  BY <2>1, <2>6, <2>8, <2>9, <2>10, <2>11, <2>12
<1>6. all = AllParts(Blocks(fn), N)
  <2>1. {ToSet(names(b)) : b \in Blocks(fn)} = {PartNames(b, N) : b \in Blocks(fn)}
    BY <1>5
  <2>. QED  BY <2>1 DEF AllParts
<1>7. \A b \in Blocks(fn) : PartNames(b, N) \subseteq all
  BY <1>6 DEF AllParts
<1>. HIDE DEF names, all
<1>8. ASSUME NEW bs \in {fn.layout, fn.post, fn.ipost}
      PROVE  /\ spread(bs) \in Seq(all) /\ IsInjective(spread(bs))
             /\ ToSet(spread(bs)) = AllParts(ToSet(bs), N)
  <2> DEFINE nm == [n \in DOMAIN bs |-> names(bs[n])]
  <2>1. bs \in Seq(Blocks(fn)) /\ IsInjective(bs) /\ DOMAIN bs = 1 .. Len(bs)
    BY <1>2
  <2>2. \A n \in 1 .. Len(bs) : bs[n] \in Blocks(fn)
    BY <2>1
  <2>3. nm \in [1 .. Len(bs) -> Seq(all)]
    <3>1. \A n \in 1 .. Len(bs) : names(bs[n]) \in Seq(all)
      BY <1>5, <1>7, <2>2
    <3>. QED  BY <2>1, <3>1
  <2>4. \A n \in 1 .. Len(bs) : /\ IsInjective(nm[n])
                               /\ ToSet(nm[n]) = PartNames(bs[n], N)
    BY <1>5, <2>1, <2>2
  <2>5. spread(bs) = FlattenSeq(nm)
    OBVIOUS
  <2>. HIDE DEF nm, spread
  <2>. QED  BY <1>4, <1>6, <2>1, <2>3, <2>4, <2>5, SpreadLemma
<1>9. post \in Seq(all) /\ IsInjective(post)
  <2>1. ASSUME NEW bs, bs = fn.post, NEW nm, nm = [n \in DOMAIN bs |-> Reverse(names(bs[n]))]
        PROVE  FlattenSeq(nm) \in Seq(all) /\ IsInjective(FlattenSeq(nm))
    <3>1. bs \in Seq(Blocks(fn)) /\ IsInjective(bs) /\ DOMAIN bs = 1 .. Len(bs)
      BY <1>2, <2>1
    <3>2. \A n \in 1 .. Len(bs) : bs[n] \in Blocks(fn)
      BY <3>1
    <3>3. nm \in [1 .. Len(bs) -> Seq(all)]
      <4>1. \A n \in 1 .. Len(bs) : Reverse(names(bs[n])) \in Seq(all)
        BY <1>5, <1>7, <3>2
      <4>. QED  BY <2>1, <3>1, <4>1
    <3>4. \A n \in 1 .. Len(bs) : /\ IsInjective(nm[n])
                                 /\ ToSet(nm[n]) = PartNames(bs[n], N)
      BY <1>5, <2>1, <3>1, <3>2
    <3>5. N \in [Blocks(fn) -> Nat \ {0}]
      BY <1>4
    <3>. QED  BY <1>6, <3>1, <3>3, <3>4, <3>5, SpreadLemma, SMTT(60)
  <2>. QED  BY <2>1
<1>10. /\ split.layout = spread(fn.layout) /\ split.code = code /\ split.succ = succ
       /\ split.post = post /\ split.ipost = spread(fn.ipost)
       /\ DOMAIN split = {"layout", "code", "succ", "post", "ipost"}
  BY <1>1
<1>11. Blocks(split) = all
  BY <1>6, <1>8, <1>10 DEF Blocks
<1>12. ASSUME NEW p \in all
       PROVE  \E b \in Blocks(fn) : \E k \in 1 .. N[b] :
                p = <<b, k>> /\ p[1] = b /\ p[2] = k /\ code[p] = parts[b][k]
  <2>1. PICK b \in Blocks(fn) : p \in PartNames(b, N)
    BY <1>6 DEF AllParts
  <2>2. PICK k \in 1 .. N[b] : p = <<b, k>>
    BY <2>1 DEF PartNames
  <2>. QED  BY <2>2
<1>13. ASSUME NEW p \in all
       PROVE  IsPart(code[p], prog) /\ succ[p] \in Seq(all)
  <2>0. PICK b \in Blocks(fn) : \E k \in 1 .. N[b] :
                p = <<b, k>> /\ p[1] = b /\ p[2] = k /\ code[p] = parts[b][k]
    BY <1>12
  <2>1. PICK k \in 1 .. N[b] :
                p = <<b, k>> /\ p[1] = b /\ p[2] = k /\ code[p] = parts[b][k]
    BY <2>0
  <2>2. IsPart(code[p], prog)
    BY <1>3, <2>1
  <2>3. CASE k < N[b]
    <3>1. succ[p] = <<<<b, k + 1>>>>
      BY <1>4, <2>1, <2>3
    <3>2. k + 1 \in 1 .. N[b]
      BY <1>4, <2>3
    <3>3. <<b, k + 1>> \in all
      BY <1>7, <3>2 DEF PartNames
    <3>. QED  BY <2>2, <3>1, <3>3
  <2>4. CASE ~(k < N[b])
    <3> DEFINE next == fn.succ[b]
    <3>1. succ[p] = [n \in DOMAIN next |-> <<next[n], 1>>]
      BY <1>4, <2>1, <2>4
    <3>2. next \in Seq(Blocks(fn))
      BY <1>2
    <3>3. \A c \in Blocks(fn) : <<c, 1>> \in all
      <4>1. \A c \in Blocks(fn) : 1 \in 1 .. N[c]
        BY <1>4
      <4>. QED  BY <1>7, <4>1 DEF PartNames
    <3>. HIDE DEF next
    <3>4. DOMAIN next = 1 .. Len(next) /\ \A n \in 1 .. Len(next) : <<next[n], 1>> \in all
      BY <3>2, <3>3
    <3>. HIDE DEF succ
    <3>. QED  BY <2>2, <3>1, <3>2, <3>4
  <2>. QED  BY <2>3, <2>4
<1>14. \A p \in ToSet(spread(fn.ipost)) : HandledAlone(code[p])
  <2>. SUFFICES ASSUME NEW p \in ToSet(spread(fn.ipost))
                PROVE  HandledAlone(code[p])
    OBVIOUS
  <2>1. PICK b \in ToSet(fn.ipost) : p \in PartNames(b, N)
    <3>. HIDE DEF spread
    <3>. QED  BY <1>8 DEF AllParts
  <2>2. b \in Blocks(fn)
    BY <1>2, <2>1 DEF ToSet
  <2>3. PICK k \in 1 .. N[b] : p = <<b, k>>
    BY <2>1 DEF PartNames
  <2>4. p \in all
    BY <1>7, <2>1, <2>2
  <2>5. code[p] = parts[b][k]
    BY <2>3, <2>4
  <2>6. HandledAlone(parts[b][k])
    BY <1>3, <2>1, <2>2, <2>3
  <2>. QED  BY <2>5, <2>6
<1>15. spread(fn.layout) # <<>>
  <2>1. PICK b \in ToSet(fn.layout) : TRUE
    <3>1. 1 \in DOMAIN fn.layout
      BY <1>2
    <3>. QED  BY <3>1 DEF ToSet
  <2>2. b \in Blocks(fn) /\ 1 \in 1 .. N[b]
    BY <1>4 DEF Blocks
  <2>3. <<b, 1>> \in ToSet(spread(fn.layout))
    <3>. HIDE DEF spread
    <3>. QED  BY <1>8, <2>1, <2>2 DEF PartNames, AllParts
  <2>4. ToSet(<<>>) = {}
    BY DEF ToSet
  <2>. HIDE DEF spread
  <2>. QED  BY <2>3, <2>4
<1>16. DOMAIN code = all
  OBVIOUS
<1>. HIDE DEF spread, post, code, succ
<1>. QED
  BY <1>0, <1>8, <1>9, <1>10, <1>11, <1>13, <1>14, <1>15, <1>16 DEF IsSplit

(* What SLIM adds around the calls.                                          *)
Loads == {LoadInstruction(x, y) : x \in Variable, y \in Variable}

LEMMA LoadIn ==
  ASSUME NEW x \in Variable, NEW y \in Variable
  PROVE  LoadInstruction(x, y) \in Loads
BY DEF Loads

LEMMA LoadLemma ==
  ASSUME NEW prog, NEW x \in Loads
  PROVE  IsInstruction(x, prog) /\ x.op \in {"addr", "copy"}
<1>1. PICK u \in Variable, v \in Variable : x = LoadInstruction(u, v)
  BY DEF Loads
<1>2. CASE v \in Global
  BY <1>1, <1>2 DEF LoadInstruction, BaseInstruction, IsInstruction
<1>3. CASE v \notin Global
  BY <1>1, <1>3 DEF LoadInstruction, BaseInstruction, IsInstruction
<1>. QED  BY <1>2, <1>3

LEMMA OneReturns ==
  ASSUME NEW prog, NEW fn, IsSplit(fn, prog)
  PROVE  /\ ReturnOperand(fn) \subseteq Variable
         /\ \A r, s \in ReturnOperand(fn) : r = s
<1> DEFINE returns == {n \in DOMAIN fn.layout : Last(fn.code[fn.layout[n]]).op = "ret"}
<1>1. DOMAIN fn.layout = 1 .. Len(fn.layout)
  BY DEF IsSplit
<1>2. getLastBasicBlock(fn) = {fn.layout[n] : n \in {m \in returns : \A k \in returns : k <= m}}
  BY DEF getLastBasicBlock
<1>3. \A m, n \in returns : (\A k \in returns : k <= m) /\ (\A k \in returns : k <= n) => m = n
  <2>1. \A m \in returns : m \in Int
    BY <1>1
  <2>. HIDE DEF returns
  <2>2. \A m, n \in returns : n <= m /\ m <= n => m = n
    BY <2>1
  <2>. QED  BY <2>2
<1>4. \A b, c \in getLastBasicBlock(fn) : b = c
  <2>. HIDE DEF returns
  <2>. QED  BY <1>2, <1>3
<1>5. ASSUME NEW b \in getLastBasicBlock(fn)
      PROVE  Last(fn.code[b]).rhs \in Variable \cup {""}
  <2>1. PICK n \in DOMAIN fn.layout : b = fn.layout[n] /\ Last(fn.code[b]).op = "ret"
    BY <1>2
  <2>2. b \in Blocks(fn)
    BY <2>1 DEF Blocks, ToSet
  <2> DEFINE code == fn.code[b]
  <2>3. IsPart(code, prog)
    BY <2>2 DEF IsSplit
  <2>. HIDE DEF code
  <2>4. code \in Seq(ToSet(code)) /\ code # <<>>
    BY <2>3 DEF IsPart
  <2>5. Len(code) \in DOMAIN code
    <3> DEFINE S == ToSet(code)
    <3>1. code \in Seq(S) /\ code # <<>>
      BY <2>4
    <3>. HIDE DEF S
    <3>. QED  BY <3>1
  <2>6. IsInstruction(code[Len(code)], prog)
    BY <2>3, <2>5 DEF IsPart
  <2>7. Last(code) = code[Len(code)] /\ Last(code).op = "ret"
    BY <2>1 DEF Last, code
  <2>8. Last(code).rhs \in Variable \cup {""}
    BY <2>6, <2>7 DEF IsInstruction
  <2>. QED  BY <2>8 DEF code
<1>. QED  BY <1>4, <1>5 DEF ReturnOperand

LEMMA SingleLemma ==
  ASSUME NEW S, NEW x \in S
  PROVE  <<x>> \in Seq(S) /\ Len(<<x>>) = 1 /\ <<x>>[1] = x /\ ToSet(<<x>>) = {x}
<1>1. <<x>> \in Seq(S) /\ Len(<<x>>) = 1 /\ <<x>>[1] = x /\ DOMAIN <<x>> = {1}
  OBVIOUS
<1>. QED  BY <1>1 DEF ToSet

LEMMA SeqWidens ==
  ASSUME NEW S, NEW T, S \subseteq T, NEW s \in Seq(S)
  PROVE  s \in Seq(T)
OBVIOUS

LEMMA LoadsLemma ==
  ASSUME NEW args \in Seq(Formal \X Variable)
  PROVE  [n \in DOMAIN args |-> LoadInstruction(args[n][1], args[n][2])] \in Seq(Loads)
<1>1. Formal \subseteq Variable
  BY OperandsDiffer DEF Variable
<1>2. DOMAIN args = 1 .. Len(args) /\ Len(args) \in Nat
      /\ \A n \in 1 .. Len(args) : args[n] \in Formal \X Variable
  OBVIOUS
<1>3. \A p \in Formal \X Variable : p[1] \in Variable /\ p[2] \in Variable
  BY <1>1
<1>4. \A n \in 1 .. Len(args) : LoadInstruction(args[n][1], args[n][2]) \in Loads
  BY <1>2, <1>3 DEF Loads
<1> DEFINE load(n) == LoadInstruction(args[n][1], args[n][2])
<1>5. \A n \in 1 .. Len(args) : load(n) \in Loads
  BY <1>4
<1>. HIDE DEF load
<1>6. [n \in 1 .. Len(args) |-> load(n)] \in Seq(Loads)
  BY <1>2, <1>5
<1>. QED  BY <1>2, <1>6 DEF load

LEMMA BetweenLemma ==
  ASSUME NEW L, NEW c, NEW a \in Seq(L), NEW r \in Seq(L), NEW s, s = (a \o <<c>>) \o r,
         NEW A, A = Len(a)
  PROVE  /\ s \in Seq(L \cup {c}) /\ c \in ToSet(s)
         /\ A \in Nat /\ Len(s) = A + 1 + Len(r) /\ s[A + 1] = c
         /\ \A j \in 1 .. A : s[j] \in L
         /\ \A j \in A + 2 .. Len(s) : s[j] \in L
<1>1. PICK t, T : t = a \o <<c>> /\ T = L \cup {c}
  OBVIOUS
<1>2. a \in Seq(T) /\ r \in Seq(T) /\ c \in T
  BY <1>1, SeqWidens
<1>3. /\ t \in Seq(T) /\ Len(t) = A + 1 /\ t[A + 1] = c /\ A \in Nat
      /\ \A j \in 1 .. A : t[j] = a[j]
  BY <1>1, <1>2
<1>4. s = t \o r
  BY <1>1
<1>5. /\ s \in Seq(T) /\ Len(s) = Len(t) + Len(r) /\ Len(r) \in Nat
      /\ \A j \in 1 .. Len(t) : s[j] = t[j]
      /\ \A j \in 1 .. Len(r) : s[Len(t) + j] = r[j]
  BY <1>2, <1>3, <1>4
<1>6. (\A j \in 1 .. A : a[j] \in L) /\ \A j \in 1 .. Len(r) : r[j] \in L
  OBVIOUS
<1>7. A + 1 \in 1 .. Len(t) /\ \A j \in 1 .. A : j \in 1 .. Len(t)
  BY <1>3
<1>8. s[A + 1] = c /\ \A j \in 1 .. A : s[j] \in L
  BY <1>3, <1>5, <1>6, <1>7
<1>9. ASSUME NEW j \in A + 2 .. Len(s) PROVE s[j] \in L
  <2>1. j - (A + 1) \in 1 .. Len(r) /\ j = Len(t) + (j - (A + 1))
    BY <1>3, <1>5
  <2>. QED  BY <1>5, <1>6, <2>1
<1>10. c \in ToSet(s)
  <2>1. A + 1 \in DOMAIN s
    BY <1>3, <1>5
  <2>. QED  BY <1>8, <2>1 DEF ToSet
<1>. QED  BY <1>1, <1>3, <1>5, <1>8, <1>9, <1>10

LEMMA ShortSeq ==
  ASSUME NEW S, NEW n \in {0, 1}, NEW s \in [1 .. n -> S]
  PROVE  s \in Seq(S) /\ Len(s) = n
OBVIOUS

LEMMA SetToSeqLemma ==
  ASSUME NEW S, \A x, y \in S : x = y
  PROVE  SetToSeq(S) \in Seq(S) /\ Len(SetToSeq(S)) \in {0, 1}
<1>1. CASE S = {}
  <2>1. Cardinality(S) = 0
    BY <1>1, FS_EmptySet
  <2>2. <<>> \in [1 .. Cardinality(S) -> S] /\ IsInjective(<<>>)
    BY <2>1 DEF IsInjective
  <2>3. SetToSeq(S) \in [1 .. Cardinality(S) -> S]
    BY <2>2 DEF SetToSeq
  <2>. QED  BY <2>1, <2>3, ShortSeq
<1>2. CASE S # {}
  <2>1. PICK x : S = {x}
    BY <1>2
  <2>2. Cardinality(S) = 1
    BY <2>1, FS_Singleton
  <2>3. \E f \in [1 .. Cardinality(S) -> S] : IsInjective(f)
    <3>1. [i \in 1 .. 1 |-> x] \in [1 .. Cardinality(S) -> S]
      BY <2>1, <2>2
    <3>2. IsInjective([i \in 1 .. 1 |-> x])
      BY DEF IsInjective
    <3>. QED  BY <3>1, <3>2
  <2>4. SetToSeq(S) \in [1 .. Cardinality(S) -> S]
    BY <2>3 DEF SetToSeq
  <2>. QED  BY <2>2, <2>4, ShortSeq
<1>. QED  BY <1>1, <1>2

(* The instructions around a call, and none around another.                  *)
Around(prog, i) ==
  IF i.op # "call" THEN <<i>>
  ELSE processCallInstruction(i) \o <<i>> \o addReturnArgumentForCall(prog, i)

LEMMA AroundLemma ==
  ASSUME NEW prog, AllSplit(prog), NEW i, IsInstruction(i, prog), Passes(i)
  PROVE  /\ Around(prog, i) \in Seq(Loads \cup {i}) /\ i \in ToSet(Around(prog, i))
         /\ i.op # "call" => Around(prog, i) = <<i>>
         /\ i.op = "call" =>
              \E a, r \in Seq(Loads) : Around(prog, i) = (a \o <<i>>) \o r /\ Len(r) \in {0, 1}
<1>1. CASE i.op # "call"
  <2>1. Around(prog, i) = <<i>>
    BY <1>1 DEF Around
  <2>2. <<i>> \in Seq(Loads \cup {i}) /\ i \in ToSet(<<i>>)
    <3>1. i \in Loads \cup {i}
      OBVIOUS
    <3>2. <<i>> \in Seq(Loads \cup {i}) /\ ToSet(<<i>>) = {i}
      BY <3>1, SingleLemma
    <3>. QED  BY <3>2
  <2>. QED  BY <1>1, <2>1, <2>2
<1>2. CASE i.op = "call"
  <2> DEFINE a == processCallInstruction(i)
             r == addReturnArgumentForCall(prog, i)
  <2>1. a \in Seq(Loads)
    BY <1>2, LoadsLemma DEF processCallInstruction, Passes
  <2>2. r \in Seq(Loads) /\ Len(r) \in {0, 1}
    <3> DEFINE S == {LoadInstruction(i.lhs, x) :
                       x \in IF i.lhs = "" THEN {} ELSE ReturnOperand(prog[i.rhs])}
    <3>1. r = SetToSeq(S)
      BY DEF addReturnArgumentForCall
    <3>2. i.rhs \in DOMAIN prog
      BY <1>2 DEF IsInstruction
    <3>3. /\ ReturnOperand(prog[i.rhs]) \subseteq Variable
          /\ \A x, y \in ReturnOperand(prog[i.rhs]) : x = y
      BY <3>2, OneReturns DEF AllSplit
    <3>4. (\A x, y \in S : x = y) /\ S \subseteq Loads
      <4>1. CASE i.lhs = ""
        <5>1. S = {}
          BY <4>1
        <5>. QED  BY <5>1
      <4>2. CASE i.lhs # ""
        <5> DEFINE R == ReturnOperand(prog[i.rhs])
        <5>0. PICK lhs : lhs = i.lhs
          OBVIOUS
        <5>1. S = {LoadInstruction(lhs, x) : x \in R}
          BY <4>2, <5>0
        <5>2. lhs \in Variable /\ R \subseteq Variable /\ \A x, y \in R : x = y
          BY <1>2, <3>3, <4>2, <5>0 DEF Passes
        <5>. HIDE DEF S, R
        <5>3. \A x, y \in S : x = y
          BY <5>1, <5>2
        <5>4. \A x \in R : LoadInstruction(lhs, x) \in Loads
          BY <5>2, LoadIn
        <5>. QED  BY <5>1, <5>3, <5>4
      <4>. QED  BY <4>1, <4>2
    <3>. HIDE DEF S
    <3>5. SetToSeq(S) \in Seq(S) /\ Len(SetToSeq(S)) \in {0, 1}
      BY <3>4, SetToSeqLemma
    <3>6. SetToSeq(S) \in Seq(Loads)
      BY <3>4, <3>5, SeqWidens
    <3>. QED  BY <3>1, <3>5, <3>6
  <2>3. Around(prog, i) = (a \o <<i>>) \o r
    BY <1>2 DEF Around
  <2>. HIDE DEF a, r
  <2>4. Around(prog, i) \in Seq(Loads \cup {i}) /\ i \in ToSet(Around(prog, i))
    <3>1. PICK c, s, A, u, v : c = i /\ s = Around(prog, i) /\ A = Len(a) /\ u = a /\ v = r
      OBVIOUS
    <3>2. s = (u \o <<c>>) \o v /\ A = Len(u)
      BY <2>3, <3>1
    <3>3. u \in Seq(Loads) /\ v \in Seq(Loads)
      BY <2>1, <2>2, <3>1
    <3>4. s \in Seq(Loads \cup {c}) /\ c \in ToSet(s)
      BY <3>2, <3>3, BetweenLemma
    <3>. QED  BY <3>1, <3>4
  <2>. QED  BY <1>2, <2>1, <2>2, <2>3, <2>4
<1>. QED  BY <1>1, <1>2

(* A first sequence and then single elements.                                *)
Singly(seqs, part, n) == \A i \in 2 .. n : seqs[i] = <<part[i]>>

Joined(whole, first, part, n) ==
  /\ Len(whole) = (Len(first) + n) - 1
  /\ \A j \in 1 .. Len(first) : whole[j] = first[j]
  /\ \A j \in 2 .. n : whole[(Len(first) + j) - 1] = part[j]

LEMMA FlattenTail ==
  ASSUME NEW S, NEW n \in Nat \ {0}, NEW part \in Seq(S), Len(part) = n,
         NEW seqs \in [1 .. n -> Seq(S)], Singly(seqs, part, n)
  PROVE  Joined(FlattenSeq(seqs), seqs[1], part, n)
<1>0. PICK N : N = Len(seqs[1])
  OBVIOUS
<1>1. PICK g \in [1 .. n -> Seq(S)] : Assembled(seqs, n, g)
  BY FlattenSteps
<1> DEFINE Good(m) == /\ Len(g[m]) = (N + m) - 1
                      /\ \A j \in 1 .. N : g[m][j] = seqs[1][j]
                      /\ \A j \in 2 .. m : g[m][(N + j) - 1] = part[j]
           Bad == {m \in 1 .. n : ~Good(m)}
<1>2. seqs[1] \in Seq(S) /\ N \in Nat
  <2>1. seqs[1] \in Seq(S)
    OBVIOUS
  <2>. QED  BY <1>0, <2>1
<1>3. ASSUME Bad # {} PROVE FALSE
  <2>1. Bad \in SUBSET Nat
    <3>. HIDE DEF Good
    <3>. QED  OBVIOUS
  <2>2. PICK m \in Bad : \A j \in Bad : m <= j
    <3>. HIDE DEF Bad
    <3>. QED  BY <1>3, <2>1, LeastElement
  <2>3. m \in 1 .. n /\ ~Good(m)
    <3>. HIDE DEF Good
    <3>. QED  OBVIOUS
  <2>4. CASE m = 1
    <3>1. g[1] = seqs[1] /\ Len(g[1]) = N
      BY <1>0, <1>1 DEF Assembled
    <3>2. Good(1)
      BY <1>2, <3>1
    <3>. QED  BY <2>3, <2>4, <3>2
  <2>5. CASE m # 1
    <3>1. m \in 2 .. n /\ m - 1 \in 1 .. n /\ Good(m - 1)
      <4>1. m \in 2 .. n /\ m - 1 \in 1 .. n /\ ~(m <= m - 1)
        BY <2>3, <2>5
      <4>. HIDE DEF Good
      <4>. QED  BY <2>2, <4>1
    <3>2. g[m] = g[m - 1] \o <<part[m]>> /\ g[m - 1] \in Seq(S)
      BY <1>1, <3>1 DEF Assembled, Singly
    <3>3. part[m] \in S
      BY <2>3
    <3> DEFINE s == g[m - 1]
               M == Len(s)
    <3>4. M \in Nat /\ M = (N + m) - 2
      <4>1. Len(s) = (N + (m - 1)) - 1
        BY <3>1
      <4>. QED  BY <1>2, <2>3, <4>1
    <3>5. /\ Len(g[m]) = M + 1 /\ g[m][M + 1] = part[m]
          /\ \A j \in 1 .. M : g[m][j] = s[j]
      <4>. HIDE DEF s
      <4>1. s \in Seq(S) /\ g[m] = s \o <<part[m]>>
        BY <3>2 DEF s
      <4>. QED  BY <3>3, <4>1
    <3>6. /\ \A j \in 1 .. N : s[j] = seqs[1][j]
          /\ \A j \in 2 .. m - 1 : s[(N + j) - 1] = part[j]
      BY <3>1
    <3>. HIDE DEF M, s
    <3>7. Len(g[m]) = (N + m) - 1
      BY <1>2, <2>3, <3>4, <3>5
    <3>8. \A j \in 1 .. N : g[m][j] = seqs[1][j]
      <4>1. \A j \in 1 .. N : j \in 1 .. M
        BY <1>2, <3>1, <3>4
      <4>. QED  BY <3>5, <3>6, <4>1
    <3>9. ASSUME NEW j \in 2 .. m PROVE g[m][(N + j) - 1] = part[j]
      <4>. HIDE DEF Good, Bad
      <4>1. CASE j = m
        <5>1. (N + j) - 1 = M + 1
          BY <1>2, <2>3, <3>4, <4>1
        <5>. QED  BY <3>5, <4>1, <5>1
      <4>2. CASE j # m
        <5>1. j \in 2 .. m - 1 /\ (N + j) - 1 \in 1 .. M
          <6>1. N \in Nat /\ m \in Nat /\ j \in Nat /\ j >= 2 /\ j <= m /\ M = (N + m) - 2
            BY <1>2, <2>3, <3>4
          <6>. QED  BY <4>2, <6>1
        <5>. QED  BY <3>5, <3>6, <5>1
      <4>. QED  BY <4>1, <4>2
    <3>. QED  BY <2>3, <3>7, <3>8, <3>9
  <2>. QED  BY <2>4, <2>5
<1>4. Good(n)
  <2>1. n \in 1 .. n
    OBVIOUS
  <2>2. n \notin Bad
    <3>. HIDE DEF Bad
    <3>. QED  BY <1>3
  <2>. HIDE DEF Good
  <2>. QED  BY <2>1, <2>2
<1>5. FlattenSeq(seqs) = g[n]
  BY <1>1 DEF Assembled
<1>. QED  BY <1>0, <1>4, <1>5 DEF Joined

LEMMA WithAssignmentsLemma ==
  ASSUME NEW prog, AllSplit(prog),
         NEW code, IsPart(code, prog)
  PROVE  LET added == WithAssignments(prog, code)
         IN  /\ added \in Seq(ToSet(added)) /\ added # <<>>
             /\ \A i \in ToSet(added) : IsInstruction(i, prog)
             /\ HandledAlone(code) => SplitBlock(added)
<1> DEFINE n == Len(code)
           S == Loads \cup ToSet(code)
           seqs == [i \in DOMAIN code |-> Around(prog, code[i])]
<1>0. PICK added : added = WithAssignments(prog, code)
  OBVIOUS
<1>1. added = FlattenSeq(seqs)
  BY <1>0 DEF WithAssignments, Around
<1>2. n \in Nat \ {0} /\ DOMAIN code = 1 .. n /\ code \in Seq(S)
  <2> DEFINE T == ToSet(code)
  <2>1. code \in Seq(T) /\ code # <<>>
    BY DEF IsPart
  <2>2. code \in Seq(S)
    BY <2>1, SeqWidens
  <2>. HIDE DEF T, S
  <2>. QED  BY <2>1, <2>2
<1>3. ASSUME NEW i \in 1 .. n
      PROVE  /\ IsInstruction(code[i], prog) /\ code[i] \in ToSet(code)
             /\ seqs[i] = Around(prog, code[i])
             /\ seqs[i] \in Seq(S) /\ code[i] \in ToSet(seqs[i])
             /\ code[i].op # "call" => seqs[i] = <<code[i]>>
             /\ code[i].op = "call" =>
                  \E a, r \in Seq(Loads) :
                    seqs[i] = (a \o <<code[i]>>) \o r /\ Len(r) \in {0, 1}
  <2>1. PICK c : c = code[i]
    OBVIOUS
  <2>2. c \in ToSet(code) /\ seqs[i] = Around(prog, c)
    BY <1>2, <2>1 DEF ToSet
  <2>3. IsInstruction(c, prog) /\ Passes(c)
    BY <1>2, <2>1 DEF IsPart
  <2>4. /\ Around(prog, c) \in Seq(Loads \cup {c}) /\ c \in ToSet(Around(prog, c))
        /\ c.op # "call" => Around(prog, c) = <<c>>
        /\ c.op = "call" =>
             \E a, r \in Seq(Loads) : Around(prog, c) = (a \o <<c>>) \o r /\ Len(r) \in {0, 1}
    BY <2>3, AroundLemma
  <2>5. Around(prog, c) \in Seq(S)
    <3>1. Loads \cup {c} \subseteq S
      BY <2>2
    <3>. HIDE DEF S
    <3>. QED  BY <2>4, <3>1, SeqWidens
  <2>. HIDE DEF S, seqs
  <2>. QED  BY <2>1, <2>2, <2>3, <2>4, <2>5
<1>4. seqs \in [1 .. n -> Seq(S)]
  <2>1. \A i \in 1 .. n : Around(prog, code[i]) \in Seq(S)
    <3>. HIDE DEF S
    <3>. QED  BY <1>3
  <2>. HIDE DEF S, n
  <2>. QED  BY <1>2, <2>1
<1>. HIDE DEF seqs, n
<1>5. /\ added \in Seq(S) /\ ToSet(added) = UNION {ToSet(seqs[i]) : i \in 1 .. n}
  <2>. HIDE DEF S
  <2>. QED  BY <1>1, <1>2, <1>4, FlattenLemma
<1>6. ToSet(added) \subseteq S
  <2>. HIDE DEF S
  <2>1. \A i \in 1 .. Len(added) : added[i] \in S
    BY <1>5
  <2>2. DOMAIN added = 1 .. Len(added)
    BY <1>5
  <2>. QED  BY <2>1, <2>2 DEF ToSet
<1>7. \A i \in ToSet(added) : IsInstruction(i, prog)
  <2>1. \A i \in Loads : IsInstruction(i, prog)
    BY LoadLemma
  <2>2. \A i \in ToSet(code) : IsInstruction(i, prog)
    BY <1>2, <1>3 DEF ToSet
  <2>. QED  BY <1>6, <2>1, <2>2
<1>8. added \in Seq(ToSet(added)) /\ added # <<>>
  <2>1. 1 \in 1 .. n
    BY <1>2
  <2>2. code[1] \in ToSet(added)
    BY <1>3, <1>5, <2>1
  <2>3. added # <<>>
    BY <2>2 DEF ToSet
  <2>4. DOMAIN added = 1 .. Len(added) /\ Len(added) \in Nat /\ \A i \in 1 .. Len(added) : added[i] \in ToSet(added)
    <3>. HIDE DEF S
    <3>1. DOMAIN added = 1 .. Len(added) /\ Len(added) \in Nat
      BY <1>5
    <3>. QED  BY <3>1 DEF ToSet
  <2>5. added = [i \in 1 .. Len(added) |-> added[i]]
    <3>. HIDE DEF S
    <3>. QED  BY <1>5
  <2>. QED  BY <2>3, <2>4, <2>5
<1>11. ASSUME Singly(seqs, code, n)
       PROVE  Joined(added, seqs[1], code, n)
  <2>. HIDE DEF S
  <2>1. n \in Nat \ {0} /\ code \in Seq(S) /\ Len(code) = n
    BY <1>2 DEF n
  <2>. QED  BY <1>1, <1>4, <1>11, <2>1, FlattenTail
<1>9. ASSUME HandledAlone(code), NEW k \in DOMAIN added, added[k].op = "call"
      PROVE  /\ added[Len(added)].op = "br"
             /\ \A m \in 1 .. k - 1 : added[m].op \in {"addr", "copy"}
             /\ \A m \in k + 1 .. Len(added) :
                  \/ added[m].op \in Builtin \cup {"br"}
                  \/ m = k + 1 /\ added[m].op \in {"addr", "copy"}
  <2>1. DOMAIN added = 1 .. Len(added) /\ Len(added) \in Nat
    <3>. HIDE DEF S
    <3>. QED  BY <1>5
  <2>2. /\ \A m \in 2 .. n : code[m].op # "call"
        /\ code[1].op = "call" =>
             code[n].op = "br" /\ \A j \in 2 .. n : code[j].op \in Builtin \cup {"br"}
    <3>1. \A m \in 1 .. n :
            code[m].op = "call" =>
              m = 1 /\ code[n].op = "br" /\ \A j \in 2 .. n : code[j].op \in Builtin \cup {"br"}
      BY <1>2, <1>9 DEF HandledAlone, n
    <3>2. 1 \in 1 .. n /\ \A m \in 2 .. n : m \in 1 .. n /\ m # 1
      BY <1>2
    <3>. QED  BY <3>1, <3>2
  <2>3. \A i \in 2 .. n : seqs[i] = <<code[i]>>
    <3>1. \A m \in 2 .. n : m \in 1 .. n
      BY <1>2
    <3>. QED  BY <1>3, <2>2, <3>1
  <2>4. PICK N : N = Len(seqs[1])
    OBVIOUS
  <2>5. /\ Len(added) = (N + n) - 1
        /\ \A j \in 1 .. N : added[j] = seqs[1][j]
        /\ \A j \in 2 .. n : added[(N + j) - 1] = code[j]
    BY <1>11, <2>3, <2>4 DEF Singly, Joined
  <2>6. seqs[1] \in Seq(S) /\ N \in Nat
    <3>. HIDE DEF S
    <3>1. seqs[1] \in Seq(S)
      BY <1>2, <1>4
    <3>. QED  BY <2>4, <3>1
  <2>7. \A m \in 1 .. Len(added) : m \in 1 .. N \/ ((m - N) + 1 \in 2 .. n /\ m = (N + ((m - N) + 1)) - 1)
    BY <1>2, <2>1, <2>5, <2>6
  <2>10. /\ code[1].op # "call" => seqs[1] = <<code[1]>>
         /\ code[1].op = "call" =>
              \E a, r \in Seq(Loads) : seqs[1] = (a \o <<code[1]>>) \o r /\ Len(r) \in {0, 1}
    <3>1. 1 \in 1 .. n
      BY <1>2
    <3>. HIDE DEF S
    <3>. QED  BY <1>3, <3>1
  <2>8. CASE code[1].op # "call"
    <3>1. seqs[1] = <<code[1]>>
      BY <2>8, <2>10
    <3>2. N = 1 /\ seqs[1][1] = code[1]
      BY <2>4, <3>1
    <3>3. k = 1 \/ k \in 2 .. n
      BY <2>1, <2>7, <3>2
    <3>4. added[1] = code[1] /\ \A j \in 2 .. n : added[j] = code[j]
      BY <2>5, <3>2
    <3>. QED  BY <1>9, <2>2, <2>8, <3>3, <3>4
  <2>9. CASE code[1].op = "call"
    <3>1. PICK a \in Seq(Loads), r \in Seq(Loads) :
            seqs[1] = (a \o <<code[1]>>) \o r /\ Len(r) \in {0, 1}
      BY <2>9, <2>10
    <3>2. \A x \in Loads : x.op \in {"addr", "copy"}
      BY LoadLemma
    <3>3. PICK A : A = Len(a)
      OBVIOUS
    <3>4. /\ A \in Nat /\ N = A + 1 + Len(r)
          /\ \A j \in 1 .. A : seqs[1][j] \in Loads
          /\ seqs[1][A + 1] = code[1]
          /\ \A j \in A + 2 .. N : seqs[1][j] \in Loads
      <4>1. PICK c, s : c = code[1] /\ s = seqs[1]
        OBVIOUS
      <4>2. s = (a \o <<c>>) \o r /\ N = Len(s)
        BY <2>4, <3>1, <4>1
      <4>3. /\ A \in Nat /\ Len(s) = A + 1 + Len(r) /\ s[A + 1] = c
            /\ \A j \in 1 .. A : s[j] \in Loads
            /\ \A j \in A + 2 .. Len(s) : s[j] \in Loads
        BY <3>3, <4>2, BetweenLemma
      <4>. QED  BY <4>1, <4>2, <4>3
    <3>5. \A j \in 1 .. N : j # A + 1 => added[j].op \in {"addr", "copy"} 
      <4>1. \A j \in 1 .. N : j # A + 1 => j \in 1 .. A \/ j \in A + 2 .. N
        BY <2>6, <3>4
      <4>. QED  BY <2>5, <3>2, <3>4, <4>1
    <3>6. A + 1 \in 1 .. N /\ added[A + 1] = code[1] /\ N <= A + 2
      <4>1. PICK R : R = Len(r) /\ R \in {0, 1}
        BY <3>1
      <4>3. A \in Nat /\ (N = A + 1 \/ N = A + 2)
        <5>1. A \in Nat /\ N = A + 1 + R
          BY <3>4, <4>1
        <5>2. CASE R = 0
          BY <5>1, <5>2
        <5>3. CASE R = 1
          BY <5>1, <5>3
        <5>. QED  BY <4>1, <5>2, <5>3
      <4>2. A + 1 \in 1 .. N /\ N <= A + 2
        BY <4>3
      <4>. QED  BY <2>5, <3>4, <4>2
    <3>7. \A m \in 1 .. Len(added) : m \notin 1 .. N => added[m].op \in Builtin \cup {"br"}
      BY <2>2, <2>5, <2>7, <2>9
    <3>8. k = A + 1
      <4>1. k \in 1 .. Len(added)
        BY <2>1
      <4>2. "call" \notin Builtin \cup {"br"}
        BY DEF Builtin
      <4>. QED  BY <1>9, <3>5, <3>7, <4>1, <4>2
    <3>9. added[Len(added)].op = "br"
      <4>1. n # 1
        BY <2>2, <2>9
      <4>2. n \in 2 .. n /\ Len(added) = (N + n) - 1
        BY <1>2, <2>5, <4>1
      <4>. QED  BY <2>2, <2>5, <2>9, <4>2
    <3>10. \A m \in 1 .. k - 1 : m \in 1 .. N /\ m # A + 1
      BY <3>4, <3>6, <3>8
    <3>11. \A m \in k + 1 .. Len(added) :
             m \in 1 .. Len(added) /\ (m \in 1 .. N => m = k + 1 /\ m # A + 1)
      BY <2>1, <2>6, <3>4, <3>6, <3>8
    <3>. QED  BY <3>5, <3>7, <3>9, <3>10, <3>11
  <2>. QED  BY <2>8, <2>9
<1>10. HandledAlone(code) => SplitBlock(added)
  BY <1>9 DEF SplitBlock
<1>. QED  BY <1>0, <1>7, <1>8, <1>10

LEMMA TranslatedLemma ==
  ASSUME NEW prog, AllSplit(prog),
         NEW f \in DOMAIN prog
  PROVE  IsFunction(Translated(prog)[f], Translated(prog))
<1>1. PICK fn : fn = prog[f]
  OBVIOUS
<1>2. PICK after : after = Translated(prog)
  OBVIOUS
<1>3. DOMAIN after = DOMAIN prog
  BY <1>2 DEF Translated
<1>4. \A i : IsInstruction(i, after) <=> IsInstruction(i, prog)
  BY <1>3 DEF IsInstruction
<1>5. PICK code : code = [b \in DOMAIN fn.code |-> WithAssignments(prog, fn.code[b])]
  OBVIOUS
<1>6. after[f] = [fn EXCEPT !.code = code]
  BY <1>1, <1>2, <1>5 DEF Translated
<1>7. IsSplit(fn, prog)
  BY <1>1 DEF AllSplit
<1>8. PICK new : new = after[f]
  OBVIOUS
<1>9. /\ new.layout = fn.layout /\ new.succ = fn.succ /\ new.post = fn.post
      /\ new.ipost = fn.ipost /\ new.code = code
  <2>1. DOMAIN fn = {"layout", "code", "succ", "post", "ipost"}
    BY <1>7 DEF IsSplit
  <2>. QED  BY <1>6, <1>8, <2>1
<1>10. Blocks(new) = Blocks(fn) /\ DOMAIN fn.code = Blocks(fn)
  BY <1>7, <1>9 DEF Blocks, IsSplit
<1>11. ASSUME NEW b \in Blocks(fn)
       PROVE  /\ code[b] \in Seq(ToSet(code[b])) /\ code[b] # <<>>
              /\ \A i \in ToSet(code[b]) : IsInstruction(i, after)
              /\ fn.succ[b] \in Seq(Blocks(fn))
              /\ b \in ToSet(fn.ipost) => SplitBlock(code[b])
  <2>1. IsPart(fn.code[b], prog) /\ fn.succ[b] \in Seq(Blocks(fn))
        /\ (b \in ToSet(fn.ipost) => HandledAlone(fn.code[b]))
    BY <1>7 DEF IsSplit
  <2>2. code[b] = WithAssignments(prog, fn.code[b])
    BY <1>5, <1>10
  <2>3. PICK part : part = fn.code[b]
    OBVIOUS
  <2>4. PICK added : added = WithAssignments(prog, part)
    OBVIOUS
  <2>5. /\ added \in Seq(ToSet(added)) /\ added # <<>>
        /\ \A i \in ToSet(added) : IsInstruction(i, prog)
        /\ HandledAlone(part) => SplitBlock(added)
    BY <2>1, <2>3, <2>4, WithAssignmentsLemma
  <2>. QED  BY <1>4, <2>1, <2>2, <2>3, <2>4, <2>5
<1>12. \A b \in ToSet(fn.ipost) : b \in Blocks(fn)
  <2>1. PICK B : B = Blocks(fn)
    OBVIOUS
  <2>2. fn.ipost \in Seq(B)
    BY <1>7, <2>1 DEF IsSplit
  <2>. QED  BY <2>1, <2>2 DEF ToSet
<1>13. IsFunction(new, after)
  <2>1. new.layout \in Seq(Blocks(new)) /\ new.layout # <<>>
    BY <1>7, <1>9, <1>10 DEF IsSplit
  <2>2. \A blocks \in {new.post, new.ipost} : blocks \in Seq(Blocks(new)) /\ IsInjective(blocks)
    BY <1>7, <1>9, <1>10 DEF IsSplit
  <2>3. \A b \in Blocks(new) :
          /\ new.code[b] \in Seq(ToSet(new.code[b])) /\ new.code[b] # <<>>
          /\ \A i \in ToSet(new.code[b]) : IsInstruction(i, after)
          /\ new.succ[b] \in Seq(Blocks(new))
    BY <1>9, <1>10, <1>11
  <2>4. \A b \in ToSet(new.ipost) : SplitBlock(new.code[b])
    BY <1>9, <1>11, <1>12
  <2>. QED  BY <2>1, <2>2, <2>3, <2>4 DEF IsFunction
<1>. QED  BY <1>2, <1>8, <1>13

(* Splitting and SLIM make of any module LLVM hands over a program that is as *)
(* the analysis needs it: above all, no part of a block before a return holds *)
(* a second call, or anything but builtins and the call's own assignments.   *)
THEOREM SplitRight ==
  ASSUME NEW prog, IsSource(prog)
  PROVE  IsProgram(Translated(startSplitting(prog)))
<1>1. PICK split : split = startSplitting(prog)
  OBVIOUS
<1>2. DOMAIN split = DOMAIN prog /\ \A f \in DOMAIN prog : split[f] = performSplittingBB(prog[f])
  BY <1>1 DEF startSplitting
<1>3. \A i : IsInstruction(i, split) <=> IsInstruction(i, prog)
  BY <1>2 DEF IsInstruction
<1>4. \A code : IsPart(code, split) <=> IsPart(code, prog)
  BY <1>3 DEF IsPart
<1>5. ASSUME NEW f \in DOMAIN split
      PROVE  IsSplit(split[f], split)
  <2>1. WellFormed(prog[f], prog)
    BY <1>2 DEF IsSource
  <2>2. IsSplit(split[f], prog)
    BY <1>2, <2>1, SplittingLemma
  <2>. QED  BY <1>4, <2>2 DEF IsSplit
<1>6. \A f \in DOMAIN split : IsFunction(Translated(split)[f], Translated(split))
  BY <1>5, TranslatedLemma DEF AllSplit
<1>7. DOMAIN Translated(split) = DOMAIN split
  BY DEF Translated
<1>. QED  BY <1>1, <1>2, <1>6, <1>7 DEF IsProgram, IsSource

LEMMA ProgramsAnalysed == \A p \in Programs : IsProgram(Analysed(p))
  BY ProgramsGiven, SplitRight DEF Analysed

-----------------------------------------------------------------------------
(* Programs *)

LEMMA PositionLemma ==
  ASSUME ProgramOK, NEW f \in DOMAIN program, NEW b \in Blocks(program[f])
  PROVE  /\ Len(Code(f, b)) \in Nat \ {0}
         /\ DOMAIN Code(f, b) = 1 .. Len(Code(f, b))
         /\ \A i \in 1 .. Len(Code(f, b)) :
              /\ <<f, b, i>> \in Instructions
              /\ IsInstruction(CodeAt(<<f, b, i>>), program)
              /\ CodeAt(<<f, b, i>>) = Code(f, b)[i]
<1>1. /\ Code(f, b) \in Seq(ToSet(Code(f, b))) /\ Code(f, b) # <<>>
      /\ \A i \in ToSet(Code(f, b)) : IsInstruction(i, program)
  BY DEF ProgramOK, IsProgram, IsFunction, Code
<1>2. Len(Code(f, b)) \in Nat \ {0} /\ DOMAIN Code(f, b) = 1 .. Len(Code(f, b))
  BY <1>1
<1>3. ASSUME NEW i \in 1 .. Len(Code(f, b))
      PROVE  /\ <<f, b, i>> \in Instructions
             /\ IsInstruction(CodeAt(<<f, b, i>>), program)
             /\ CodeAt(<<f, b, i>>) = Code(f, b)[i]
  <2>1. i \in DOMAIN Code(f, b)
    BY <1>2
  <2>2. <<f, b, i>> \in {<<f, b, n>> : n \in DOMAIN program[f].code[b]}
    BY <2>1 DEF Code
  <2>3. <<f, b, i>> \in InstructionsOf(f)
    BY <2>2 DEF InstructionsOf
  <2>4. CodeAt(<<f, b, i>>) = Code(f, b)[i]
    BY DEF CodeAt
  <2>5. Code(f, b)[i] \in ToSet(Code(f, b))
    BY <2>1 DEF ToSet
  <2>. QED  BY <1>1, <2>3, <2>4, <2>5 DEF Instructions
<1>. QED  BY <1>2, <1>3

LEMMA InstructionLemma ==
  ASSUME ProgramOK, NEW x \in Instructions
  PROVE  /\ x = <<x[1], x[2], x[3]>>
         /\ x[1] \in DOMAIN program /\ x[2] \in Blocks(program[x[1]])
         /\ x[3] \in 1 .. Len(Code(x[1], x[2]))
         /\ IsInstruction(CodeAt(x), program)
<1>1. PICK f \in DOMAIN program : x \in InstructionsOf(f)
  BY DEF Instructions
<1>2. PICK b \in Blocks(program[f]) : x \in {<<f, b, i>> : i \in DOMAIN Code(f, b)}
  BY <1>1 DEF InstructionsOf, Code
<1>3. PICK i \in DOMAIN Code(f, b) : x = <<f, b, i>>
  BY <1>2
<1>4. x = <<x[1], x[2], x[3]>> /\ x[1] = f /\ x[2] = b /\ x[3] = i
  BY <1>3
<1>5. i \in 1 .. Len(Code(f, b)) /\ IsInstruction(CodeAt(x), program)
  BY <1>3, PositionLemma
<1>. QED  BY <1>4, <1>5

LEMMA InterfaceLemma ==
  ASSUME ProgramOK
  PROVE  /\ Interface \subseteq Variable
         /\ Global \subseteq Interface /\ Formal \subseteq Interface
         /\ \A i \in Instructions : CodeAt(i).op = "ret" =>
              {CodeAt(i).rhs} \ {""} \subseteq Interface
         /\ \A f \in DOMAIN program : ReturnOperand(program[f]) \subseteq Interface
<1>1. \A i \in Instructions : CodeAt(i).op = "ret" => CodeAt(i).rhs \in Variable \cup {""}
  BY InstructionLemma DEF IsInstruction
<1>2. Interface \subseteq Variable
  BY <1>1, OperandsDiffer DEF Interface, Variable
<1>3. /\ Global \subseteq Interface /\ Formal \subseteq Interface
      /\ \A i \in Instructions : CodeAt(i).op = "ret" =>
           {CodeAt(i).rhs} \ {""} \subseteq Interface
  BY DEF Interface
<1>4. ASSUME NEW f \in DOMAIN program
      PROVE  ReturnOperand(program[f]) \subseteq Interface
  <2>. SUFFICES ASSUME NEW b \in getLastBasicBlock(program[f])
                PROVE  {Last(Code(f, b)).rhs} \ {""} \subseteq Interface
    BY DEF ReturnOperand, Code
  <2>1. b \in Blocks(program[f]) /\ Last(Code(f, b)).op = "ret"
    BY DEF getLastBasicBlock, Blocks, ToSet, Code
  <2>2. /\ Len(Code(f, b)) \in Nat \ {0}
        /\ <<f, b, Len(Code(f, b))>> \in Instructions
        /\ CodeAt(<<f, b, Len(Code(f, b))>>) = Last(Code(f, b))
    BY <2>1, PositionLemma DEF Last
  <2>. QED  BY <1>3, <2>1, <2>2
<1>. QED  BY <1>2, <1>3, <1>4

(* The blocks of a function are finitely many, and so are the calls of a    *)
(* context that were recorded.                                              *)
LEMMA BlocksLemma ==
  ASSUME ProgramOK, NEW f \in DOMAIN program
  PROVE  /\ IsFiniteSet(Blocks(program[f]))
         /\ Blocks(program[f]) \subseteq AllBlocks
         /\ Entry(program[f]) \in Blocks(program[f])
         /\ Back(program[f]) \in Blocks(program[f])
         /\ program[f].post \in Seq(Blocks(program[f])) /\ IsInjective(program[f].post)
         /\ program[f].ipost \in Seq(Blocks(program[f])) /\ IsInjective(program[f].ipost)
         /\ \A b \in Blocks(program[f]) :
              /\ program[f].succ[b] \in Seq(Blocks(program[f]))
              /\ ToSet(program[f].succ[b]) \subseteq Blocks(program[f])
<1> DEFINE fn == program[f]
           n == Len(fn.layout)
<1>1. IsFunction(fn, program)
  BY DEF ProgramOK, IsProgram
<1>2. fn.layout \in Seq(Blocks(fn)) /\ fn.layout # <<>> /\ n \in Nat \ {0}
  BY <1>1 DEF IsFunction
<1>3. fn.layout \in Surjection(1 .. n, Blocks(fn))
  BY <1>2 DEF Surjection, Blocks, ToSet
<1>4. IsFiniteSet(Blocks(fn))
  BY <1>2, <1>3, FS_Interval, FS_Surjection
<1>5. Entry(fn) \in Blocks(fn) /\ Back(fn) \in Blocks(fn)
  BY <1>2 DEF Entry, Back
<1>6. /\ fn.post \in Seq(Blocks(fn)) /\ IsInjective(fn.post)
      /\ fn.ipost \in Seq(Blocks(fn)) /\ IsInjective(fn.ipost)
      /\ \A b \in Blocks(fn) : fn.succ[b] \in Seq(Blocks(fn))
  BY <1>1 DEF IsFunction
<1>7. \A b \in Blocks(fn) : ToSet(fn.succ[b]) \subseteq Blocks(fn)
  BY <1>6 DEF ToSet
<1>. QED  BY <1>4, <1>5, <1>6, <1>7 DEF AllBlocks

-----------------------------------------------------------------------------
(* The flow functions give values of the analysis *)

LEMMA RestrictionLemma ==
  ASSUME NEW P \in Pointers, NEW Q \in Pointers, NEW L
  PROVE  /\ restrictByLivness(P, L) \in Pointers
         /\ performMeetForward(P, Q, L) \in Pointers
         /\ PurelyLocalForward(P, L) \in Pointers
BY DEF restrictByLivness, performMeetForward, PurelyLocalForward, Pointers

LEMMA PointeesLemma ==
  ASSUME NEW P \in Pointers, NEW x
  PROVE  /\ Pointees(P, x) \subseteq Global \cup {Unknown}
         /\ Pointees(P, x) \ {Unknown} \subseteq Variable
<1>1. Pointees(P, x) \subseteq Global \cup {Unknown}
  BY DEF Pointees, Pointers, Pairs
<1>. QED  BY <1>1 DEF Variable

LEMMA BackwardFlow ==
  ASSUME NEW i, IsInstruction(i, program), i.op # "call",
         NEW L \in SUBSET Variable, NEW P \in Pointers
  PROVE  computeInFromOut(i, L, P) \in SUBSET Variable
<1>1. ASSUME NEW M \in SUBSET Variable,
             i.op \in {"addr", "alloc", "copy", "store", "phi", "load"}
      PROVE  insertRhsLin(i, M, P) \in SUBSET Variable
  <2>1. Pointees(P, i.rhs) \ {Unknown} \subseteq Variable
    BY PointeesLemma
  <2>2. CASE i.op \in {"addr", "alloc"}
    BY <2>2 DEF insertRhsLin
  <2>3. CASE i.op \in {"copy", "store"}
    BY <2>3 DEF insertRhsLin, IsInstruction
  <2>4. CASE i.op = "phi"
    <3>1. PhiOperands(i) \subseteq Variable
      BY <2>4 DEF PhiOperands, IsInstruction, Variable
    <3>. QED  BY <2>4, <3>1 DEF insertRhsLin
  <2>5. CASE i.op = "load"
    <3>1. i.rhs \in Variable
      BY <2>5 DEF IsInstruction
    <3>. QED  BY <2>1, <2>5, <3>1 DEF insertRhsLin
  <2>. QED  BY <1>1, <2>2, <2>3, <2>4, <2>5
<1>2. CASE i.op \in Direct
  <2>1. L \ {i.lhs} \in SUBSET Variable
    OBVIOUS
  <2>2. insertRhsLin(i, L \ {i.lhs}, P) \in SUBSET Variable
    BY <1>1, <1>2, <2>1 DEF Direct
  <2>3. computeInFromOut(i, L, P) = DirectIn(i, L, P)
    BY <1>2 DEF computeInFromOut, Direct
  <2>. QED  BY <2>2, <2>3 DEF DirectIn
<1>3. CASE i.op = "store"
  <2>1. i.lhs \in Variable
    BY <1>3 DEF IsInstruction
  <2> DEFINE to == Pointees(P, i.lhs)
             kill == IF Cardinality(to) = 1 THEN to ELSE {}
  <2>2. (L \cup {i.lhs}) \ kill \in SUBSET Variable
    BY <2>1
  <2>3. insertRhsLin(i, (L \cup {i.lhs}) \ kill, P) \in SUBSET Variable
    <3>. HIDE DEF kill
    <3>. QED  BY <1>1, <1>3, <2>2
  <2>4. computeInFromOut(i, L, P) = StoreIn(i, L, P)
    BY <1>3 DEF computeInFromOut, Direct
  <2>5. StoreIn(i, L, P) = IF i.lhs \in Alloca THEN L ELSE IF to = {} THEN {i.lhs}
                           ELSE IF to \cap L = {} THEN L \cup {i.lhs}
                           ELSE insertRhsLin(i, (L \cup {i.lhs}) \ kill, P)
    BY DEF StoreIn
  <2>. HIDE DEF to, kill
  <2>. QED  BY <2>1, <2>3, <2>4, <2>5
<1>4. CASE i.op \in {"use", "ret"}
  BY <1>4 DEF computeInFromOut, Direct, IsInstruction
<1>5. CASE i.op \in {"br", "exit", "unreachable"}
  BY <1>5 DEF computeInFromOut, Direct
<1>. QED  BY <1>2, <1>3, <1>4, <1>5 DEF IsInstruction, Direct

LEMMA ForwardFlow ==
  ASSUME NEW i, IsInstruction(i, program), i.op \notin {"call", "exit", "unreachable"},
         NEW O \in Pointers, NEW P \in Pointers, NEW L \in SUBSET Variable
  PROVE  computeOutFromIn(i, O, P, L) \in Pointers
<1> DEFINE R == RhsPointees(i, P)
           to == Pointees(P, i.lhs)
           known == to \ {Unknown}
           next == CASE i.op \in {"br", "ret", "use"} -> P
                     [] i.op \in Direct  -> DirectOut(i, P, L, R)
                     [] i.op = "store" -> IF R = {} THEN P ELSE StoreOut(i, P, R)
<1>1. ASSUME i.op \in Direct \cup {"store"}
      PROVE  R \subseteq Global \cup {Unknown}
  <2>1. \A x : Pointees(P, x) \subseteq Global \cup {Unknown}
    BY PointeesLemma
  <2>2. CASE i.op \in {"addr", "alloc"}
    BY <2>2 DEF RhsPointees, IsInstruction
  <2>3. CASE i.op \in {"copy", "store"}
    BY <2>1, <2>3 DEF RhsPointees
  <2>4. CASE i.op = "phi"
    BY <2>1, <2>4 DEF RhsPointees
  <2>5. CASE i.op = "load"
    BY <2>1, <2>5 DEF RhsPointees
  <2>. QED  BY <1>1, <2>2, <2>3, <2>4, <2>5 DEF Direct
<1>. HIDE DEF R
<1>2. next \in Pointers
  <2>1. CASE i.op \in {"br", "ret", "use"}
    <3>1. next = P
      BY <2>1 DEF Direct
    <3>. QED  BY <3>1
  <2>2. CASE i.op \in Direct
    <3>1. i.lhs \in Variable
      BY <2>2 DEF Direct, IsInstruction, Variable
    <3>2. next = DirectOut(i, P, L, R)
      BY <2>2 DEF Direct
    <3>3. From(i.lhs, R) \subseteq Pairs
      BY <1>1, <2>2, <3>1 DEF From, Pairs
    <3>4. DirectOut(i, P, L, R) \in Pointers
      BY <3>3 DEF DirectOut, Without, Pointers
    <3>. QED  BY <3>2, <3>4
  <2>3. CASE i.op = "store"
    <3>1. next = IF R = {} THEN P ELSE StoreOut(i, P, R)
      BY <2>3 DEF Direct
    <3>2. known \subseteq Variable
      BY PointeesLemma
    <3>3. known \X R \subseteq Pairs
      BY <1>1, <2>3, <3>2 DEF Pairs
    <3>4. StoreOut(i, P, R) =
            IF Cardinality(to) = 1 THEN {p \in P : p[1] \notin known} \cup (known \X R)
            ELSE P \cup (known \X R)
      BY DEF StoreOut
    <3>. HIDE DEF known
    <3>. QED  BY <3>1, <3>3, <3>4 DEF Pointers
  <2>. QED  BY <2>1, <2>2, <2>3 DEF IsInstruction, Direct
<1>3. computeOutFromIn(i, O, P, L) = restrictByLivness(O \cup next, L)
  BY DEF computeOutFromIn, R
<1>. HIDE DEF next
<1>4. O \cup next \in Pointers
  BY <1>2 DEF Pointers
<1>. QED  BY <1>3, <1>4, RestrictionLemma

LEMMA CallFlow ==
  ASSUME NEW call, NEW P \in Pointers, NEW L \in SUBSET Variable,
         NEW G, G \cup Formal \subseteq Interface, NEW R \in SUBSET Interface
  PROVE  /\ CallInflow(call, P, L, G, R) \in Values(Interface)
         /\ CallerLocal(call, L, G, R) \in SUBSET Variable
<1>1. restrictByLivness(P, G \cup Formal) \in SUBSET (Interface \X (Global \cup {Unknown}))
  BY DEF restrictByLivness, Pointers, Pairs
<1>. QED
  BY <1>1 DEF CallInflow, CallerLocal, PurelyLocal, PurelyGlobal, Values

-----------------------------------------------------------------------------
(* Steps *)

LEMMA GrowsLemma ==
  ASSUME Typed, Grows
  PROVE  /\ Instructions' = Instructions /\ AllBlocks' = AllBlocks
         /\ Interface' = Interface
         /\ \A x : CodeAt(x)' = CodeAt(x)
         /\ \A f, b : Code(f, b)' = Code(f, b)
         /\ \A l \in Labels : FunctionOf(l)' = FunctionOf(l)
         /\ Pending \subseteq Pending'
         /\ ProgramOK'
         /\ \A w \in Seq(Pending) : w \in Seq(Pending')
<1>1. program' = program
  BY DEF Grows
<1>2. Instructions' = Instructions /\ AllBlocks' = AllBlocks
  BY <1>1 DEF Instructions, InstructionsOf, AllBlocks
<1>3. /\ \A f, b : Code(f, b)' = Code(f, b)
      /\ \A x : CodeAt(x)' = CodeAt(x)
  BY <1>1 DEF Code, CodeAt
<1>4. Interface' = Interface
  BY <1>2, <1>3 DEF Interface
<1>5. \A l \in Labels : l \in Labels' /\ FunctionOf(l)' = FunctionOf(l)
  BY DEF Grows, FunctionOf
<1>6. Pending \subseteq Pending'
  BY <1>1, <1>2, <1>5 DEF Pending
<1>7. ProgramOK'
  BY <1>1 DEF Typed, ProgramOK
<1>8. ASSUME NEW w \in Seq(Pending) PROVE w \in Seq(Pending')
  <2>1. Len(w) \in Nat /\ w = [i \in 1 .. Len(w) |-> w[i]] /\ \A i \in 1 .. Len(w) : w[i] \in Pending
    OBVIOUS
  <2>. QED  BY <1>6, <2>1
<1>. QED  BY <1>2, <1>3, <1>4, <1>5, <1>6, <1>7, <1>8

LEMMA ContextsLater ==
  ASSUME Typed, program' = program, contexts' \in [Labels -> ContextRecord],
         \A l \in Labels : /\ contexts'[l].function = contexts[l].function
                           /\ contexts'[l].inflow = contexts[l].inflow
                           /\ contexts'[l].source = contexts[l].source
  PROVE  Grows /\ ContextsOK' /\ Labels' = Labels
<1>1. Labels' = Labels
  BY DEF Labels
<1>2. Grows
  BY <1>1 DEF Grows
<1>3. \A l \in Labels : FunctionOf(l)' = FunctionOf(l)
  BY DEF FunctionOf
<1>4. ContextRecord' = ContextRecord
  BY <1>2, GrowsLemma DEF ContextRecord, Values
<1>5. /\ Cardinality(Labels) \in Nat \ {0} /\ Labels = 0 .. Cardinality(Labels) - 1
      /\ \A l \in Labels : contexts[l].source # None =>
           /\ contexts[l].source \in 0 .. l - 1
           /\ FunctionOf(contexts[l].source) = FunctionOf(l)
  BY DEF Typed, ContextsOK
<1>6. ASSUME NEW l \in Labels, contexts'[l].source # None
      PROVE  /\ contexts'[l].source \in 0 .. l - 1
             /\ contexts'[contexts'[l].source].function = contexts'[l].function
  <2>1. /\ contexts[l].source \in 0 .. l - 1 /\ contexts'[l].source = contexts[l].source
        /\ contexts[contexts[l].source].function = contexts[l].function
    BY <1>5, <1>6 DEF FunctionOf
  <2>2. contexts[l].source \in Labels
    BY <1>5, <2>1
  <2>. QED  BY <2>1, <2>2
<1>7. /\ Cardinality(Labels') \in Nat \ {0}
      /\ Labels' = 0 .. Cardinality(Labels') - 1
  BY <1>1, <1>5
<1>8. contexts' \in [Labels' -> ContextRecord']
  BY <1>1, <1>4
<1>9. ContextsOK' = (/\ Cardinality(Labels') \in Nat \ {0}
                     /\ Labels' = 0 .. Cardinality(Labels') - 1
                     /\ contexts' \in [Labels' -> ContextRecord']
                     /\ \A l \in Labels' : contexts'[l].source # None =>
                          /\ contexts'[l].source \in 0 .. l - 1
                          /\ contexts'[contexts'[l].source].function = contexts'[l].function)
  BY DEF ContextsOK, FunctionOf
<1>. QED  BY <1>1, <1>2, <1>6, <1>7, <1>8, <1>9

LEMMA TypedLater ==
  ASSUME Typed, Grows, ContextsOK', ValuesOK', GraphOK', WorklistsOK', WorkOK',
         marked' \subseteq Interface, processing' \in Labels',
         direction' \in {"forward", "backward"}
  PROVE  Typed'
BY GrowsLemma DEF Typed, RestOK

LEMMA GraphLater ==
  ASSUME Typed, Grows
  PROVE  /\ graph' = graph => GraphOK'
         /\ \A l \in Labels, c \in Instructions, to \in Labels' :
              /\ FunctionOf(l) = c[1] /\ CodeAt(c).op = "call"
              /\ CodeAt(c).rhs = FunctionOf(to)'
              /\ graph' = Put(graph, <<l, c>>, to)
              => GraphOK'
<1>1. /\ IsFiniteSet(DOMAIN graph)
      /\ \A e \in DOMAIN graph : IsEdge(e, graph[e])
  BY DEF Typed, GraphOK
<1>2. /\ Instructions' = Instructions /\ Labels \subseteq Labels'
      /\ \A x : CodeAt(x)' = CodeAt(x)
      /\ \A l \in Labels : FunctionOf(l)' = FunctionOf(l)
  BY GrowsLemma DEF Grows
<1>3. ASSUME NEW e, NEW to, IsEdge(e, to) PROVE IsEdge(e, to)'
  BY <1>2, <1>3 DEF IsEdge
<1>4. ASSUME graph' = graph PROVE GraphOK'
  BY <1>1, <1>3, <1>4 DEF GraphOK
<1>5. ASSUME NEW l \in Labels, NEW c \in Instructions, NEW to \in Labels',
             FunctionOf(l) = c[1], CodeAt(c).op = "call",
             CodeAt(c).rhs = FunctionOf(to)',
             graph' = Put(graph, <<l, c>>, to)
      PROVE  GraphOK'
  <2>1. IsEdge(<<l, c>>, to)'
    BY <1>2, <1>5 DEF IsEdge
  <2>2. /\ DOMAIN graph' = DOMAIN graph \cup {<<l, c>>}
        /\ \A e \in DOMAIN graph' : \/ e = <<l, c>> /\ graph'[e] = to
                                    \/ e \in DOMAIN graph /\ graph'[e] = graph[e]
    BY <1>5 DEF Put
  <2>3. IsFiniteSet(DOMAIN graph')
    BY <1>1, <2>2, FS_AddElement
  <2>4. ASSUME NEW e \in DOMAIN graph' PROVE IsEdge(e, graph[e])'
    <3>1. CASE e = <<l, c>> /\ graph'[e] = to
      BY <2>1, <3>1
    <3>2. CASE e \in DOMAIN graph /\ graph'[e] = graph[e]
      BY <1>1, <1>3, <3>2
    <3>. QED  BY <2>2, <3>1, <3>2
  <2>. QED  BY <2>3, <2>4 DEF GraphOK
<1>. QED  BY <1>4, <1>5

LEMMA StackLater ==
  ASSUME Typed, Grows
  PROVE  \A w : Stack(w) => w \in Seq(Pending') /\ IsInjective(w)
BY GrowsLemma DEF Stack

LEMMA TopLemma ==
  ASSUME NEW S, NEW w \in Seq(S), w # <<>>
  PROVE  /\ Last(w) \in S /\ Front(w) \in Seq(S)
         /\ ToSet(w) = ToSet(Front(w)) \cup {Last(w)}
         /\ IsInjective(w) => IsInjective(Front(w))
<1> DEFINE n == Len(w)
<1>1. n \in Nat \ {0} /\ DOMAIN w = 1 .. n /\ \A i \in 1 .. n : w[i] \in S
  OBVIOUS
<1>2. /\ Front(w) \in Seq(S) /\ DOMAIN Front(w) = 1 .. n - 1
      /\ \A i \in 1 .. n - 1 : Front(w)[i] = w[i]
  BY <1>1 DEF Front
<1>3. Last(w) = w[n] /\ n \in 1 .. n
  BY <1>1 DEF Last
<1>. HIDE DEF n
<1>4. \A i \in 1 .. n : i \in 1 .. n - 1 \/ i = n
  BY <1>1
<1>5. \A i \in 1 .. n - 1 : i \in 1 .. n
  BY <1>1
<1>6. ToSet(w) = ToSet(Front(w)) \cup {Last(w)}
  BY <1>1, <1>2, <1>3, <1>4, <1>5 DEF ToSet
<1>7. IsInjective(w) => IsInjective(Front(w))
  BY <1>1, <1>2, <1>5 DEF IsInjective
<1>. QED  BY <1>1, <1>2, <1>3, <1>6, <1>7

(* What is written at an instruction.                                       *)
LEMMA WriteLemma ==
  ASSUME NEW I \in Value, NEW l \in Labels, NEW i \in Instructions
  PROVE  /\ \A v \in SUBSET Variable : [I EXCEPT ![l][i].b = v] \in Value
         /\ \A v \in Pointers : [I EXCEPT ![l][i].f = v] \in Value
         /\ I[l][i].b \in SUBSET Variable /\ I[l][i].f \in Pointers
         /\ I[l][i] \in Values(Variable)
BY DEF Value, Values, Pointers, Pairs

LEMMA SetAtLemma ==
  ASSUME NEW I \in Value, processing \in Labels, NEW i \in Instructions
  PROVE  /\ \A v \in SUBSET Variable : SetAt(I, i, "b", v) \in Value
         /\ \A v \in Pointers : SetAt(I, i, "f", v) \in Value
BY DEF SetAt, Value, Values, Pointers, Pairs

LEMMA WorkLater ==
  ASSUME Typed, Grows, work' # NoBlock => WorkIn(work', direction')
  PROVE  WorkOK'
<1>1. ASSUME NEW w, NEW way, WorkIn(w, way) PROVE WorkIn(w, way)'
  <2>1. /\ program' = program /\ AllBlocks' = AllBlocks
        /\ Labels \subseteq Labels'
        /\ \A f, b : Code(f, b)' = Code(f, b)
        /\ \A l \in Labels : FunctionOf(l)' = FunctionOf(l)
    BY GrowsLemma DEF Grows
  <2>2. w \in WorkRecord /\ w.label \in Labels /\ w \in WorkRecord'
    BY <1>1, <2>1 DEF WorkIn, WorkRecord
  <2>3. FunctionOf(w.label)' = FunctionOf(w.label)
    BY <2>1, <2>2
  <2>4. Blocks(program[FunctionOf(w.label)])' = Blocks(program[FunctionOf(w.label)])
    BY <2>1, <2>3
  <2>5. Len(Code(FunctionOf(w.label), w.bb))' = Len(Code(FunctionOf(w.label), w.bb))
    BY <2>1, <2>3
  <2>. QED  BY <1>1, <2>2, <2>4, <2>5 DEF WorkIn
<1>2. WorkIn(work', direction') => WorkIn(work, direction)'
  BY <1>1
<1>3. WorkOK' = (work' # NoBlock => WorkIn(work, direction)')
  BY DEF WorkOK, Busy, NoBlock
<1>. QED  BY <1>2, <1>3

LEMMA ThisLemma ==
  ASSUME Typed, work # NoBlock
  PROVE  /\ WorkIn(work, direction)
         /\ work.label \in Labels /\ work.bb \in AllBlocks /\ work.done \in BOOLEAN
         /\ FunctionOf(work.label) \in DOMAIN program
         /\ work.bb \in Blocks(program[FunctionOf(work.label)])
         /\ FirstIns(FunctionOf(work.label), work.bb) \in Instructions
         /\ LastIns(FunctionOf(work.label), work.bb) \in Instructions
         /\ Len(Code(FunctionOf(work.label), work.bb)) \in Nat \ {0}
         /\ Pair \in Pending /\ PairDone \in Pending
         /\ work.i \in 1 .. Len(Code(FunctionOf(work.label), work.bb)) =>
              /\ This \in Instructions /\ IsInstruction(At, program)
              /\ This[1] = FunctionOf(work.label) /\ At = CodeAt(This)
<1>1. /\ WorkIn(work, direction) /\ ProgramOK
      /\ contexts \in [Labels -> ContextRecord]
  BY DEF Typed, WorkOK, Busy, ContextsOK
<1>2. /\ work.label \in Labels /\ work.bb \in AllBlocks /\ work.done \in BOOLEAN
      /\ work.bb \in Blocks(program[FunctionOf(work.label)])
  BY <1>1 DEF WorkIn, WorkRecord
<1>3. FunctionOf(work.label) \in DOMAIN program
  BY <1>1, <1>2 DEF FunctionOf, ContextRecord
<1>4. /\ Len(Code(FunctionOf(work.label), work.bb)) \in Nat \ {0}
      /\ FirstIns(FunctionOf(work.label), work.bb) \in Instructions
      /\ LastIns(FunctionOf(work.label), work.bb) \in Instructions
  BY <1>1, <1>2, <1>3, PositionLemma DEF FirstIns, LastIns
<1>5. Pair \in Pending /\ PairDone \in Pending
  BY <1>2 DEF Pending, Pair, PairDone, Element
<1>6. ASSUME work.i \in 1 .. Len(Code(FunctionOf(work.label), work.bb))
      PROVE  /\ This \in Instructions /\ IsInstruction(At, program)
             /\ This[1] = FunctionOf(work.label) /\ At = CodeAt(This)
  BY <1>1, <1>2, <1>3, <1>6, PositionLemma DEF This, At
<1>. QED  BY <1>1, <1>2, <1>3, <1>4, <1>5, <1>6

(* An element of a worklist is a block of its context's function.            *)
LEMMA ElementLemma ==
  ASSUME Typed, NEW e \in Pending
  PROVE  /\ e.label \in Labels /\ e.bb \in AllBlocks /\ e.done \in BOOLEAN
         /\ FunctionOf(e.label) \in DOMAIN program
         /\ e.bb \in Blocks(program[FunctionOf(e.label)])
         /\ FirstIns(FunctionOf(e.label), e.bb) \in Instructions
         /\ LastIns(FunctionOf(e.label), e.bb) \in Instructions
         /\ Len(Code(FunctionOf(e.label), e.bb)) \in Nat \ {0}
         /\ \A i \in 0 .. Len(Code(FunctionOf(e.label), e.bb)), prev \in SUBSET Variable :
              WorkIn(Working(e, i, prev), "backward")
         /\ \A i \in 1 .. Len(Code(FunctionOf(e.label), e.bb)) + 1, prev \in Pointers :
              WorkIn(Working(e, i, prev), "forward")
<1> DEFINE f == FunctionOf(e.label)
           n == Len(Code(f, e.bb))
<1>1. ProgramOK /\ contexts \in [Labels -> ContextRecord] /\ ValuesOK
  BY DEF Typed, ContextsOK
<1>2. /\ e.label \in Labels /\ e.bb \in AllBlocks /\ e.done \in BOOLEAN
      /\ e.bb \in Blocks(program[f])
  BY DEF Pending
<1>3. f \in DOMAIN program
  BY <1>1, <1>2 DEF FunctionOf, ContextRecord
<1>4. n \in Nat \ {0} /\ FirstIns(f, e.bb) \in Instructions /\ LastIns(f, e.bb) \in Instructions
  BY <1>1, <1>2, <1>3, PositionLemma DEF FirstIns, LastIns
<1>5. /\ SLIM_IN[e.label][FirstIns(f, e.bb)] \in Values(Variable)
      /\ SLIM_OUT[e.label][LastIns(f, e.bb)] \in Values(Variable)
  BY <1>1, <1>2, <1>4, WriteLemma DEF ValuesOK
<1>. HIDE DEF f, n
<1>6. ASSUME NEW i \in Nat, NEW prev \in (SUBSET Variable) \cup Pointers
      PROVE  /\ Working(e, i, prev) \in WorkRecord
             /\ Working(e, i, prev).label = e.label /\ Working(e, i, prev).bb = e.bb
             /\ Working(e, i, prev).i = i /\ Working(e, i, prev).prev = prev
  BY <1>2, <1>5 DEF Working, WorkRecord, f
<1>7. ASSUME NEW i \in 0 .. n, NEW prev \in SUBSET Variable
      PROVE  WorkIn(Working(e, i, prev), "backward")
  <2>1. i \in Nat
    BY <1>4
  <2>. QED  BY <1>2, <1>6, <2>1 DEF WorkIn, f, n
<1>8. ASSUME NEW i \in 1 .. n + 1, NEW prev \in Pointers
      PROVE  WorkIn(Working(e, i, prev), "forward")
  <2>1. i \in Nat
    BY <1>4
  <2>. QED  BY <1>2, <1>6, <2>1 DEF WorkIn, f, n
<1>. QED  BY <1>2, <1>3, <1>4, <1>7, <1>8 DEF f, n

LEMMA SameContexts ==
  ASSUME Typed, UNCHANGED <<program, contexts>>
  PROVE  Grows /\ ContextsOK' /\ Labels' = Labels
BY ContextsLater DEF Typed, ContextsOK

LEMMA BackwardBlockTyped ==
  ASSUME Typed, BackwardBlock
  PROVE  Typed' /\ Grows
<1> DEFINE e    == Last(backward_worklist)
           f    == FunctionOf(e.label)
           next == ToSet(program[f].succ[e.bb])
           out  == IF IsExit(f, e.bb) THEN SLIM_OUT[e.label][LastIns(f, e.bb)].b
                   ELSE IF ~IsLast(f, e.bb)
                   THEN UNION {SLIM_IN[e.label][FirstIns(f, s)].b : s \in next}
                   ELSE IF f = "main" THEN {} ELSE contexts[e.label].inflow.b
<1>1. /\ backward_worklist # <<>> /\ direction = "backward"
      /\ backward_worklist' = Front(backward_worklist)
      /\ processing' = e.label
      /\ SLIM_OUT' = [SLIM_OUT EXCEPT ![e.label][LastIns(f, e.bb)].b = out]
      /\ SLIM_IN' = IF IsExit(f, e.bb)
                    THEN [SLIM_IN EXCEPT ![e.label][FirstIns(f, e.bb)].b = out]
                    ELSE SLIM_IN
      /\ work' = Working(e, Len(Code(f, e.bb)), out)
      /\ UNCHANGED <<program, marked, contexts, graph, forward_worklist, direction>>
  BY DEF BackwardBlock
<1>2. /\ ProgramOK /\ contexts \in [Labels -> ContextRecord] /\ ValuesOK
      /\ Stack(backward_worklist) /\ Stack(forward_worklist)
      /\ marked \subseteq Interface
  BY DEF Typed, ContextsOK, WorklistsOK, RestOK
<1>3. Grows /\ ContextsOK' /\ Labels' = Labels
  BY <1>1, SameContexts
<1>4. e \in Pending /\ Stack(Front(backward_worklist))
  BY <1>1, <1>2, TopLemma DEF Stack
<1>. HIDE DEF e
<1>5. /\ e.label \in Labels /\ f \in DOMAIN program /\ e.bb \in Blocks(program[f])
      /\ FirstIns(f, e.bb) \in Instructions /\ LastIns(f, e.bb) \in Instructions
      /\ Len(Code(f, e.bb)) \in Nat \ {0}
  BY <1>4, ElementLemma
<1>. HIDE DEF f
<1>6. next \subseteq Blocks(program[f])
  BY <1>2, <1>5, BlocksLemma
<1>7. out \in SUBSET Variable
  <2>1. SLIM_OUT[e.label][LastIns(f, e.bb)].b \in SUBSET Variable
    BY <1>2, <1>5, WriteLemma DEF ValuesOK
  <2>2. \A s \in next : SLIM_IN[e.label][FirstIns(f, s)].b \in SUBSET Variable
    <3>1. \A s \in next : FirstIns(f, s) \in Instructions
      BY <1>2, <1>5, <1>6, PositionLemma DEF FirstIns
    <3>. QED  BY <1>2, <1>5, <3>1, WriteLemma DEF ValuesOK
  <2>3. contexts[e.label].inflow.b \in SUBSET Variable
    BY <1>2, <1>5, InterfaceLemma DEF ContextRecord, Values
  <2>. HIDE DEF next
  <2>. QED  BY <2>1, <2>2, <2>3
<1>. HIDE DEF out
<1>8. WorkIn(Working(e, Len(Code(f, e.bb)), out), "backward")
  <2>1. Len(Code(f, e.bb)) \in 0 .. Len(Code(f, e.bb))
    BY <1>5
  <2>. QED  BY <1>4, <1>7, <2>1, ElementLemma DEF f
<1>9. WorkOK'
  BY <1>1, <1>3, <1>8, WorkLater
<1>10. ValuesOK'
  <2>1. SLIM_IN' \in Value /\ SLIM_OUT' \in Value
    BY <1>1, <1>2, <1>5, <1>7, WriteLemma DEF ValuesOK
  <2>2. Value' = Value
    BY <1>3, GrowsLemma DEF Value, Values
  <2>. QED  BY <2>1, <2>2 DEF ValuesOK
<1>11. GraphOK'
  BY <1>1, <1>3, GraphLater
<1>12. WorklistsOK'
  BY <1>1, <1>2, <1>3, <1>4, StackLater DEF WorklistsOK, Stack
<1>. QED  BY <1>1, <1>2, <1>3, <1>5, <1>9, <1>10, <1>11, <1>12, TypedLater

LEMMA ForwardBlockTyped ==
  ASSUME Typed, ForwardBlock
  PROVE  Typed' /\ Grows
<1> DEFINE e    == Last(forward_worklist)
           f    == FunctionOf(e.label)
           at   == FirstIns(f, e.bb)
           live == SLIM_IN[e.label][at].b
           prev == predecessors(program[f], e.bb)
           all  == UNION {SLIM_OUT[e.label][LastIns(f, p)].f : p \in prev}
           in   == IF IsExit(f, e.bb) THEN SLIM_IN[e.label][at].f
                   ELSE IF ~IsEntry(f, e.bb) THEN performMeetForward({}, all, live)
                   ELSE IF f = "main" THEN MainBoundaryForward(live)
                   ELSE contexts[e.label].inflow.f
<1>1. /\ forward_worklist # <<>> /\ direction = "forward"
      /\ forward_worklist' = Front(forward_worklist)
      /\ processing' = e.label
      /\ SLIM_IN' = [SLIM_IN EXCEPT ![e.label][at].f = in]
      /\ work' = Working(e, 1, in)
      /\ UNCHANGED <<program, marked, contexts, SLIM_OUT, graph, backward_worklist, direction>>
  BY DEF ForwardBlock
<1>2. /\ ProgramOK /\ contexts \in [Labels -> ContextRecord] /\ ValuesOK
      /\ Stack(backward_worklist) /\ Stack(forward_worklist)
      /\ marked \subseteq Interface
  BY DEF Typed, ContextsOK, WorklistsOK, RestOK
<1>3. Grows /\ ContextsOK' /\ Labels' = Labels
  BY <1>1, SameContexts
<1>4. e \in Pending /\ Stack(Front(forward_worklist))
  BY <1>1, <1>2, TopLemma DEF Stack
<1>. HIDE DEF e
<1>5. /\ e.label \in Labels /\ f \in DOMAIN program /\ e.bb \in Blocks(program[f])
      /\ at \in Instructions /\ Len(Code(f, e.bb)) \in Nat \ {0}
  BY <1>4, ElementLemma
<1>. HIDE DEF f
<1>6. prev \subseteq Blocks(program[f])
  BY DEF predecessors
<1>7. in \in Pointers
  <2>1. SLIM_IN[e.label][at].f \in Pointers /\ live \in SUBSET Variable
    BY <1>2, <1>5, WriteLemma DEF ValuesOK
  <2>2. all \in Pointers
    <3>1. \A p \in prev : LastIns(f, p) \in Instructions
      BY <1>2, <1>5, <1>6, PositionLemma DEF LastIns
    <3>2. \A p \in prev : SLIM_OUT[e.label][LastIns(f, p)].f \in Pointers
      BY <1>2, <1>5, <3>1, WriteLemma DEF ValuesOK
    <3>. HIDE DEF prev
    <3>. QED  BY <3>2 DEF Pointers
  <2>3. contexts[e.label].inflow.f \in Pointers
    <3>1. contexts[e.label].inflow \in Values(Interface)
      BY <1>2, <1>5 DEF ContextRecord
    <3>2. Interface \subseteq Variable
      BY <1>2, InterfaceLemma
    <3>. QED  BY <3>1, <3>2 DEF Values, Pointers, Pairs
  <2>. HIDE DEF live, all, at
  <2>4. performMeetForward({}, all, live) \in Pointers
    <3>1. {} \in Pointers
      BY DEF Pointers
    <3>. QED  BY <2>2, <3>1, RestrictionLemma
  <2>5. MainBoundaryForward(live) \in Pointers
    BY <2>1 DEF MainBoundaryForward, Pointers, Pairs
  <2>. QED  BY <2>1, <2>3, <2>4, <2>5
<1>. HIDE DEF in, at
<1>8. WorkIn(Working(e, 1, in), "forward")
  <2>1. 1 \in 1 .. Len(Code(f, e.bb)) + 1
    BY <1>5
  <2>. QED  BY <1>4, <1>7, <2>1, ElementLemma DEF f
<1>9. WorkOK'
  BY <1>1, <1>3, <1>8, WorkLater
<1>10. ValuesOK'
  <2>1. SLIM_IN' \in Value /\ SLIM_OUT' \in Value
    BY <1>1, <1>2, <1>5, <1>7, WriteLemma DEF ValuesOK
  <2>2. Value' = Value
    BY <1>3, GrowsLemma DEF Value, Values
  <2>. QED  BY <2>1, <2>2 DEF ValuesOK
<1>11. GraphOK'
  BY <1>1, <1>3, GraphLater
<1>12. WorklistsOK'
  BY <1>1, <1>2, <1>3, <1>4, StackLater DEF WorklistsOK, Stack
<1>. QED  BY <1>1, <1>2, <1>3, <1>5, <1>9, <1>10, <1>11, <1>12, TypedLater

LEMMA StackInsert ==
  ASSUME NEW w, Stack(w), NEW e \in Pending
  PROVE  Stack(workInsert(w, e)) /\ ToSet(workInsert(w, e)) = ToSet(w) \cup {e}
BY WorkInsertLemma DEF Stack

LEMMA StackInsertAll ==
  ASSUME NEW w, Stack(w), NEW es \in Seq(Pending)
  PROVE  Stack(InsertAll(w, es)) /\ ToSet(InsertAll(w, es)) = ToSet(w) \cup ToSet(es)
BY InsertLemma DEF Stack

(* What the step of an instruction leaves of the block in hand.              *)
LEMMA StepWork ==
  ASSUME Typed, work # NoBlock
  PROVE  /\ \A i \in 0 .. Len(Code(FunctionOf(work.label), work.bb)), v \in SUBSET Variable :
              WorkIn([work EXCEPT !.i = i, !.prev = v], "backward")
         /\ \A i \in 1 .. Len(Code(FunctionOf(work.label), work.bb)) + 1, v \in Pointers :
              WorkIn([work EXCEPT !.i = i, !.prev = v], "forward")
         /\ \A i : [work EXCEPT !.i = i] = [work EXCEPT !.i = i, !.prev = work.prev]
<1> DEFINE n == Len(Code(FunctionOf(work.label), work.bb))
           Step(i, v) == [work EXCEPT !.i = i, !.prev = v]
<1>1. /\ WorkIn(work, direction) /\ n \in Nat \ {0}
      /\ work.bb \in Blocks(program[FunctionOf(work.label)])
  BY ThisLemma
<1>2. work \in WorkRecord
  BY <1>1 DEF WorkIn
<1>. HIDE DEF n
<1>3. ASSUME NEW i \in Nat, NEW v \in (SUBSET Variable) \cup Pointers
      PROVE  /\ Step(i, v) \in WorkRecord
             /\ Step(i, v).label = work.label /\ Step(i, v).bb = work.bb
             /\ Step(i, v).i = i /\ Step(i, v).prev = v
  BY <1>2 DEF WorkRecord
<1>4. \A i : [work EXCEPT !.i = i] = Step(i, work.prev)
  BY <1>2 DEF WorkRecord
<1>5. ASSUME NEW i \in 0 .. n, NEW v \in SUBSET Variable
      PROVE  WorkIn(Step(i, v), "backward")
  <2>1. i \in Nat
    BY <1>1
  <2>. HIDE DEF Step
  <2>2. /\ Step(i, v) \in WorkRecord
        /\ Step(i, v).label = work.label /\ Step(i, v).bb = work.bb
        /\ Step(i, v).i = i /\ Step(i, v).prev = v
    BY <1>3, <2>1
  <2>3. n = Len(Code(FunctionOf(Step(i, v).label), Step(i, v).bb))
    BY <2>2, Zenon DEF n
  <2>4. Step(i, v).bb \in Blocks(program[FunctionOf(Step(i, v).label)])
    BY <1>1, <2>2, Zenon
  <2>. QED  BY <2>2, <2>3, <2>4 DEF WorkIn
<1>6. ASSUME NEW i \in 1 .. n + 1, NEW v \in Pointers
      PROVE  WorkIn(Step(i, v), "forward")
  <2>1. i \in Nat
    BY <1>1
  <2>. HIDE DEF Step
  <2>2. /\ Step(i, v) \in WorkRecord
        /\ Step(i, v).label = work.label /\ Step(i, v).bb = work.bb
        /\ Step(i, v).i = i /\ Step(i, v).prev = v
    BY <1>3, <2>1
  <2>3. n = Len(Code(FunctionOf(Step(i, v).label), Step(i, v).bb))
    BY <2>2, Zenon DEF n
  <2>4. Step(i, v).bb \in Blocks(program[FunctionOf(Step(i, v).label)])
    BY <1>1, <2>2, Zenon
  <2>. QED  BY <2>2, <2>3, <2>4 DEF WorkIn
<1>. QED  BY <1>4, <1>5, <1>6 DEF n

LEMMA ChangedLemma ==
  ASSUME Typed, program' = program, NEW l \in Labels,
         contexts' \in {contexts, Changed(l)}
  PROVE  Grows /\ ContextsOK' /\ Labels' = Labels
<1>1. contexts \in [Labels -> ContextRecord]
  BY DEF Typed, ContextsOK
<1>2. /\ contexts' \in [Labels -> ContextRecord]
      /\ \A k \in Labels : /\ contexts'[k].function = contexts[k].function
                           /\ contexts'[k].inflow = contexts[k].inflow
                           /\ contexts'[k].source = contexts[k].source
  <2>1. CASE contexts' = contexts
    BY <1>1, <2>1
  <2>2. CASE contexts' = Changed(l)
    BY <1>1, <2>2 DEF Changed, ContextRecord
  <2>. QED  BY <2>1, <2>2
<1>. QED  BY <1>2, ContextsLater

LEMMA BackwardPlainTyped ==
  ASSUME Typed, BackwardPlain
  PROVE  Typed' /\ Grows /\ Labels' = Labels
<1> DEFINE n == Len(Code(FunctionOf(work.label), work.bb))
           new == computeInFromOut(At, work.prev, SLIM_IN[processing][This].f)
<1>1. /\ work # NoBlock /\ direction = "backward" /\ work.i >= 1 /\ At.op # "call"
      /\ UNCHANGED <<program, graph, backward_worklist, processing, direction>>
      /\ marked' = marked \cup (IF At.op = "ret" THEN {At.rhs} \ {""} ELSE {})
      /\ \/ /\ UNCHANGED <<values, contexts, forward_worklist>>
            /\ work' = [work EXCEPT !.i = @ - 1]
         \/ /\ SLIM_OUT' = SetAt(SLIM_OUT, This, "b", work.prev)
            /\ SLIM_IN' = SetAt(SLIM_IN, This, "b", new)
            /\ contexts' \in {contexts, Changed(work.label)}
            /\ forward_worklist' \in {forward_worklist, workInsert(forward_worklist, Pair)}
            /\ work' = [work EXCEPT !.i = @ - 1, !.prev = new]
  BY DEF BackwardPlain, Going
<1>2. /\ ProgramOK /\ ValuesOK /\ processing \in Labels
      /\ Stack(backward_worklist) /\ Stack(forward_worklist)
      /\ marked \subseteq Interface
  BY DEF Typed, WorklistsOK, RestOK
<1>3. /\ WorkIn(work, "backward") /\ work.label \in Labels /\ n \in Nat \ {0}
      /\ Pair \in Pending
      /\ work.i \in 1 .. n =>
           This \in Instructions /\ IsInstruction(At, program) /\ At = CodeAt(This)
  BY <1>1, ThisLemma
<1>4. work.i \in 0 .. n /\ work.prev \in SUBSET Variable
  BY <1>3 DEF WorkIn
<1>. HIDE DEF n
<1>5. work.i \in 1 .. n /\ work.i - 1 \in 0 .. n
  <2>1. work.i >= 1 /\ n \in Nat /\ work.i \in 0 .. n
    BY <1>1, <1>3, <1>4
  <2>. QED  BY <2>1
<1>6. This \in Instructions /\ IsInstruction(At, program) /\ At = CodeAt(This)
  BY <1>3, <1>5
<1>7. new \in SUBSET Variable
  <2>1. SLIM_IN[processing][This].f \in Pointers
    BY <1>2, <1>6, WriteLemma DEF ValuesOK
  <2>. QED  BY <1>1, <1>4, <1>6, <2>1, BackwardFlow
<1>. HIDE DEF new
<1>8. contexts' \in {contexts, Changed(work.label)}
  BY <1>1
<1>9. Grows /\ ContextsOK' /\ Labels' = Labels
  BY <1>1, <1>3, <1>8, ChangedLemma
<1>10. ValuesOK'
  <2>1. SLIM_IN' \in Value /\ SLIM_OUT' \in Value
    BY <1>1, <1>2, <1>4, <1>6, <1>7, SetAtLemma DEF ValuesOK, values
  <2>2. Value' = Value
    BY <1>9, GrowsLemma DEF Value, Values
  <2>. QED  BY <2>1, <2>2 DEF ValuesOK
<1>11. GraphOK'
  BY <1>1, <1>9, GraphLater
<1>12. Stack(forward_worklist')
  <2>1. Stack(workInsert(forward_worklist, Pair))
    BY <1>2, <1>3, StackInsert
  <2>. QED  BY <1>1, <1>2, <2>1
<1>13. WorklistsOK'
  BY <1>1, <1>2, <1>9, <1>12, StackLater DEF WorklistsOK, Stack
<1>14. WorkIn(work', "backward")
  <2>1. WorkIn([work EXCEPT !.i = work.i - 1, !.prev = new], "backward")
    BY <1>1, <1>5, <1>7, StepWork DEF n
  <2>2. WorkIn([work EXCEPT !.i = work.i - 1, !.prev = work.prev], "backward")
    BY <1>1, <1>4, <1>5, StepWork DEF n
  <2>3. [work EXCEPT !.i = work.i - 1] = [work EXCEPT !.i = work.i - 1, !.prev = work.prev]
    BY <1>1, StepWork
  <2>. QED  BY <1>1, <2>1, <2>2, <2>3
<1>15. WorkOK'
  BY <1>1, <1>9, <1>14, WorkLater
<1>16. marked' \subseteq Interface
  <2>1. At.op = "ret" => {At.rhs} \ {""} \subseteq Interface
    BY <1>2, <1>6, InterfaceLemma
  <2>. QED  BY <1>1, <1>2, <2>1
<1>. QED  BY <1>1, <1>2, <1>9, <1>10, <1>11, <1>13, <1>15, <1>16, TypedLater

LEMMA ForwardPlainTyped ==
  ASSUME Typed, ForwardPlain
  PROVE  Typed' /\ Grows /\ Labels' = Labels
<1> DEFINE n == Len(Code(FunctionOf(work.label), work.bb))
           O == SLIM_OUT[processing][This]
           new == IF At.op \in {"exit", "unreachable"} THEN work.prev
                  ELSE computeOutFromIn(At, O.f, work.prev, O.b)
<1>1. /\ work # NoBlock /\ direction = "forward" /\ work.i <= n /\ At.op # "call"
      /\ UNCHANGED <<program, marked, graph, forward_worklist, processing, direction>>
      /\ \/ /\ UNCHANGED <<values, contexts, backward_worklist>>
            /\ work' = [work EXCEPT !.i = @ + 1]
         \/ /\ SLIM_IN' = SetAt(SLIM_IN, This, "f", work.prev)
            /\ SLIM_OUT' = SetAt(SLIM_OUT, This, "f", new)
            /\ contexts' \in {contexts, Changed(work.label)}
            /\ backward_worklist' \in {backward_worklist, workInsert(backward_worklist, Pair)}
            /\ work' = [work EXCEPT !.i = @ + 1, !.prev = new]
  BY DEF ForwardPlain, Going, Instruction
<1>2. /\ ProgramOK /\ ValuesOK /\ processing \in Labels
      /\ Stack(backward_worklist) /\ Stack(forward_worklist)
      /\ marked \subseteq Interface
  BY DEF Typed, WorklistsOK, RestOK
<1>3. /\ WorkIn(work, "forward") /\ work.label \in Labels /\ n \in Nat \ {0}
      /\ Pair \in Pending
      /\ work.i \in 1 .. n => This \in Instructions /\ IsInstruction(At, program)
  BY <1>1, ThisLemma
<1>4. work.i \in 1 .. n + 1 /\ work.prev \in Pointers
  BY <1>3 DEF WorkIn
<1>. HIDE DEF n
<1>5. work.i \in 1 .. n /\ work.i + 1 \in 1 .. n + 1
  BY <1>1, <1>3, <1>4
<1>6. This \in Instructions /\ IsInstruction(At, program)
  BY <1>3, <1>5
<1>7. new \in Pointers
  <2>1. O.f \in Pointers /\ O.b \in SUBSET Variable
    BY <1>2, <1>6, WriteLemma DEF ValuesOK
  <2>. QED  BY <1>1, <1>4, <1>6, <2>1, ForwardFlow
<1>. HIDE DEF new
<1>8. contexts' \in {contexts, Changed(work.label)}
  BY <1>1
<1>9. Grows /\ ContextsOK' /\ Labels' = Labels
  BY <1>1, <1>3, <1>8, ChangedLemma
<1>10. ValuesOK'
  <2>1. SLIM_IN' \in Value /\ SLIM_OUT' \in Value
    BY <1>1, <1>2, <1>4, <1>6, <1>7, SetAtLemma DEF ValuesOK, values
  <2>2. Value' = Value
    BY <1>9, GrowsLemma DEF Value, Values
  <2>. QED  BY <2>1, <2>2 DEF ValuesOK
<1>11. GraphOK'
  BY <1>1, <1>9, GraphLater
<1>12. Stack(backward_worklist')
  <2>1. Stack(workInsert(backward_worklist, Pair))
    BY <1>2, <1>3, StackInsert
  <2>. QED  BY <1>1, <1>2, <2>1
<1>13. WorklistsOK'
  BY <1>1, <1>2, <1>9, <1>12, StackLater DEF WorklistsOK, Stack
<1>14. WorkIn(work', "forward")
  <2>1. WorkIn([work EXCEPT !.i = work.i + 1, !.prev = new], "forward")
    BY <1>1, <1>5, <1>7, StepWork DEF n
  <2>2. WorkIn([work EXCEPT !.i = work.i + 1, !.prev = work.prev], "forward")
    BY <1>1, <1>4, <1>5, StepWork DEF n
  <2>3. [work EXCEPT !.i = work.i + 1] = [work EXCEPT !.i = work.i + 1, !.prev = work.prev]
    BY <1>1, StepWork
  <2>. QED  BY <1>1, <2>1, <2>2, <2>3
<1>15. WorkOK'
  BY <1>1, <1>9, <1>14, WorkLater
<1>. QED  BY <1>1, <1>2, <1>9, <1>10, <1>11, <1>13, <1>15, TypedLater

LEMMA MatchingLemma ==
  ASSUME Typed, work # NoBlock, This \in Instructions, This[1] = FunctionOf(work.label),
         NEW inflow, NEW k \in Matching(inflow)
  PROVE  k \in Labels /\ FunctionOf(k) = At.rhs
<1>1. CASE work.done
  <2>1. k = getCalleeContext(work.label, This) /\ k # None
    BY <1>1 DEF Matching
  <2>2. <<work.label, This>> \in DOMAIN graph /\ k = graph[<<work.label, This>>]
    BY <2>1 DEF getCalleeContext
  <2>3. IsEdge(<<work.label, This>>, k)
    BY <2>2 DEF Typed, GraphOK
  <2>. QED  BY <2>3 DEF IsEdge, At
<1>2. CASE ~work.done
  BY <1>2 DEF Matching, check_if_context_already_exists, Labels, FunctionOf
<1>. QED  BY <1>1, <1>2

LEMMA BackwardCallTyped ==
  ASSUME Typed, BackwardCall
  PROVE  Typed' /\ Grows /\ Labels' = Labels
<1> DEFINE n == Len(Code(FunctionOf(work.label), work.bb))
           new(k) == SLIM_IN[processing][This].b \cup contexts[k].outflow.b
                       \cup CallerLocal(At, work.prev, Globals, Returned)
<1>1. PICK k \in Matching(BackwardInflow) :
        /\ graph' = addEdge(work.label, This, k)
        /\ SLIM_OUT' = BackwardOut
        /\ SLIM_IN' = SetAt(SLIM_IN, This, "b", new(k))
        /\ work' = [work EXCEPT !.i = @ - 1, !.prev = new(k)]
  BY DEF BackwardCall
<1>2. /\ work # NoBlock /\ direction = "backward" /\ work.i >= 1 /\ At.op = "call"
      /\ UNCHANGED <<program, marked, contexts, worklists, processing, direction>>
  BY DEF BackwardCall, Going
<1>3. /\ ProgramOK /\ ValuesOK /\ processing \in Labels
      /\ contexts \in [Labels -> ContextRecord]
      /\ Stack(backward_worklist) /\ Stack(forward_worklist)
      /\ marked \subseteq Interface
  BY DEF Typed, WorklistsOK, RestOK, ContextsOK
<1>4. /\ WorkIn(work, "backward") /\ work.label \in Labels /\ n \in Nat \ {0}
      /\ work.i \in 1 .. n =>
           /\ This \in Instructions /\ IsInstruction(At, program)
           /\ This[1] = FunctionOf(work.label) /\ At = CodeAt(This)
  BY <1>2, ThisLemma
<1>5. work.i \in 0 .. n /\ work.prev \in SUBSET Variable
  BY <1>4 DEF WorkIn
<1>. HIDE DEF n
<1>6. work.i \in 1 .. n /\ work.i - 1 \in 0 .. n
  <2>1. work.i >= 1 /\ n \in Nat /\ work.i \in 0 .. n
    BY <1>2, <1>4, <1>5
  <2>. QED  BY <2>1
<1>7. /\ This \in Instructions /\ IsInstruction(At, program)
      /\ This[1] = FunctionOf(work.label) /\ At = CodeAt(This)
  BY <1>4, <1>6
<1>8. k \in Labels /\ FunctionOf(k) = At.rhs
  BY <1>2, <1>7, MatchingLemma
<1>9. new(k) \in SUBSET Variable
  <2>1. SLIM_IN[processing][This].b \in SUBSET Variable
    BY <1>3, <1>7, WriteLemma DEF ValuesOK
  <2>2. contexts[k].outflow.b \in SUBSET Variable
    <3>1. contexts[k].outflow \in Values(Interface)
      BY <1>3, <1>8 DEF ContextRecord
    <3>2. Interface \subseteq Variable
      BY <1>3, InterfaceLemma
    <3>. QED  BY <3>1, <3>2 DEF Values
  <2>3. CallerLocal(At, work.prev, Globals, Returned) \in SUBSET Variable
    BY <1>5 DEF CallerLocal, PurelyLocal
  <2>. QED  BY <2>1, <2>2, <2>3
<1>. HIDE DEF new
<1>10. Grows /\ ContextsOK' /\ Labels' = Labels
  BY <1>2, SameContexts
<1>11. ValuesOK'
  <2>1. SLIM_OUT' \in Value
    BY <1>1, <1>3, <1>5, <1>7, SetAtLemma DEF ValuesOK, BackwardOut
  <2>2. SLIM_IN' \in Value
    BY <1>1, <1>3, <1>7, <1>9, SetAtLemma DEF ValuesOK
  <2>3. Value' = Value
    BY <1>10, GrowsLemma DEF Value, Values
  <2>. QED  BY <2>1, <2>2, <2>3 DEF ValuesOK
<1>12. GraphOK'
  <2>1. FunctionOf(k)' = FunctionOf(k) /\ k \in Labels'
    BY <1>8, <1>10, GrowsLemma
  <2>2. graph' = Put(graph, <<work.label, This>>, k)
    BY <1>1 DEF addEdge
  <2>. QED  BY <1>2, <1>4, <1>7, <1>8, <1>10, <2>1, <2>2, GraphLater
<1>13. WorklistsOK'
  BY <1>2, <1>3, <1>10, StackLater DEF WorklistsOK, Stack, worklists
<1>14. WorkIn(work', "backward")
  <2>1. WorkIn([work EXCEPT !.i = work.i - 1, !.prev = new(k)], "backward")
    BY <1>2, <1>6, <1>9, StepWork DEF n
  <2>. QED  BY <1>1, <2>1
<1>15. WorkOK'
  BY <1>2, <1>10, <1>14, WorkLater
<1>. QED  BY <1>2, <1>3, <1>10, <1>11, <1>12, <1>13, <1>15, TypedLater

LEMMA ForwardPrevLemma ==
  ASSUME Typed, work # NoBlock, This \in Instructions, work.prev \in Pointers
  PROVE  ForwardPrev \in Pointers /\ ForwardIn \in Value
<1>1. SLIM_IN \in Value /\ processing \in Labels
  BY DEF Typed, ValuesOK, RestOK
<1>2. SLIM_IN[processing][This].f \in Pointers
  BY <1>1, WriteLemma
<1>3. ForwardPrev \in Pointers
  BY <1>2 DEF ForwardPrev, Pointers
<1>. QED  BY <1>1, <1>3, SetAtLemma DEF ForwardIn

LEMMA ForwardCallTyped ==
  ASSUME Typed, ForwardCall
  PROVE  Typed' /\ Grows /\ Labels' = Labels
<1> DEFINE n == Len(Code(FunctionOf(work.label), work.bb))
           O == SLIM_OUT[processing][This]
           new(k) == performMeetForward(
                       O.f, performMeetForward(contexts[k].outflow.f,
                                               PurelyLocalForward(ForwardPrev, Globals), O.b), O.b)
<1>1. PICK k \in Matching(ForwardInflow) :
        /\ graph' = addEdge(work.label, This, k)
        /\ SLIM_IN' = ForwardIn
        /\ SLIM_OUT' = SetAt(SLIM_OUT, This, "f", new(k))
        /\ work' = [work EXCEPT !.i = @ + 1, !.prev = new(k)]
  BY DEF ForwardCall
<1>2. /\ work # NoBlock /\ direction = "forward" /\ work.i <= n /\ At.op = "call"
      /\ UNCHANGED <<program, marked, contexts, worklists, processing, direction>>
  BY DEF ForwardCall, Going, Instruction
<1>3. /\ ProgramOK /\ ValuesOK /\ processing \in Labels
      /\ contexts \in [Labels -> ContextRecord]
      /\ Stack(backward_worklist) /\ Stack(forward_worklist)
      /\ marked \subseteq Interface
  BY DEF Typed, WorklistsOK, RestOK, ContextsOK
<1>4. /\ WorkIn(work, "forward") /\ work.label \in Labels /\ n \in Nat \ {0}
      /\ work.i \in 1 .. n =>
           /\ This \in Instructions /\ IsInstruction(At, program)
           /\ This[1] = FunctionOf(work.label) /\ At = CodeAt(This)
  BY <1>2, ThisLemma
<1>5. work.i \in 1 .. n + 1 /\ work.prev \in Pointers
  BY <1>4 DEF WorkIn
<1>. HIDE DEF n
<1>6. work.i \in 1 .. n /\ work.i + 1 \in 1 .. n + 1
  <2>1. work.i <= n /\ n \in Nat /\ work.i \in 1 .. n + 1
    BY <1>2, <1>4, <1>5
  <2>. QED  BY <2>1
<1>7. /\ This \in Instructions /\ IsInstruction(At, program)
      /\ This[1] = FunctionOf(work.label) /\ At = CodeAt(This)
  BY <1>4, <1>6
<1>8. k \in Labels /\ FunctionOf(k) = At.rhs
  BY <1>2, <1>7, MatchingLemma
<1>9. new(k) \in Pointers
  <2>1. O.f \in Pointers
    BY <1>3, <1>7, WriteLemma DEF ValuesOK
  <2>2. contexts[k].outflow.f \in Pointers
    <3>1. contexts[k].outflow \in Values(Interface)
      BY <1>3, <1>8 DEF ContextRecord
    <3>2. Interface \subseteq Variable
      BY <1>3, InterfaceLemma
    <3>. QED  BY <3>1, <3>2 DEF Values, Pointers, Pairs
  <2>3. PurelyLocalForward(ForwardPrev, Globals) \in Pointers
    BY <1>2, <1>5, <1>7, ForwardPrevLemma, RestrictionLemma
  <2>. QED  BY <2>1, <2>2, <2>3, RestrictionLemma
<1>. HIDE DEF new
<1>10. Grows /\ ContextsOK' /\ Labels' = Labels
  BY <1>2, SameContexts
<1>11. ValuesOK'
  <2>1. SLIM_OUT' \in Value
    BY <1>1, <1>3, <1>7, <1>9, SetAtLemma DEF ValuesOK
  <2>2. SLIM_IN' \in Value
    BY <1>1, <1>2, <1>5, <1>7, ForwardPrevLemma
  <2>3. Value' = Value
    BY <1>10, GrowsLemma DEF Value, Values
  <2>. QED  BY <2>1, <2>2, <2>3 DEF ValuesOK
<1>12. GraphOK'
  <2>1. FunctionOf(k)' = FunctionOf(k) /\ k \in Labels'
    BY <1>8, <1>10, GrowsLemma
  <2>2. graph' = Put(graph, <<work.label, This>>, k)
    BY <1>1 DEF addEdge
  <2>. QED  BY <1>2, <1>4, <1>7, <1>8, <1>10, <2>1, <2>2, GraphLater
<1>13. WorklistsOK'
  BY <1>2, <1>3, <1>10, StackLater DEF WorklistsOK, Stack, worklists
<1>14. WorkIn(work', "forward")
  <2>1. WorkIn([work EXCEPT !.i = work.i + 1, !.prev = new(k)], "forward")
    BY <1>2, <1>6, <1>9, StepWork DEF n
  <2>. QED  BY <1>1, <2>1
<1>15. WorkOK'
  BY <1>2, <1>10, <1>14, WorkLater
<1>. QED  BY <1>2, <1>3, <1>10, <1>11, <1>12, <1>13, <1>15, TypedLater

LEMMA ElementsLemma ==
  ASSUME NEW S, NEW B, NEW l, NEW bs \in Seq(B), Fresh(l, B) \subseteq S
  PROVE  /\ Elements(l, bs) \in Seq(S)
         /\ ToSet(Elements(l, bs)) = Fresh(l, ToSet(bs))
<1> DEFINE N == Len(bs)
           e(n) == Element(l, bs[n], FALSE)
           es == [n \in 1 .. N |-> e(n)]
<1>1. DOMAIN bs = 1 .. N /\ N \in Nat /\ \A n \in 1 .. N : bs[n] \in B
  OBVIOUS
<1>2. Elements(l, bs) = es
  BY <1>1 DEF Elements
<1>3. \A n \in 1 .. N : e(n) \in S
  BY <1>1 DEF Fresh
<1>4. ToSet(bs) = {bs[n] : n \in 1 .. N}
  BY <1>1 DEF ToSet
<1>5. {e(n) : n \in 1 .. N} = Fresh(l, ToSet(bs))
  BY <1>4 DEF Fresh
<1>. HIDE DEF N, e
<1>6. es \in Seq(S) /\ DOMAIN es = 1 .. N
  BY <1>1, <1>3
<1>7. ToSet(es) = {e(n) : n \in 1 .. N}
  BY <1>6 DEF ToSet
<1>. QED  BY <1>2, <1>5, <1>6, <1>7

(* The blocks that are queued when a context is made.                        *)
LEMMA QueuedLemma ==
  ASSUME ProgramOK, NEW f \in DOMAIN program, NEW ends \in Terminating(program[f])
  PROVE  /\ program[f].ipost \o ends \in Seq(Blocks(program[f]))
         /\ ToSet(program[f].ipost \o ends) =
              ToSet(program[f].ipost) \cup getTerminatingBBList(program[f])
<1> DEFINE fn == program[f]
           rest == getTerminatingBBList(fn) \ ToSet(fn.ipost)
<1>1. fn.ipost \in Seq(Blocks(fn)) /\ IsFiniteSet(Blocks(fn))
  BY BlocksLemma
<1>2. rest \in SUBSET Blocks(fn) /\ ends \in SetToSeqs(rest)
  BY DEF getTerminatingBBList, Terminating
<1>. HIDE DEF rest, fn
<1>3. IsFiniteSet(rest)
  BY <1>1, <1>2, FS_Subset
<1>4. ends \in Seq(rest) /\ ToSet(ends) = rest
  BY <1>2, <1>3, OrderLemma
<1>5. ends \in Seq(Blocks(fn))
  <2>1. Len(ends) \in Nat /\ ends = [n \in 1 .. Len(ends) |-> ends[n]]
        /\ \A n \in 1 .. Len(ends) : ends[n] \in Blocks(fn)
    BY <1>2, <1>4
  <2>. QED  BY <2>1
<1>6. /\ fn.ipost \o ends \in Seq(Blocks(fn))
      /\ ToSet(fn.ipost \o ends) = ToSet(fn.ipost) \cup ToSet(ends)
  BY <1>1, <1>5, ConcatLemma
<1>7. ToSet(fn.ipost) \cup rest = ToSet(fn.ipost) \cup getTerminatingBBList(fn)
  BY DEF rest
<1>. QED  BY <1>4, <1>6, <1>7 DEF fn

LEMMA InitialisedLemma ==
  ASSUME NEW M \in Value, NEW f, NEW source \in Labels \cup {None}
  PROVE  Initialised(M, f, source) \in [Instructions -> Values(Variable)]
<1> DEFINE fn  == program[f]
           bw  == ToSet(fn.ipost) \cup getTerminatingBBList(fn)
           old == IF source = None THEN [i \in Instructions |-> NoValue] ELSE M[source]
           at(i) == IF i[1] # f THEN NoValue
                    ELSE [f |-> IF i[2] \in ToSet(fn.post) THEN old[i].f ELSE {},
                          b |-> IF i[2] \in bw THEN old[i].b ELSE {}]
<1>1. NoValue \in Values(Variable)
  BY DEF NoValue, Values
<1>2. \A i \in Instructions : old[i] \in Values(Variable)
  BY <1>1 DEF Value
<1>3. Initialised(M, f, source) = [i \in Instructions |-> at(i)]
  BY DEF Initialised
<1>. HIDE DEF old, bw, fn
<1>4. \A i \in Instructions : at(i) \in Values(Variable)
  <2>1. \A i \in Instructions : old[i].f \in SUBSET (Variable \X (Global \cup {Unknown}))
                                /\ old[i].b \in SUBSET Variable
    BY <1>2 DEF Values
  <2>. QED  BY <1>1, <2>1 DEF Values
<1>. HIDE DEF at
<1>. QED  BY <1>3, <1>4

LEMMA NewContextLemma ==
  ASSUME Typed, program' = program, NEW f \in DOMAIN program, NEW inflow \in Values(Interface),
         NEW source, source = None \/ (source \in Labels /\ FunctionOf(source) = f),
         NEW I \in Value, NEW O \in Value,
         NEW fw, Stack(fw), NEW bw, Stack(bw),
         INIT_CONTEXT(f, inflow, source, I, O, fw, bw)
  PROVE  /\ Grows /\ ContextsOK' /\ ValuesOK' /\ WorklistsOK'
         /\ Created(f, inflow, I, O, fw, bw)
<1> DEFINE new == Cardinality(DOMAIN contexts)
           fn == program[f]
           outflow == IF source = None THEN NoValue ELSE contexts[source].outflow
           c == NewContext(f, inflow, outflow, source)
           In == [Initialised(I, f, source) EXCEPT ![FirstIns(f, Entry(fn))].f = inflow.f]
           Out == [Initialised(O, f, source) EXCEPT ![LastIns(f, Back(fn))].b = inflow.b]
           back == ToSet(fn.ipost) \cup getTerminatingBBList(fn)
<1>1. /\ contexts' = Put(contexts, new, c)
      /\ SLIM_IN' = Put(I, new, In)
      /\ SLIM_OUT' = Put(O, new, Out)
      /\ forward_worklist' = InsertAll(fw, Elements(new, fn.post))
      /\ \E ends \in Terminating(fn) :
           backward_worklist' = InsertAll(bw, Elements(new, fn.ipost \o ends))
      /\ processing' = new
  BY DEF INIT_CONTEXT
<1>2. /\ ProgramOK
      /\ new \in Nat \ {0} /\ Labels = 0 .. new - 1
      /\ contexts \in [Labels -> ContextRecord]
      /\ \A l \in Labels : contexts[l].source # None =>
           /\ contexts[l].source \in 0 .. l - 1
           /\ contexts[contexts[l].source].function = contexts[l].function
  BY DEF Typed, ContextsOK, Labels, FunctionOf
<1>. HIDE DEF new
<1>3. new \notin Labels /\ Labels \cup {new} = 0 .. (new + 1) - 1
  BY <1>2
<1>4. /\ DOMAIN contexts' = Labels \cup {new} /\ contexts'[new] = c
      /\ \A l \in Labels : contexts'[l] = contexts[l]
  BY <1>1, <1>2, <1>3 DEF Put, Labels
<1>5. Labels' = Labels \cup {new} /\ Grows
  BY <1>4 DEF Labels, Grows
<1>6. source \in Labels \cup {None}
  OBVIOUS
<1>7. c \in ContextRecord /\ c.function = f /\ c.inflow = inflow /\ c.source = source
  <2>1. NoValue \in Values(Interface)
    BY DEF NoValue, Values
  <2>2. outflow \in Values(Interface)
    BY <1>2, <2>1 DEF ContextRecord
  <2>3. source \in Nat \cup {None}
    BY <1>2
  <2>. HIDE DEF outflow
  <2>. QED  BY <2>2, <2>3 DEF NewContext, ContextRecord
<1>. HIDE DEF c
<1>8. ContextsOK'
  <2>1. Cardinality(Labels') = new + 1
    <3>1. IsFiniteSet(Labels) /\ Cardinality(Labels) = new
      <4>1. new - 1 \in Int /\ IsFiniteSet(0 .. new - 1)
        BY <1>2, FS_Interval
      <4>. QED  BY <1>2, <4>1 DEF Labels, new
    <3>. QED  BY <1>3, <1>5, <3>1, FS_AddElement
  <2>2. ContextRecord' = ContextRecord
    BY <1>5, GrowsLemma DEF ContextRecord, Values, Grows
  <2>3. contexts' \in [Labels' -> ContextRecord']
    <3>1. contexts' = [l \in Labels' |-> contexts'[l]]
      BY <1>1, <1>4, <1>5 DEF Put
    <3>2. \A l \in Labels' : contexts'[l] \in ContextRecord
      BY <1>2, <1>4, <1>5, <1>7
    <3>. QED  BY <2>2, <3>1, <3>2
  <2>4. ASSUME NEW l \in Labels', contexts'[l].source # None
        PROVE  /\ contexts'[l].source \in 0 .. l - 1
               /\ contexts'[contexts'[l].source].function = contexts'[l].function
    <3>1. CASE l \in Labels
      <4>1. /\ contexts[l].source \in 0 .. l - 1 /\ contexts'[l] = contexts[l]
            /\ contexts[contexts[l].source].function = contexts[l].function
        BY <1>2, <1>4, <2>4, <3>1
      <4>2. contexts[l].source \in Labels
        BY <1>2, <3>1, <4>1
      <4>. QED  BY <1>4, <4>1, <4>2
    <3>2. CASE l = new
      <4>1. source \in Labels /\ contexts[source].function = f
        BY <1>4, <1>7, <2>4, <3>2 DEF FunctionOf
      <4>2. source \in 0 .. new - 1
        BY <1>2, <4>1
      <4>. QED  BY <1>4, <1>7, <3>2, <4>1, <4>2
    <3>. QED  BY <1>5, <3>1, <3>2
  <2>5. ContextsOK' = (/\ Cardinality(Labels') \in Nat \ {0}
                       /\ Labels' = 0 .. Cardinality(Labels') - 1
                       /\ contexts' \in [Labels' -> ContextRecord']
                       /\ \A l \in Labels' : contexts'[l].source # None =>
                            /\ contexts'[l].source \in 0 .. l - 1
                            /\ contexts'[contexts'[l].source].function = contexts'[l].function)
    BY DEF ContextsOK, FunctionOf
  <2>6. new + 1 \in Nat \ {0}
    BY <1>2
  <2>. QED  BY <1>3, <1>5, <2>1, <2>3, <2>4, <2>5, <2>6
<1>9. /\ Entry(fn) \in Blocks(fn) /\ Back(fn) \in Blocks(fn)
      /\ fn.post \in Seq(Blocks(fn))
      /\ FirstIns(f, Entry(fn)) \in Instructions
      /\ LastIns(f, Back(fn)) \in Instructions
  BY <1>2, BlocksLemma, PositionLemma DEF FirstIns, LastIns
<1>10. ValuesOK'
  <2>1. /\ Initialised(I, f, source) \in [Instructions -> Values(Variable)]
        /\ Initialised(O, f, source) \in [Instructions -> Values(Variable)]
    BY <1>6, InitialisedLemma
  <2>2. /\ inflow.f \in SUBSET (Variable \X (Global \cup {Unknown}))
        /\ inflow.b \in SUBSET Variable
    <3>1. Interface \subseteq Variable
      BY <1>2, InterfaceLemma
    <3>. QED  BY <3>1 DEF Values
  <2>3. In \in [Instructions -> Values(Variable)]
    BY <1>9, <2>1, <2>2 DEF Values
  <2>4. Out \in [Instructions -> Values(Variable)]
    BY <1>9, <2>1, <2>2 DEF Values
  <2>. HIDE DEF In, Out
  <2>5. SLIM_IN' \in [Labels' -> [Instructions -> Values(Variable)]]
    BY <1>1, <1>5, <2>3 DEF Put, Value
  <2>6. SLIM_OUT' \in [Labels' -> [Instructions -> Values(Variable)]]
    BY <1>1, <1>5, <2>4 DEF Put, Value
  <2>7. Value' = [Labels' -> [Instructions -> Values(Variable)]]
    BY <1>5, GrowsLemma DEF Value, Values
  <2>. QED  BY <2>5, <2>6, <2>7 DEF ValuesOK
<1>11. \A l \in Labels : SLIM_IN'[l] = I[l] /\ SLIM_OUT'[l] = O[l]
  BY <1>1, <1>3 DEF Put, Value
<1>12. contexts'[new].function = f /\ contexts'[new].inflow = inflow
  BY <1>4, <1>7
<1>13. \A b \in Blocks(fn) : Element(new, b, FALSE) \in Pending'
  <2>1. Blocks(fn) \subseteq AllBlocks'
    BY <1>2, <1>5, BlocksLemma, GrowsLemma
  <2>2. program' = program /\ new \in Labels'
    BY <1>5
  <2>3. Pending' = {e \in [label : Labels', bb : AllBlocks', done : BOOLEAN] :
                      e.bb \in Blocks(program'[contexts'[e.label].function])}
    BY DEF Pending, FunctionOf
  <2>. QED  BY <1>12, <2>1, <2>2, <2>3 DEF Element
<1>14. fw \in Seq(Pending') /\ IsInjective(fw) /\ bw \in Seq(Pending') /\ IsInjective(bw)
  BY <1>5, StackLater
<1>15. /\ Stack(forward_worklist)'
       /\ ToSet(forward_worklist') =
            ToSet(fw) \cup Fresh(new, ToSet(fn.post))
  <2>1. /\ Elements(new, fn.post) \in Seq(Pending')
        /\ ToSet(Elements(new, fn.post)) = Fresh(new, ToSet(fn.post))
    <3> DEFINE S == Pending'
               B == Blocks(fn)
               bs == fn.post
    <3>1. bs \in Seq(B) /\ Fresh(new, B) \subseteq S
      BY <1>9, <1>13 DEF Fresh
    <3>. HIDE DEF S, B, bs
    <3>2. /\ Elements(new, bs) \in Seq(S)
          /\ ToSet(Elements(new, bs)) = Fresh(new, ToSet(bs))
      BY <3>1, ElementsLemma
    <3>. QED  BY <3>2 DEF S, bs
  <2> DEFINE es == Elements(new, fn.post)
             S == Pending'
  <2>2. fw \in Seq(S) /\ es \in Seq(S) /\ IsInjective(fw)
    BY <1>14, <2>1
  <2>. HIDE DEF es, S
  <2>3. /\ InsertAll(fw, es) \in Seq(S) /\ ToSet(InsertAll(fw, es)) = ToSet(fw) \cup ToSet(es)
        /\ IsInjective(InsertAll(fw, es))
    BY <2>2, InsertLemma
  <2>. QED  BY <1>1, <2>1, <2>3 DEF Stack, es, S
<1>16. /\ Stack(backward_worklist)'
       /\ ToSet(backward_worklist') = ToSet(bw) \cup Fresh(new, back)
  <2>1. PICK ends \in Terminating(fn) :
          backward_worklist' = InsertAll(bw, Elements(new, fn.ipost \o ends))
    BY <1>1
  <2>2. /\ fn.ipost \o ends \in Seq(Blocks(fn)) /\ ToSet(fn.ipost \o ends) = back
    BY <1>2, QueuedLemma
  <2>3. /\ Elements(new, fn.ipost \o ends) \in Seq(Pending')
        /\ ToSet(Elements(new, fn.ipost \o ends)) = Fresh(new, back)
    <3> DEFINE S == Pending'
               B == Blocks(fn)
               bs == fn.ipost \o ends
    <3>1. bs \in Seq(B) /\ Fresh(new, B) \subseteq S
      BY <1>13, <2>2 DEF Fresh
    <3>. HIDE DEF S, B, bs
    <3>2. /\ Elements(new, bs) \in Seq(S)
          /\ ToSet(Elements(new, bs)) = Fresh(new, ToSet(bs))
      BY <3>1, ElementsLemma
    <3>. QED  BY <2>2, <3>2 DEF S, bs
  <2> DEFINE es == Elements(new, fn.ipost \o ends)
             S == Pending'
  <2>4. bw \in Seq(S) /\ es \in Seq(S) /\ IsInjective(bw)
    BY <1>14, <2>3
  <2>. HIDE DEF es, S
  <2>5. /\ InsertAll(bw, es) \in Seq(S) /\ ToSet(InsertAll(bw, es)) = ToSet(bw) \cup ToSet(es)
        /\ IsInjective(InsertAll(bw, es))
    BY <2>4, InsertLemma
  <2>. QED  BY <2>1, <2>3, <2>5 DEF Stack, es, S
<1>17. WorklistsOK'
  BY <1>15, <1>16 DEF WorklistsOK
<1>. QED
  BY <1>1, <1>2, <1>3, <1>5, <1>8, <1>10, <1>11, <1>12, <1>15, <1>16, <1>17 DEF new, Created

LEMMA SourceLemma ==
  ASSUME Typed, NEW l \in Labels, NEW call
  PROVE  LET source == getSourceContextAtCallSite(l, call) IN
         source = None \/ (source \in Labels /\ FunctionOf(source) = CodeAt(call).rhs)
<1>1. \A k : \/ getCalleeContext(k, call) = None
             \/ /\ getCalleeContext(k, call) \in Labels
                /\ FunctionOf(getCalleeContext(k, call)) = CodeAt(call).rhs
  <2>. SUFFICES ASSUME NEW k, <<k, call>> \in DOMAIN graph
                PROVE  /\ graph[<<k, call>>] \in Labels
                       /\ FunctionOf(graph[<<k, call>>]) = CodeAt(call).rhs
    BY DEF getCalleeContext
  <2>1. IsEdge(<<k, call>>, graph[<<k, call>>])
    BY DEF Typed, GraphOK
  <2>. QED  BY <2>1 DEF IsEdge
<1>. QED  BY <1>1 DEF getSourceContextAtCallSite

LEMMA InflowLemma ==
  ASSUME Typed, work # NoBlock, This \in Instructions, IsInstruction(At, program),
         At.op = "call"
  PROVE  /\ NoValue \in Values(Interface)
         /\ At.rhs \in DOMAIN program
         /\ work.prev \in SUBSET Variable => BackwardInflow \in Values(Interface)
         /\ work.prev \in Pointers => ForwardInflow \in Values(Interface)
<1>1. /\ ProgramOK /\ ValuesOK /\ processing \in Labels /\ marked \subseteq Interface
  BY DEF Typed, RestOK
<1>2. At.rhs \in DOMAIN program
  BY DEF IsInstruction
<1>3. Returned \in SUBSET Interface /\ Globals \cup Formal \subseteq Interface
  BY <1>1, <1>2, InterfaceLemma DEF Returned, Globals
<1>4. NoValue \in Values(Interface)
  BY DEF NoValue, Values
<1>5. ASSUME work.prev \in SUBSET Variable
      PROVE  BackwardInflow \in Values(Interface)
  <2>1. SLIM_IN[processing][This].f \in Pointers
    BY <1>1, WriteLemma DEF ValuesOK
  <2>. QED  BY <1>3, <1>5, <2>1, CallFlow DEF BackwardInflow
<1>6. ASSUME work.prev \in Pointers
      PROVE  ForwardInflow \in Values(Interface)
  <2>1. SLIM_OUT[processing][This].b \in SUBSET Variable
    BY <1>1, WriteLemma DEF ValuesOK
  <2>2. ForwardPrev \in Pointers
    BY <1>6, ForwardPrevLemma
  <2>. QED  BY <1>3, <2>1, <2>2, CallFlow DEF ForwardInflow
<1>. QED  BY <1>2, <1>4, <1>5, <1>6

LEMMA BackwardNewContextTyped ==
  ASSUME Typed, BackwardNewContext
  PROVE  /\ Typed' /\ Grows
         /\ Created(At.rhs, IF work.done THEN NoValue ELSE BackwardInflow, SLIM_IN, BackwardOut,
                    forward_worklist,
                    workInsert(backward_worklist, PairDone))
<1> DEFINE n == Len(Code(FunctionOf(work.label), work.bb))
           new == Cardinality(DOMAIN contexts)
           inflow == IF work.done THEN NoValue ELSE BackwardInflow
           source == getSourceContextAtCallSite(work.label, This)
           bw == workInsert(backward_worklist, PairDone)
<1>1. /\ INIT_CONTEXT(At.rhs, inflow, source, SLIM_IN, BackwardOut, forward_worklist, bw)
      /\ graph' = addEdge(work.label, This, new)
      /\ work' = [work EXCEPT !.i = @ - 1]
  BY DEF BackwardNewContext
<1>2. /\ work # NoBlock /\ direction = "backward" /\ work.i >= 1 /\ At.op = "call"
      /\ UNCHANGED <<program, marked, direction>>
  BY DEF BackwardNewContext, Going
<1>3. /\ ProgramOK /\ ValuesOK /\ processing \in Labels
      /\ Stack(backward_worklist) /\ Stack(forward_worklist)
      /\ marked \subseteq Interface
  BY DEF Typed, WorklistsOK, RestOK
<1>4. /\ WorkIn(work, "backward") /\ work.label \in Labels /\ n \in Nat \ {0}
      /\ PairDone \in Pending
      /\ work.i \in 1 .. n =>
           /\ This \in Instructions /\ IsInstruction(At, program)
           /\ This[1] = FunctionOf(work.label) /\ At = CodeAt(This)
  BY <1>2, ThisLemma
<1>5. work.i \in 0 .. n /\ work.prev \in SUBSET Variable
  BY <1>4 DEF WorkIn
<1>. HIDE DEF n
<1>6. work.i \in 1 .. n /\ work.i - 1 \in 0 .. n
  <2>1. work.i >= 1 /\ n \in Nat /\ work.i \in 0 .. n
    BY <1>2, <1>4, <1>5
  <2>. QED  BY <2>1
<1>7. /\ This \in Instructions /\ IsInstruction(At, program)
      /\ This[1] = FunctionOf(work.label) /\ At = CodeAt(This)
  BY <1>4, <1>6
<1>8. inflow \in Values(Interface) /\ At.rhs \in DOMAIN program
  BY <1>2, <1>5, <1>7, InflowLemma
<1>9. source = None \/ (source \in Labels /\ FunctionOf(source) = At.rhs)
  BY <1>4, <1>7, SourceLemma
<1>10. BackwardOut \in Value /\ SLIM_IN \in Value
  BY <1>3, <1>5, <1>7, SetAtLemma DEF ValuesOK, BackwardOut
<1>11. Stack(bw)
  BY <1>3, <1>4, StackInsert
<1>. HIDE DEF inflow, source, bw
<1>12. /\ Grows /\ ContextsOK' /\ ValuesOK' /\ WorklistsOK'
       /\ Created(At.rhs, inflow, SLIM_IN, BackwardOut, forward_worklist, bw)
  BY <1>1, <1>2, <1>3, <1>8, <1>9, <1>10, <1>11, NewContextLemma
<1>17. Labels' = Labels \cup {new} /\ processing' = new /\ contexts'[new].function = At.rhs
  BY <1>12 DEF Created
<1>. HIDE DEF new
<1>13. GraphOK'
  <2> DEFINE l == work.label
             c == This
  <2>1. /\ l \in Labels /\ c \in Instructions /\ FunctionOf(l) = c[1]
        /\ CodeAt(c).op = "call" /\ CodeAt(c).rhs = contexts'[new].function
        /\ graph' = Put(graph, <<l, c>>, new) /\ new \in Labels'
    BY <1>1, <1>2, <1>4, <1>7, <1>17 DEF addEdge
  <2>2. \A to : FunctionOf(to)' = contexts'[to'].function
    BY DEF FunctionOf
  <2>3. \A to \in Labels' : CodeAt(c).rhs = contexts'[to].function
                            /\ graph' = Put(graph, <<l, c>>, to) => GraphOK'
    <3>. SUFFICES ASSUME NEW to \in Labels', CodeAt(c).rhs = contexts'[to].function,
                         graph' = Put(graph, <<l, c>>, to)
                  PROVE  GraphOK'
      OBVIOUS
    <3>1. CodeAt(c).rhs = FunctionOf(to)'
      BY DEF FunctionOf
    <3>. HIDE DEF l, c
    <3>. QED  BY <1>12, <2>1, <3>1, GraphLater
  <2>. QED  BY <2>1, <2>3
<1>14. WorkIn(work', "backward")
  <2>1. WorkIn([work EXCEPT !.i = work.i - 1, !.prev = work.prev], "backward")
    BY <1>2, <1>5, <1>6, StepWork DEF n
  <2>2. [work EXCEPT !.i = work.i - 1] = [work EXCEPT !.i = work.i - 1, !.prev = work.prev]
    BY <1>2, StepWork
  <2>. QED  BY <1>1, <2>1, <2>2
<1>15. WorkOK'
  BY <1>2, <1>12, <1>14, WorkLater
<1>16. Typed'
  BY <1>2, <1>3, <1>12, <1>13, <1>15, <1>17, TypedLater DEF Typed, RestOK
<1>. QED  BY <1>12, <1>16 DEF inflow, bw

LEMMA ForwardNewContextTyped ==
  ASSUME Typed, ForwardNewContext
  PROVE  /\ Typed' /\ Grows
         /\ Created(At.rhs, IF work.done THEN NoValue ELSE ForwardInflow, ForwardIn, SLIM_OUT,
                    workInsert(forward_worklist, PairDone),
                    backward_worklist)
<1> DEFINE n == Len(Code(FunctionOf(work.label), work.bb))
           new == Cardinality(DOMAIN contexts)
           inflow == IF work.done THEN NoValue ELSE ForwardInflow
           source == getSourceContextAtCallSite(work.label, This)
           fw == workInsert(forward_worklist, PairDone)
<1>1. /\ INIT_CONTEXT(At.rhs, inflow, source, ForwardIn, SLIM_OUT, fw, backward_worklist)
      /\ graph' = addEdge(work.label, This, new)
      /\ work' = [work EXCEPT !.i = @ + 1, !.prev = ForwardPrev]
  BY DEF ForwardNewContext
<1>2. /\ work # NoBlock /\ direction = "forward" /\ work.i <= n /\ At.op = "call"
      /\ UNCHANGED <<program, marked, direction>>
  BY DEF ForwardNewContext, Going, Instruction
<1>3. /\ ProgramOK /\ ValuesOK /\ processing \in Labels
      /\ Stack(backward_worklist) /\ Stack(forward_worklist)
      /\ marked \subseteq Interface
  BY DEF Typed, WorklistsOK, RestOK
<1>4. /\ WorkIn(work, "forward") /\ work.label \in Labels /\ n \in Nat \ {0}
      /\ PairDone \in Pending
      /\ work.i \in 1 .. n =>
           /\ This \in Instructions /\ IsInstruction(At, program)
           /\ This[1] = FunctionOf(work.label) /\ At = CodeAt(This)
  BY <1>2, ThisLemma
<1>5. work.i \in 1 .. n + 1 /\ work.prev \in Pointers
  BY <1>4 DEF WorkIn
<1>. HIDE DEF n
<1>6. work.i \in 1 .. n /\ work.i + 1 \in 1 .. n + 1
  <2>1. work.i <= n /\ n \in Nat /\ work.i \in 1 .. n + 1
    BY <1>2, <1>4, <1>5
  <2>. QED  BY <2>1
<1>7. /\ This \in Instructions /\ IsInstruction(At, program)
      /\ This[1] = FunctionOf(work.label) /\ At = CodeAt(This)
  BY <1>4, <1>6
<1>8. inflow \in Values(Interface) /\ At.rhs \in DOMAIN program
  BY <1>2, <1>5, <1>7, InflowLemma
<1>9. source = None \/ (source \in Labels /\ FunctionOf(source) = At.rhs)
  BY <1>4, <1>7, SourceLemma
<1>10. ForwardIn \in Value /\ ForwardPrev \in Pointers /\ SLIM_OUT \in Value
  BY <1>2, <1>3, <1>5, <1>7, ForwardPrevLemma DEF ValuesOK
<1>11. Stack(fw)
  BY <1>3, <1>4, StackInsert
<1>. HIDE DEF inflow, source, fw
<1>12. /\ Grows /\ ContextsOK' /\ ValuesOK' /\ WorklistsOK'
       /\ Created(At.rhs, inflow, ForwardIn, SLIM_OUT, fw, backward_worklist)
  BY <1>1, <1>2, <1>3, <1>8, <1>9, <1>10, <1>11, NewContextLemma
<1>17. Labels' = Labels \cup {new} /\ processing' = new /\ contexts'[new].function = At.rhs
  BY <1>12 DEF Created
<1>. HIDE DEF new
<1>13. GraphOK'
  <2> DEFINE l == work.label
             c == This
  <2>1. /\ l \in Labels /\ c \in Instructions /\ FunctionOf(l) = c[1]
        /\ CodeAt(c).op = "call" /\ CodeAt(c).rhs = contexts'[new].function
        /\ graph' = Put(graph, <<l, c>>, new) /\ new \in Labels'
    BY <1>1, <1>2, <1>4, <1>7, <1>17 DEF addEdge
  <2>2. \A to : FunctionOf(to)' = contexts'[to'].function
    BY DEF FunctionOf
  <2>3. \A to \in Labels' : CodeAt(c).rhs = contexts'[to].function
                            /\ graph' = Put(graph, <<l, c>>, to) => GraphOK'
    <3>. SUFFICES ASSUME NEW to \in Labels', CodeAt(c).rhs = contexts'[to].function,
                         graph' = Put(graph, <<l, c>>, to)
                  PROVE  GraphOK'
      OBVIOUS
    <3>1. CodeAt(c).rhs = FunctionOf(to)'
      BY DEF FunctionOf
    <3>. HIDE DEF l, c
    <3>. QED  BY <1>12, <2>1, <3>1, GraphLater
  <2>. QED  BY <2>1, <2>3
<1>14. WorkIn(work', "forward")
  <2>1. WorkIn([work EXCEPT !.i = work.i + 1, !.prev = ForwardPrev], "forward")
    BY <1>2, <1>6, <1>10, StepWork DEF n
  <2>. QED  BY <1>1, <2>1
<1>15. WorkOK'
  BY <1>2, <1>12, <1>14, WorkLater
<1>16. Typed'
  BY <1>2, <1>3, <1>12, <1>13, <1>15, <1>17, TypedLater DEF Typed, RestOK
<1>. QED  BY <1>12, <1>16 DEF inflow, fw

LEMMA CallersLemma ==
  ASSUME Typed, NEW l, NEW callers \in {getCallers(l), {}},
         NEW cs \in SetToSeqs(callers), NEW done \in BOOLEAN
  PROVE  LET es == [n \in DOMAIN cs |-> Element(cs[n][1], cs[n][2], done)] IN
         es \in Seq(Pending) /\ ToSet(es) = Again(callers, done)
<1> DEFINE calls == {d \in DOMAIN graph : graph[d] = l}
           caller(e) == <<e[1], e[2][2]>>
           from == [e \in calls |-> caller(e)]
           el(c) == Element(c[1], c[2], done)
           N == Len(cs)
           es == [n \in DOMAIN cs |-> el(cs[n])]
<1>1. ProgramOK /\ IsFiniteSet(DOMAIN graph) /\ \A e \in DOMAIN graph : IsEdge(e, graph[e])
  BY DEF Typed, GraphOK
<1>2. IsFiniteSet(callers)
  <2>1. IsFiniteSet(calls)
    BY <1>1, FS_Subset
  <2>2. from \in Surjection(calls, getCallers(l))
    <3>1. getCallers(l) = {caller(e) : e \in calls}
      BY DEF getCallers
    <3>. HIDE DEF calls, caller
    <3>. QED  BY <3>1 DEF Surjection
  <2>3. IsFiniteSet(getCallers(l))
    BY <2>1, <2>2, FS_Surjection
  <2>4. IsFiniteSet({})
    BY FS_EmptySet
  <2>. QED  BY <2>3, <2>4
<1>3. \A c \in callers : el(c) \in Pending
  <2>. SUFFICES ASSUME NEW e \in calls PROVE el(caller(e)) \in Pending
    BY DEF getCallers
  <2>1. /\ e[1] \in Labels /\ e[2] \in Instructions /\ FunctionOf(e[1]) = e[2][1]
    BY <1>1 DEF IsEdge
  <2>2. e[2][1] \in DOMAIN program /\ e[2][2] \in Blocks(program[e[2][1]])
    BY <1>1, <2>1, InstructionLemma
  <2>3. e[2][2] \in AllBlocks
    BY <2>2 DEF AllBlocks
  <2>. QED  BY <2>1, <2>2, <2>3 DEF Pending, Element
<1>4. cs \in Seq(callers) /\ ToSet(cs) = callers
  BY <1>2, OrderLemma
<1>5. DOMAIN cs = 1 .. N /\ N \in Nat /\ \A n \in 1 .. N : cs[n] \in callers
  BY <1>4
<1>6. es = [n \in 1 .. N |-> el(cs[n])]
  BY <1>5
<1>. HIDE DEF el, N
<1>7. es \in Seq(Pending) /\ DOMAIN es = 1 .. N
  <2>1. \A n \in 1 .. N : el(cs[n]) \in Pending
    BY <1>3, <1>5
  <2>. HIDE DEF es
  <2>. QED  BY <1>5, <1>6, <2>1
<1>8. ToSet(es) = {el(c) : c \in callers}
  <2>1. callers = {cs[n] : n \in 1 .. N}
    BY <1>4, <1>5 DEF ToSet
  <2>2. ToSet(es) = {el(cs[n]) : n \in 1 .. N}
    BY <1>6, <1>7 DEF ToSet
  <2>. QED  BY <2>1, <2>2
<1>9. {el(c) : c \in callers} = Again(callers, done)
  BY DEF el, Again
<1>. QED  BY <1>7, <1>8, <1>9 DEF el

LEMMA FreshLemma ==
  ASSUME Typed, NEW l \in Labels, NEW bs \in SUBSET Blocks(program[FunctionOf(l)])
  PROVE  Fresh(l, bs) \subseteq Pending
<1>1. FunctionOf(l) \in DOMAIN program
  BY DEF Typed, ContextsOK, ContextRecord, FunctionOf
<1>2. \A b \in bs : b \in AllBlocks /\ b \in Blocks(program[FunctionOf(l)])
  BY <1>1 DEF AllBlocks
<1>3. \A b \in bs : Element(l, b, FALSE) \in Pending
  BY <1>2 DEF Element, Pending
<1>. QED  BY <1>3 DEF Fresh

LEMMA OutflowLemma ==
  ASSUME Typed, program' = program, NEW l \in Labels, NEW moved \in BOOLEAN, NEW v,
         \/ v \in SUBSET Interface /\ contexts' = SetOutflow(l, moved, "b", v)
         \/ /\ v \in SUBSET (Interface \X (Global \cup {Unknown}))
            /\ contexts' = SetOutflow(l, moved, "f", v)
  PROVE  Grows /\ ContextsOK' /\ Labels' = Labels
<1>1. contexts \in [Labels -> ContextRecord]
  BY DEF Typed, ContextsOK
<1>2. contexts[l] \in ContextRecord /\ contexts[l].outflow \in Values(Interface)
  BY <1>1 DEF ContextRecord
<1>3. ASSUME NEW side \in {"b", "f"},
             [contexts[l].outflow EXCEPT ![side] = v] \in Values(Interface),
             contexts' = SetOutflow(l, moved, side, v)
      PROVE  /\ contexts' \in [Labels -> ContextRecord]
             /\ \A k \in Labels : /\ contexts'[k].function = contexts[k].function
                                  /\ contexts'[k].inflow = contexts[k].inflow
                                  /\ contexts'[k].source = contexts[k].source
  <2> DEFINE c == [contexts[l] EXCEPT !.changed = moved, !.outflow[side] = v]
  <2>1. contexts' = [contexts EXCEPT ![l] = c]
    BY <1>3 DEF SetOutflow
  <2>2. /\ c \in ContextRecord /\ c.function = contexts[l].function
        /\ c.inflow = contexts[l].inflow /\ c.source = contexts[l].source
    BY <1>2, <1>3 DEF ContextRecord
  <2>. HIDE DEF c
  <2>. QED  BY <1>1, <2>1, <2>2
<1>4. \/ contexts' = SetOutflow(l, moved, "b", v) /\ [contexts[l].outflow EXCEPT !["b"] = v] \in Values(Interface)
      \/ contexts' = SetOutflow(l, moved, "f", v) /\ [contexts[l].outflow EXCEPT !["f"] = v] \in Values(Interface)
  BY <1>2 DEF Values
<1>. QED  BY <1>3, <1>4, ContextsLater

LEMMA BackwardEndTyped ==
  ASSUME Typed, BackwardEnd
  PROVE  LET l      == work.label
             f      == FunctionOf(l)
             live   == SLIM_IN[l][FirstIns(f, work.bb)].b
             before == live # work.in.b
             after  == SLIM_OUT[l][LastIns(f, work.bb)].b # work.out.b
             moved  == contexts[l].changed \/ before \/ after
         IN  /\ Typed' /\ Grows /\ Labels' = Labels
             /\ ToSet(forward_worklist') =
                  ToSet(forward_worklist) \cup (IF before \/ after THEN {Pair} ELSE {})
             /\ ToSet(backward_worklist') =
                  ToSet(backward_worklist)
                    \cup Fresh(l, IF before THEN predecessors(program[f], work.bb) ELSE {})
                    \cup Again(IF IsEntry(f, work.bb) THEN getCallers(l) ELSE {}, ~moved)
<1> DEFINE l      == work.label
           f      == FunctionOf(l)
           n      == Len(Code(f, work.bb))
           live   == SLIM_IN[l][FirstIns(f, work.bb)].b
           before == live # work.in.b
           after  == SLIM_OUT[l][LastIns(f, work.bb)].b # work.out.b
           moved  == contexts[l].changed \/ before \/ after
           entry  == IsEntry(f, work.bb)
           outflow == IF entry THEN GlobalandFunctionArg(live, Globals)
                      ELSE contexts[l].outflow.b
           callers == IF entry THEN getCallers(l) ELSE {}
           preds == IF before THEN predecessors(program[f], work.bb) ELSE {}
           again(cs) == [k \in DOMAIN cs |-> Element(cs[k][1], cs[k][2], ~moved)]
<1>1. /\ work # NoBlock /\ direction = "backward" /\ work.i = 0
      /\ work' = NoBlock
      /\ contexts' = SetOutflow(l, moved, "b", outflow)
      /\ forward_worklist' = IF before \/ after THEN workInsert(forward_worklist, Pair)
                             ELSE forward_worklist
      /\ UNCHANGED <<program, marked, values, graph, processing, direction>>
  BY DEF BackwardEnd, Going
<1>2. PICK ps \in SetToSeqs(preds), cs \in SetToSeqs(callers) :
        backward_worklist' = InsertAll(InsertAll(backward_worklist, Elements(l, ps)), again(cs))
  BY DEF BackwardEnd
<1>3. /\ ProgramOK /\ ValuesOK /\ processing \in Labels
      /\ contexts \in [Labels -> ContextRecord]
      /\ Stack(backward_worklist) /\ Stack(forward_worklist)
      /\ marked \subseteq Interface
  BY DEF Typed, WorklistsOK, RestOK, ContextsOK
<1>4. /\ l \in Labels /\ f \in DOMAIN program /\ work.bb \in Blocks(program[f])
      /\ FirstIns(f, work.bb) \in Instructions
      /\ Pair \in Pending
  BY <1>1, ThisLemma
<1>5. moved \in BOOLEAN
  BY <1>3, <1>4 DEF ContextRecord
<1>6. outflow \in SUBSET Interface
  <2>1. Globals \cup Formal \subseteq Interface
    BY <1>3, InterfaceLemma DEF Globals
  <2>2. contexts[l].outflow.b \in SUBSET Interface
    BY <1>3, <1>4 DEF ContextRecord, Values
  <2>. QED  BY <2>1, <2>2 DEF GlobalandFunctionArg
<1>. HIDE DEF moved, outflow, before, after, live
<1>9. Grows /\ ContextsOK' /\ Labels' = Labels
  BY <1>1, <1>4, <1>5, <1>6, OutflowLemma
<1>10. ValuesOK'
  <2>1. Value' = Value
    BY <1>9, GrowsLemma DEF Value, Values
  <2>. QED  BY <1>1, <1>3, <2>1 DEF ValuesOK, values
<1>11. GraphOK'
  BY <1>1, <1>9, GraphLater
<1>12. /\ Stack(forward_worklist')
       /\ ToSet(forward_worklist') =
            ToSet(forward_worklist) \cup (IF before \/ after THEN {Pair} ELSE {})
  BY <1>1, <1>3, <1>4, StackInsert
<1>13. /\ Elements(l, ps) \in Seq(Pending) /\ ToSet(Elements(l, ps)) = Fresh(l, preds)
  <2>1. preds \in SUBSET Blocks(program[f]) /\ IsFiniteSet(Blocks(program[f]))
        /\ Blocks(program[f]) \subseteq AllBlocks
    BY <1>3, <1>4, BlocksLemma DEF predecessors
  <2>2. IsFiniteSet(preds)
    BY <2>1, FS_Subset
  <2>3. ps \in Seq(preds) /\ ToSet(ps) = preds
    BY <2>2, OrderLemma
  <2>4. Fresh(l, preds) \subseteq Pending
    BY <1>4, <2>1, FreshLemma DEF f
  <2>. HIDE DEF preds
  <2>. QED  BY <2>3, <2>4, ElementsLemma
<1>14. again(cs) \in Seq(Pending) /\ ToSet(again(cs)) = Again(callers, ~moved)
  <2>1. callers \in {getCallers(l), {}}
    OBVIOUS
  <2>2. (~moved) \in BOOLEAN
    BY <1>5
  <2>. HIDE DEF callers
  <2>. QED  BY <2>1, <2>2, CallersLemma
<1>. HIDE DEF again, callers, preds
<1>15. /\ Stack(backward_worklist')
       /\ ToSet(backward_worklist') =
            ToSet(backward_worklist) \cup Fresh(l, preds) \cup Again(callers, ~moved)
  <2> DEFINE w == InsertAll(backward_worklist, Elements(l, ps))
  <2>1. Stack(w) /\ ToSet(w) = ToSet(backward_worklist) \cup Fresh(l, preds)
    BY <1>3, <1>13, StackInsertAll
  <2>. HIDE DEF w
  <2>2. /\ Stack(InsertAll(w, again(cs)))
        /\ ToSet(InsertAll(w, again(cs))) = ToSet(w) \cup Again(callers, ~moved)
    BY <1>14, <2>1, StackInsertAll
  <2>. QED  BY <1>2, <2>1, <2>2 DEF w
<1>16. WorklistsOK'
  BY <1>9, <1>12, <1>15, StackLater DEF WorklistsOK, Stack
<1>17. WorkOK'
  BY <1>1 DEF WorkOK, Busy, NoBlock
<1>18. Typed'
  BY <1>1, <1>3, <1>9, <1>10, <1>11, <1>16, <1>17, TypedLater DEF Typed, RestOK
<1>. QED
  BY <1>9, <1>12, <1>15, <1>18 DEF moved, before, after, live, callers, preds

LEMMA ForwardEndTyped ==
  ASSUME Typed, ForwardEnd
  PROVE  LET l      == work.label
             f      == FunctionOf(l)
             out    == SLIM_OUT[l][LastIns(f, work.bb)].f
             after  == out # work.out.f
             before == SLIM_IN[l][FirstIns(f, work.bb)].f # work.in.f
             moved  == contexts[l].changed \/ before \/ after
         IN  /\ Typed' /\ Grows /\ Labels' = Labels
             /\ ToSet(backward_worklist') =
                  ToSet(backward_worklist) \cup (IF before THEN {Pair} ELSE {})
             /\ ToSet(forward_worklist') =
                  ToSet(forward_worklist)
                    \cup Fresh(l, IF after THEN ToSet(program[f].succ[work.bb]) ELSE {})
                    \cup Again(IF IsLast(f, work.bb) THEN getCallers(l) ELSE {}, ~moved)
<1> DEFINE l      == work.label
           f      == FunctionOf(l)
           n      == Len(Code(f, work.bb))
           out    == SLIM_OUT[l][LastIns(f, work.bb)].f
           after  == out # work.out.f
           before == SLIM_IN[l][FirstIns(f, work.bb)].f # work.in.f
           moved  == contexts[l].changed \/ before \/ after
           last   == IsLast(f, work.bb)
           outflow == IF last THEN PurelyGlobalForward(out, Globals)
                      ELSE contexts[l].outflow.f
           callers == IF last THEN getCallers(l) ELSE {}
           next == IF after THEN Elements(l, program[f].succ[work.bb]) ELSE <<>>
           succs == IF after THEN ToSet(program[f].succ[work.bb]) ELSE {}
           again(cs) == [k \in DOMAIN cs |-> Element(cs[k][1], cs[k][2], ~moved)]
<1>1. /\ work # NoBlock /\ direction = "forward"
      /\ work' = NoBlock
      /\ contexts' = SetOutflow(l, moved, "f", outflow)
      /\ backward_worklist' = IF before THEN workInsert(backward_worklist, Pair)
                              ELSE backward_worklist
      /\ UNCHANGED <<program, marked, values, graph, processing, direction>>
  BY DEF ForwardEnd, Going
<1>2. PICK cs \in SetToSeqs(callers) :
        forward_worklist' = InsertAll(InsertAll(forward_worklist, next), again(cs))
  BY DEF ForwardEnd
<1>3. /\ ProgramOK /\ ValuesOK /\ processing \in Labels
      /\ contexts \in [Labels -> ContextRecord]
      /\ Stack(backward_worklist) /\ Stack(forward_worklist)
      /\ marked \subseteq Interface
  BY DEF Typed, WorklistsOK, RestOK, ContextsOK
<1>4. /\ l \in Labels /\ f \in DOMAIN program /\ work.bb \in Blocks(program[f])
      /\ LastIns(f, work.bb) \in Instructions
      /\ Pair \in Pending
  BY <1>1, ThisLemma
<1>5. moved \in BOOLEAN
  BY <1>3, <1>4 DEF ContextRecord
<1>6. outflow \in SUBSET (Interface \X (Global \cup {Unknown}))
  <2>1. Globals \subseteq Interface
    BY <1>3, InterfaceLemma DEF Globals
  <2>2. contexts[l].outflow.f \in SUBSET (Interface \X (Global \cup {Unknown}))
    BY <1>3, <1>4 DEF ContextRecord, Values
  <2>3. out \in Pointers
    BY <1>3, <1>4, WriteLemma DEF ValuesOK
  <2>4. PurelyGlobalForward(out, Globals) \in SUBSET (Interface \X (Global \cup {Unknown}))
    <3>. HIDE DEF out
    <3>. QED
      BY <2>1, <2>3 DEF PurelyGlobalForward, restrictByLivness, Pointers, Pairs
  <2>. QED  BY <2>2, <2>4
<1>. HIDE DEF moved, outflow, before, after, out
<1>9. Grows /\ ContextsOK' /\ Labels' = Labels
  BY <1>1, <1>4, <1>5, <1>6, OutflowLemma
<1>10. ValuesOK'
  <2>1. Value' = Value
    BY <1>9, GrowsLemma DEF Value, Values
  <2>. QED  BY <1>1, <1>3, <2>1 DEF ValuesOK, values
<1>11. GraphOK'
  BY <1>1, <1>9, GraphLater
<1>12. /\ Stack(backward_worklist')
       /\ ToSet(backward_worklist') =
            ToSet(backward_worklist) \cup (IF before THEN {Pair} ELSE {})
  BY <1>1, <1>3, <1>4, StackInsert
<1>13. /\ next \in Seq(Pending) /\ ToSet(next) = Fresh(l, succs)
  <2> DEFINE bs == program[f].succ[work.bb]
             B == Blocks(program[f])
  <2>1. bs \in Seq(B) /\ ToSet(bs) \subseteq B
    BY <1>3, <1>4, BlocksLemma
  <2>2. Fresh(l, B) \subseteq Pending
    BY <1>4, FreshLemma DEF f
  <2>3. next = IF after THEN Elements(l, bs) ELSE <<>>
    OBVIOUS
  <2>4. succs = IF after THEN ToSet(bs) ELSE {}
    OBVIOUS
  <2>. HIDE DEF bs, B, next, succs
  <2>5. Elements(l, bs) \in Seq(Pending) /\ ToSet(Elements(l, bs)) = Fresh(l, ToSet(bs))
    BY <2>1, <2>2, ElementsLemma
  <2>6. <<>> \in Seq(Pending) /\ ToSet(<<>>) = Fresh(l, {})
    BY DEF Fresh, ToSet
  <2>. QED  BY <2>3, <2>4, <2>5, <2>6
<1>14. again(cs) \in Seq(Pending) /\ ToSet(again(cs)) = Again(callers, ~moved)
  <2>1. callers \in {getCallers(l), {}}
    OBVIOUS
  <2>2. (~moved) \in BOOLEAN
    BY <1>5
  <2>. HIDE DEF callers
  <2>. QED  BY <2>1, <2>2, CallersLemma
<1>. HIDE DEF again, callers, succs, next
<1>15. /\ Stack(forward_worklist')
       /\ ToSet(forward_worklist') =
            ToSet(forward_worklist) \cup Fresh(l, succs) \cup Again(callers, ~moved)
  <2> DEFINE w == InsertAll(forward_worklist, next)
  <2>1. Stack(w) /\ ToSet(w) = ToSet(forward_worklist) \cup Fresh(l, succs)
    BY <1>3, <1>13, StackInsertAll
  <2>. HIDE DEF w
  <2>2. /\ Stack(InsertAll(w, again(cs)))
        /\ ToSet(InsertAll(w, again(cs))) = ToSet(w) \cup Again(callers, ~moved)
    BY <1>14, <2>1, StackInsertAll
  <2>. QED  BY <1>2, <2>1, <2>2 DEF w
<1>16. WorklistsOK'
  BY <1>9, <1>12, <1>15, StackLater DEF WorklistsOK, Stack
<1>17. WorkOK'
  BY <1>1 DEF WorkOK, Busy, NoBlock
<1>18. Typed'
  BY <1>1, <1>3, <1>9, <1>10, <1>11, <1>16, <1>17, TypedLater DEF Typed, RestOK
<1>. QED
  BY <1>9, <1>12, <1>15, <1>18 DEF moved, before, after, out, callers, succs

LEMMA TurnTyped ==
  ASSUME Typed, Turn
  PROVE  Typed' /\ Grows /\ Labels' = Labels
<1>1. /\ UNCHANGED <<program, marked, contexts, values, graph, worklists, processing, work>>
      /\ direction' \in {"forward", "backward"} /\ work = NoBlock
  BY DEF Turn
<1>2. Grows /\ ContextsOK' /\ Labels' = Labels
  BY <1>1, SameContexts
<1>3. ValuesOK'
  <2>1. Value' = Value
    BY <1>2, GrowsLemma DEF Value, Values
  <2>. QED  BY <1>1, <2>1 DEF Typed, ValuesOK, values
<1>4. GraphOK'
  BY <1>1, <1>2, GraphLater
<1>5. WorklistsOK'
  BY <1>1, <1>2, StackLater DEF Typed, WorklistsOK, Stack, worklists
<1>6. WorkOK'
  BY <1>1 DEF WorkOK, Busy, NoBlock
<1>. QED  BY <1>1, <1>2, <1>3, <1>4, <1>5, <1>6, TypedLater DEF Typed, RestOK

LEMMA SameTyped ==
  ASSUME Typed, UNCHANGED vars
  PROVE  Typed' /\ Grows /\ Labels' = Labels
<1>1. UNCHANGED <<program, marked, contexts, values, graph, worklists, processing, direction, work>>
  BY DEF vars
<1>2. Grows /\ ContextsOK' /\ Labels' = Labels
  BY <1>1, SameContexts
<1>3. ValuesOK'
  <2>1. Value' = Value
    BY <1>2, GrowsLemma DEF Value, Values
  <2>. QED  BY <1>1, <2>1 DEF Typed, ValuesOK, values
<1>4. GraphOK'
  BY <1>1, <1>2, GraphLater
<1>5. WorklistsOK'
  BY <1>1, <1>2, StackLater DEF Typed, WorklistsOK, Stack, worklists
<1>6. WorkOK'
  BY <1>1, <1>2, WorkLater DEF Typed, WorkOK, Busy
<1>. QED  BY <1>1, <1>2, <1>3, <1>4, <1>5, <1>6, TypedLater DEF Typed, RestOK

LEMMA DistinctLemma ==
  ASSUME NEW S, NEW s \in Seq(S), IsInjective(s)
  PROVE  /\ \A l : IsInjective(Elements(l, s))
         /\ \A t \in Seq(S) : IsInjective(t) /\ ToSet(s) \cap ToSet(t) = {} => IsInjective(s \o t)
<1>1. ASSUME NEW l PROVE IsInjective(Elements(l, s))
  <2>1. /\ DOMAIN Elements(l, s) = DOMAIN s
        /\ \A n \in DOMAIN s : Elements(l, s)[n].bb = s[n]
    BY DEF Elements, Element
  <2>. QED  BY <2>1 DEF IsInjective
<1>2. ASSUME NEW t \in Seq(S), IsInjective(t), ToSet(s) \cap ToSet(t) = {}
      PROVE  IsInjective(s \o t)
  <2>1. /\ Len(s) \in Nat /\ Len(t) \in Nat
        /\ DOMAIN s = 1 .. Len(s) /\ DOMAIN t = 1 .. Len(t)
        /\ \A i \in 1 .. Len(s) : (s \o t)[i] = s[i] /\ s[i] \in ToSet(s)
        /\ \A i \in 1 .. Len(t) : (s \o t)[Len(s) + i] = t[i] /\ t[i] \in ToSet(t)
        /\ DOMAIN (s \o t) = 1 .. Len(s) + Len(t)
    BY DEF ToSet
  <2>2. \A i \in DOMAIN (s \o t) :
          \/ i \in 1 .. Len(s) /\ (s \o t)[i] = s[i] /\ s[i] \in ToSet(s)
          \/ /\ i \notin 1 .. Len(s) /\ i - Len(s) \in 1 .. Len(t)
             /\ (s \o t)[i] = t[i - Len(s)] /\ t[i - Len(s)] \in ToSet(t)
    <3>. SUFFICES ASSUME NEW i \in 1 .. Len(s) + Len(t), i \notin 1 .. Len(s)
                  PROVE  /\ i - Len(s) \in 1 .. Len(t)
                         /\ (s \o t)[i] = t[i - Len(s)] /\ t[i - Len(s)] \in ToSet(t)
      BY <2>1
    <3>1. i - Len(s) \in 1 .. Len(t) /\ i = Len(s) + (i - Len(s))
      BY <2>1
    <3>. QED  BY <2>1, <3>1
  <2>. SUFFICES ASSUME NEW i \in DOMAIN (s \o t), NEW j \in DOMAIN (s \o t),
                       (s \o t)[i] = (s \o t)[j]
                PROVE  i = j
    BY DEF IsInjective
  <2>3. CASE i \in 1 .. Len(s) /\ j \in 1 .. Len(s)
    BY <2>1, <2>3 DEF IsInjective
  <2>4. CASE i \notin 1 .. Len(s) /\ j \notin 1 .. Len(s)
    <3>1. i - Len(s) = j - Len(s)
      BY <1>2, <2>1, <2>2, <2>4 DEF IsInjective
    <3>2. i \in Int /\ j \in Int /\ Len(s) \in Int
      BY <2>1
    <3>. QED  BY <3>1, <3>2
  <2>5. (i \in 1 .. Len(s)) = (j \in 1 .. Len(s))
    BY <1>2, <2>2
  <2>. QED  BY <2>3, <2>4, <2>5
<1>. QED  BY <1>1, <1>2

LEMMA InitTyped ==
  ASSUME Init
  PROVE  Typed
<1> DEFINE fn == program["main"]
           c == NewContext("main", NoValue, NoValue, None)
<1>1. ProgramOK
  BY ProgramsAnalysed DEF Init, ProgramOK
<1>2. "main" \in DOMAIN program
  BY <1>1 DEF ProgramOK, IsProgram
<1>3. /\ marked = {} /\ contexts = [l \in {0} |-> c]
      /\ SLIM_IN = [l \in {0} |-> [i \in Instructions |-> NoValue]] /\ SLIM_OUT = SLIM_IN
      /\ graph = [e \in {} |-> 0]
      /\ forward_worklist = Elements(0, fn.post)
      /\ \E ends \in Terminating(fn) :
           backward_worklist = Elements(0, fn.ipost \o ends)
      /\ processing = 0 /\ direction = "backward" /\ work = NoBlock
  BY DEF Init
<1>4. Labels = {0} /\ FunctionOf(0) = "main" /\ {0} = 0 .. 1 - 1 /\ Cardinality({0}) = 1
  <2>1. Cardinality({0}) = 1
    BY FS_Singleton
  <2>2. {0} = 0 .. 1 - 1
    OBVIOUS
  <2>3. Labels = {0} /\ contexts[0] = c
    BY <1>3 DEF Labels
  <2>. QED  BY <2>1, <2>2, <2>3 DEF FunctionOf, NewContext
<1>5. NoValue \in Values(Interface) /\ NoValue \in Values(Variable)
  BY DEF NoValue, Values
<1>6. ContextsOK
  <2>1. c \in ContextRecord /\ c.source = None
    BY <1>2, <1>5 DEF NewContext, ContextRecord
  <2>2. contexts \in [Labels -> ContextRecord]
    BY <1>3, <1>4, <2>1
  <2>3. \A l \in Labels : contexts[l].source = None
    BY <1>3, <1>4, <2>1
  <2>. QED  BY <1>4, <2>2, <2>3 DEF ContextsOK
<1>7. ValuesOK
  BY <1>3, <1>4, <1>5 DEF ValuesOK, Value
<1>8. GraphOK
  BY <1>3, FS_EmptySet DEF GraphOK
<1>9. RestOK /\ WorkOK
  BY <1>3, <1>4 DEF RestOK, WorkOK, Busy
<1>. HIDE DEF fn
<1>10. /\ fn.post \in Seq(Blocks(fn)) /\ IsInjective(fn.post)
       /\ fn.ipost \in Seq(Blocks(fn)) /\ IsInjective(fn.ipost)
       /\ IsFiniteSet(Blocks(fn)) /\ Blocks(fn) \subseteq AllBlocks
  BY <1>1, <1>2, BlocksLemma DEF fn
<1>11. Fresh(0, Blocks(fn)) \subseteq Pending
  <2>1. \A b \in Blocks(fn) : Element(0, b, FALSE) \in Pending
    <3>1. 0 \in Labels /\ program[FunctionOf(0)] = fn
      BY <1>4 DEF fn
    <3>. QED  BY <1>10, <3>1 DEF Element, Pending
  <2>. QED  BY <2>1 DEF Fresh
<1>12. Stack(forward_worklist)
  BY <1>3, <1>10, <1>11, ElementsLemma, DistinctLemma DEF Stack
<1>13. Stack(backward_worklist)
  <2>1. PICK ends \in Terminating(fn) : backward_worklist = Elements(0, fn.ipost \o ends)
    BY <1>3
  <2>2. fn.ipost \o ends \in Seq(Blocks(fn))
    BY <1>1, <1>2, QueuedLemma DEF fn
  <2> DEFINE rest == getTerminatingBBList(fn) \ ToSet(fn.ipost)
  <2>3. rest \in SUBSET Blocks(fn) /\ ends \in SetToSeqs(rest)
    BY DEF getTerminatingBBList, Terminating
  <2>4. ToSet(fn.ipost) \cap rest = {}
    OBVIOUS
  <2>. HIDE DEF rest
  <2>5. IsFiniteSet(rest)
    BY <1>10, <2>3, FS_Subset
  <2>6. ends \in Seq(rest) /\ ToSet(ends) = rest /\ IsInjective(ends)
    BY <2>3, <2>5, OrderLemma
  <2>7. ends \in Seq(Blocks(fn))
    <3>1. Len(ends) \in Nat /\ ends = [n \in 1 .. Len(ends) |-> ends[n]]
          /\ \A n \in 1 .. Len(ends) : ends[n] \in Blocks(fn)
      BY <2>3, <2>6
    <3>. QED  BY <3>1
  <2>8. IsInjective(fn.ipost \o ends)
    BY <1>10, <2>4, <2>6, <2>7, DistinctLemma
  <2> DEFINE bs == fn.ipost \o ends
  <2>9. bs \in Seq(Blocks(fn)) /\ IsInjective(bs) /\ backward_worklist = Elements(0, bs)
    BY <2>1, <2>2, <2>8
  <2>. HIDE DEF bs
  <2>10. Elements(0, bs) \in Seq(Pending)
    BY <1>11, <2>9, ElementsLemma
  <2>11. IsInjective(Elements(0, bs))
    BY <2>9, DistinctLemma
  <2>. QED  BY <2>9, <2>10, <2>11 DEF Stack
<1>. QED  BY <1>1, <1>6, <1>7, <1>8, <1>9, <1>12, <1>13 DEF Typed, WorklistsOK

LEMMA NextTyped ==
  ASSUME Typed, [Next]_vars
  PROVE  Typed' /\ Grows
<1>1. CASE Backward
  BY <1>1, BackwardBlockTyped, BackwardPlainTyped, BackwardCallTyped,
     BackwardNewContextTyped, BackwardEndTyped DEF Backward
<1>2. CASE Forward
  BY <1>2, ForwardBlockTyped, ForwardPlainTyped, ForwardCallTyped,
     ForwardNewContextTyped, ForwardEndTyped DEF Forward
<1>3. CASE Turn
  BY <1>3, TurnTyped
<1>4. CASE UNCHANGED vars
  BY <1>4, SameTyped
<1>. QED  BY <1>1, <1>2, <1>3, <1>4 DEF Next

LEMMA TypedImplies ==
  ASSUME Typed
  PROVE  TypeOK
<1>1. /\ ProgramOK
      /\ Cardinality(Labels) \in Nat \ {0} /\ Labels = 0 .. Cardinality(Labels) - 1
      /\ contexts \in [Labels -> ContextRecord]
      /\ \A l \in Labels : contexts[l].source # None =>
           /\ contexts[l].source \in 0 .. l - 1
           /\ FunctionOf(contexts[l].source) = FunctionOf(l)
  BY DEF Typed, ContextsOK
<1>2. \A l \in Labels :
        /\ contexts[l] \in [function : DOMAIN program, changed : BOOLEAN,
                           inflow : Values(Interface), outflow : Values(Interface),
                           source : (0 .. l - 1) \cup {None}]
        /\ contexts[l].source # None => FunctionOf(contexts[l].source) = FunctionOf(l)
  <2>. SUFFICES ASSUME NEW l \in Labels
                PROVE  contexts[l] \in [function : DOMAIN program, changed : BOOLEAN,
                                       inflow : Values(Interface), outflow : Values(Interface),
                                       source : (0 .. l - 1) \cup {None}]
    BY <1>1
  <2>1. contexts[l] \in ContextRecord /\ contexts[l].source \in (0 .. l - 1) \cup {None}
    BY <1>1
  <2>. QED  BY <2>1 DEF ContextRecord
<1>3. {SLIM_IN, SLIM_OUT} \subseteq [Labels -> [Instructions -> Values(Variable)]]
  BY DEF Typed, ValuesOK, Value
<1>4. \A e \in DOMAIN graph :
        /\ e[1] \in Labels /\ FunctionOf(e[1]) = e[2][1]
        /\ CodeAt(e[2]).op = "call" /\ CodeAt(e[2]).rhs = FunctionOf(graph[e])
  BY DEF Typed, GraphOK, IsEdge
<1>5. ASSUME NEW w, Stack(w) PROVE IsWorklist(w)
  <2>1. \A n \in DOMAIN w : w[n] \in Pending
    BY <1>5 DEF Stack
  <2>2. \A e \in ToSet(w) : e \in Pending
    BY <2>1 DEF ToSet
  <2>. QED  BY <1>5, <2>2 DEF IsWorklist, Pending, Stack
<1>6. IsWorklist(forward_worklist) /\ IsWorklist(backward_worklist)
  BY <1>5 DEF Typed, WorklistsOK
<1>7. work # NoBlock => work.label \in Labels
  BY ThisLemma
<1>. QED  BY <1>1, <1>2, <1>3, <1>4, <1>6, <1>7 DEF TypeOK, Typed, RestOK

(* All tables of the engine are indexed by contexts, instructions and blocks *)
(* that exist, and worklists hold nothing twice, for every program SLIM      *)
(* makes of a module (Analysis.h 2823-2970, Worklist.h 18-37).               *)
THEOREM TypeCorrect == Spec => []TypeOK
<1>1. Init => Typed
  BY InitTyped
<1>2. Typed /\ [Next]_vars => Typed'
  BY NextTyped
<1>3. Typed => TypeOK
  BY TypedImplies
<1>. QED  BY <1>1, <1>2, <1>3, PTL DEF Spec

(* Whatever module is analysed, each call is alone in its block with the     *)
(* assignments SLIM adds to it, in the blocks that lead to the last one      *)
(* (Analysis.h 1971-2036).                                                   *)
THEOREM CallsSplit == Spec => []CallsAlone
<1>1. Init => Typed
  BY InitTyped
<1>2. Typed /\ [Next]_vars => Typed'
  BY NextTyped
<1>3. Typed => CallsAlone
  <2>. SUFFICES ASSUME Typed, NEW f \in DOMAIN program, NEW b \in ToSet(program[f].ipost)
                PROVE  SplitBlock(program[f].code[b])
    BY DEF CallsAlone
  <2>1. IsFunction(program[f], program)
    BY DEF Typed, ProgramOK, IsProgram
  <2>. QED  BY <2>1 DEF IsFunction
<1>. QED  BY <1>1, <1>2, <1>3, PTL DEF Spec

-----------------------------------------------------------------------------
(* Recorded calls *)

LEMMA KnownLater ==
  ASSUME Typed, Grows, DOMAIN graph \subseteq DOMAIN graph', NEW l \in Labels, NEW b
  PROVE  /\ CallsOf(FunctionOf(l), b)' = CallsOf(FunctionOf(l), b)
         /\ \A i : Known(l, b, i) => Known(l, b, i)'
         /\ AllKnown(l, b) => AllKnown(l, b)'
<1>1. /\ FunctionOf(l)' = FunctionOf(l)
      /\ \A f, c : Code(f, c)' = Code(f, c)
      /\ \A x : CodeAt(x)' = CodeAt(x)
  BY GrowsLemma
<1>2. CallsOf(FunctionOf(l), b)' = CallsOf(FunctionOf(l), b)
  BY <1>1 DEF CallsOf
<1>3. \A i : Known(l, b, i) => Known(l, b, i)'
  BY <1>1 DEF Known
<1>. QED  BY <1>2, <1>3 DEF AllKnown

LEMMA QueuedPending ==
  ASSUME Typed
  PROVE  /\ \A e \in ToSet(backward_worklist) \cup ToSet(forward_worklist) : e \in Pending
         /\ \A e \in DOMAIN graph : e[1] \in Labels
<1>1. Stack(backward_worklist) /\ Stack(forward_worklist)
  BY DEF Typed, WorklistsOK
<1>2. ASSUME NEW w, Stack(w), NEW e \in ToSet(w) PROVE e \in Pending
  <2>1. \A n \in DOMAIN w : w[n] \in Pending
    BY <1>2 DEF Stack
  <2>. QED  BY <2>1 DEF ToSet
<1>3. \A e \in DOMAIN graph : e[1] \in Labels
  BY DEF Typed, GraphOK, IsEdge
<1>. QED  BY <1>1, <1>2, <1>3

(* An instruction of the block in hand is handled.                           *)
LEMMA WalkLemma ==
  ASSUME Typed, Grows, CallsRecorded, work # NoBlock, work' # NoBlock,
         direction' = direction, work.i \in Nat,
         work'.label = work.label, work'.bb = work.bb, work'.done = work.done,
         work'.i = IF direction = "backward" THEN work.i - 1 ELSE work.i + 1,
         DOMAIN graph' = DOMAIN graph \cup (IF At.op = "call" THEN {<<work.label, This>>} ELSE {}),
         \A e \in ToSet(backward_worklist') \cup ToSet(forward_worklist') :
           e.done => e \in ToSet(backward_worklist) \cup ToSet(forward_worklist) \cup {PairDone}
  PROVE  CallsRecorded'
<1>1. DOMAIN graph \subseteq DOMAIN graph'
  OBVIOUS
<1>2. /\ work.label \in Labels
      /\ \A e \in ToSet(backward_worklist) \cup ToSet(forward_worklist) : e.label \in Labels
      /\ \A e \in DOMAIN graph : e[1] \in Labels
  BY ThisLemma, QueuedPending DEF Pending
<1>3. \A l, b : InHand(l, b)' = InHand(l, b)
  BY DEF InHand, NoBlock
<1>4. ASSUME NEW l \in Labels, NEW b, InHand(l, b) \/ AllKnown(l, b)
      PROVE  InHand(l, b)' \/ AllKnown(l, b)'
  BY <1>1, <1>3, <1>4, KnownLater
<1>5. EdgesRecorded'
  <2>. SUFFICES ASSUME NEW e \in DOMAIN graph'
                PROVE  InHand(e[1], e[2][2])' \/ AllKnown(e[1], e[2][2])'
    BY DEF EdgesRecorded
  <2>1. CASE e \in DOMAIN graph
    BY <1>2, <1>4, <2>1 DEF CallsRecorded, EdgesRecorded
  <2>2. CASE e = <<work.label, This>>
    <3>1. e[1] = work.label /\ e[2][2] = work.bb
      BY <2>2 DEF This
    <3>. QED  BY <1>3, <3>1 DEF InHand
  <2>. QED  BY <2>1, <2>2
<1>6. DoneRecorded'
  <2>. SUFFICES ASSUME NEW e \in ToSet(backward_worklist') \cup ToSet(forward_worklist'), e.done
                PROVE  InHand(e.label, e.bb)' \/ AllKnown(e.label, e.bb)'
    BY DEF DoneRecorded
  <2>1. CASE e \in ToSet(backward_worklist) \cup ToSet(forward_worklist)
    BY <1>2, <1>4, <2>1 DEF CallsRecorded, DoneRecorded
  <2>2. CASE e = PairDone
    <3>1. e.label = work.label /\ e.bb = work.bb
      BY <2>2 DEF PairDone, Element
    <3>. QED  BY <1>3, <3>1 DEF InHand
  <2>. QED  BY <2>1, <2>2
<1>7. WalkRecorded'
  <2> DEFINE l == work.label
             b == work.bb
             f == FunctionOf(l)
  <2>1. \A i \in CallsOf(f, b) : Known(l, b, i) \/ (~work.done /\ StillToCome(i))
    BY DEF CallsRecorded, WalkRecorded
  <2>2. \A k \in Labels : \A c : /\ CallsOf(FunctionOf(k), c)' = CallsOf(FunctionOf(k), c)
                                 /\ \A i : Known(k, c, i) => Known(k, c, i)'
    BY <1>1, KnownLater
  <2>4. ASSUME NEW i \in CallsOf(f, b), ~Known(l, b, i)
        PROVE  \/ <<l, <<f, b, i>>>> \in DOMAIN graph'
               \/ ~work.done /\ IF direction = "backward" THEN i <= work'.i ELSE i >= work'.i
    <3>1. ~work.done /\ StillToCome(i) /\ i \in Nat
      BY <2>1, <2>4 DEF CallsOf
    <3>2. CASE i = work.i
      <4>1. <<f, b, i>> = This /\ At.op = "call"
        BY <3>2 DEF This, At, CallsOf
      <4>. QED  BY <4>1
    <3>3. CASE i # work.i
      <4>1. IF direction = "backward" THEN i <= work'.i ELSE i >= work'.i
        BY <3>1, <3>3 DEF StillToCome
      <4>. QED  BY <3>1, <4>1
    <3>. QED  BY <3>2, <3>3
  <2>5. \A k \in Labels : FunctionOf(k)' = FunctionOf(k)
    BY GrowsLemma
  <2>6. \A k \in Labels : \A c, i :
          Known(k, c, i)' = (<<k, <<FunctionOf(k), c, i>>>> \in DOMAIN graph')
    BY <2>5 DEF Known
  <2>7. \A i : StillToCome(i)' = IF direction = "backward" THEN i <= work'.i ELSE i >= work'.i
    BY DEF StillToCome
  <2>8. \A k \in Labels : \A c :
          work'.label = k /\ work'.bb = c =>
            (WalkRecorded' <=>
               \A i \in CallsOf(FunctionOf(k), c)' : Known(k, c, i)' \/ (~work'.done /\ StillToCome(i)'))
    <3>. SUFFICES ASSUME NEW k \in Labels, NEW c, work'.label = k, work'.bb = c
                  PROVE  WalkRecorded' <=>
               \A i \in CallsOf(FunctionOf(k), c)' : Known(k, c, i)' \/ (~work'.done /\ StillToCome(i)')
      OBVIOUS
    <3>. QED
      BY DEF WalkRecorded, NoBlock, CallsOf, Known, FunctionOf, StillToCome
  <2>. HIDE DEF f
  <2>9. \A i \in CallsOf(f, b) :
          \/ <<l, <<f, b, i>>>> \in DOMAIN graph'
          \/ ~work.done /\ IF direction = "backward" THEN i <= work'.i ELSE i >= work'.i
    BY <1>1, <2>4 DEF Known, f
  <2>10. ASSUME NEW k \in Labels, NEW c, work.label = k, work.bb = c
         PROVE  WalkRecorded'
    <3>1. \A i \in CallsOf(FunctionOf(k), c) :
            Known(k, c, i)' \/ (~work'.done /\ StillToCome(i)')
      <4>1. CallsOf(FunctionOf(k), c) = CallsOf(f, b) /\ FunctionOf(k) = f /\ c = b /\ k = l
        BY <2>10 DEF f
      <4>. SUFFICES ASSUME NEW i \in CallsOf(FunctionOf(k), c)
                    PROVE  Known(k, c, i)' \/ (~work'.done /\ StillToCome(i)')
        OBVIOUS
      <4>2. CASE <<l, <<f, b, i>>>> \in DOMAIN graph'
        <5>1. <<k, <<FunctionOf(k), c, i>>>> \in DOMAIN graph'
          BY <4>1, <4>2
        <5>2. Known(k, c, i)'
          BY <2>6, <5>1
        <5>. QED  BY <5>2
      <4>3. CASE ~work.done /\ IF direction = "backward" THEN i <= work'.i ELSE i >= work'.i
        BY <2>7, <4>3
      <4>. QED  BY <2>9, <4>1, <4>2, <4>3
    <3>. QED  BY <2>2, <2>8, <2>10, <3>1
  <2>. QED  BY <1>2, <2>10
<1>. QED  BY <1>5, <1>6, <1>7 DEF CallsRecorded

(* A block is taken from a worklist.                                         *)
LEMMA TakeLemma ==
  ASSUME Typed, Grows, CallsRecorded, work = NoBlock, graph' = graph,
         NEW e \in ToSet(backward_worklist) \cup ToSet(forward_worklist), NEW v,
         NEW i, \/ direction' = "backward" /\ i = Len(Code(FunctionOf(e.label), e.bb))
                \/ direction' = "forward" /\ i = 1,
         work' = Working(e, i, v),
         \A d \in ToSet(backward_worklist') \cup ToSet(forward_worklist') :
           d \in ToSet(backward_worklist) \cup ToSet(forward_worklist)
  PROVE  CallsRecorded'
<1>1. /\ e.label \in Labels
      /\ \A d \in ToSet(backward_worklist) \cup ToSet(forward_worklist) : d.label \in Labels
      /\ \A d \in DOMAIN graph : d[1] \in Labels
  BY QueuedPending DEF Pending
<1>2. ASSUME NEW l \in Labels, NEW b, InHand(l, b) \/ AllKnown(l, b)
      PROVE  AllKnown(l, b) /\ AllKnown(l, b)'
  BY <1>2, KnownLater DEF InHand
<1>3. EdgesRecorded'
  BY <1>1, <1>2 DEF CallsRecorded, EdgesRecorded
<1>4. DoneRecorded'
  BY <1>1, <1>2 DEF CallsRecorded, DoneRecorded
<1>5. work'.label = e.label /\ work'.bb = e.bb /\ work'.done = e.done /\ work'.i = i
  BY DEF Working
<1>6. ASSUME NEW k \in Labels, NEW c, e.label = k, e.bb = c
      PROVE  WalkRecorded'
  <2>1. \A j \in CallsOf(FunctionOf(k), c) : e.done => Known(k, c, j)'
    <3>1. e.done => AllKnown(k, c)'
      BY <1>1, <1>2, <1>6 DEF CallsRecorded, DoneRecorded
    <3>2. CallsOf(FunctionOf(k), c)' = CallsOf(FunctionOf(k), c)
      BY KnownLater
    <3>. QED  BY <3>1, <3>2 DEF AllKnown
  <2>2. \A j \in CallsOf(FunctionOf(k), c) : StillToCome(j)'
    <3>1. \A j \in CallsOf(FunctionOf(k), c) : j \in 1 .. Len(Code(FunctionOf(k), c))
      BY DEF CallsOf
    <3>2. Len(Code(FunctionOf(k), c)) \in Nat
      BY <1>1, <1>6, ElementLemma, QueuedPending
    <3>3. CASE direction' = "backward"
      BY <1>5, <1>6, <3>1, <3>2, <3>3 DEF StillToCome
    <3>4. CASE direction' = "forward"
      BY <1>5, <1>6, <3>1, <3>2, <3>4 DEF StillToCome
    <3>. QED  BY <3>3, <3>4
  <2>3. WalkRecorded' <=>
          (work' # NoBlock =>
             \A j \in CallsOf(FunctionOf(k), c)' : Known(k, c, j)' \/ (~work'.done /\ StillToCome(j)'))
    BY <1>5, <1>6 DEF WalkRecorded, NoBlock, CallsOf, Known, FunctionOf, StillToCome
  <2>4. CallsOf(FunctionOf(k), c)' = CallsOf(FunctionOf(k), c)
    BY KnownLater
  <2>. QED  BY <1>5, <2>1, <2>2, <2>3, <2>4
<1>7. WalkRecorded'
  BY <1>1, <1>6
<1>. QED  BY <1>3, <1>4, <1>7 DEF CallsRecorded

(* The block in hand is done with.                                           *)
LEMMA PutLemma ==
  ASSUME Typed, Grows, CallsRecorded, work # NoBlock, work' = NoBlock, graph' = graph,
         \A i \in CallsOf(FunctionOf(work.label), work.bb) : ~StillToCome(i),
         \A e \in ToSet(backward_worklist') \cup ToSet(forward_worklist') :
           e.done =>
             \/ e \in ToSet(backward_worklist) \cup ToSet(forward_worklist)
             \/ \E d \in DOMAIN graph : e.label = d[1] /\ e.bb = d[2][2]
  PROVE  CallsRecorded'
<1>1. /\ \A e \in ToSet(backward_worklist) \cup ToSet(forward_worklist) : e.label \in Labels
      /\ \A e \in DOMAIN graph : e[1] \in Labels
  BY QueuedPending DEF Pending
<1>2. ASSUME NEW l \in Labels, NEW b, InHand(l, b) \/ AllKnown(l, b)
      PROVE  AllKnown(l, b)'
  <2>1. InHand(l, b) => AllKnown(l, b)
    BY DEF InHand, CallsRecorded, WalkRecorded, AllKnown
  <2>. QED  BY <1>2, <2>1, KnownLater
<1>3. EdgesRecorded'
  BY <1>1, <1>2 DEF CallsRecorded, EdgesRecorded
<1>4. DoneRecorded'
  <2>. SUFFICES ASSUME NEW e \in ToSet(backward_worklist') \cup ToSet(forward_worklist'), e.done
                PROVE  AllKnown(e.label, e.bb)'
    BY DEF DoneRecorded
  <2>1. CASE e \in ToSet(backward_worklist) \cup ToSet(forward_worklist)
    BY <1>1, <1>2, <2>1 DEF CallsRecorded, DoneRecorded
  <2>2. CASE \E d \in DOMAIN graph : e.label = d[1] /\ e.bb = d[2][2]
    <3>1. PICK d \in DOMAIN graph : e.label = d[1] /\ e.bb = d[2][2]
      BY <2>2
    <3>2. InHand(e.label, e.bb) \/ AllKnown(e.label, e.bb)
      BY <3>1 DEF CallsRecorded, EdgesRecorded
    <3>. QED  BY <1>1, <1>2, <3>1, <3>2
  <2>. QED  BY <2>1, <2>2
<1>5. WalkRecorded'
  BY DEF WalkRecorded, NoBlock
<1>. QED  BY <1>3, <1>4, <1>5 DEF CallsRecorded

LEMMA StepFields ==
  ASSUME Typed, work # NoBlock
  PROVE  /\ work.i \in Nat
         /\ \A i, v : Steps([work EXCEPT !.i = i, !.prev = v], i)
         /\ \A i : Steps([work EXCEPT !.i = i], i)
<1>1. work \in WorkRecord
  BY ThisLemma DEF WorkIn
<1>2. work.label \in Labels /\ Labels \subseteq Nat
  BY ThisLemma DEF Typed, ContextsOK
<1>3. ASSUME NEW w, w.label = work.label PROVE w # NoBlock
  <2>1. NoBlock.label = None
    BY DEF NoBlock
  <2>. QED  BY <1>2, <1>3, <2>1, NoneDiffers
<1>4. ASSUME NEW i, NEW v
      PROVE  Steps([work EXCEPT !.i = i, !.prev = v], i) /\ Steps([work EXCEPT !.i = i], i)
  BY <1>1, <1>3 DEF WorkRecord, Steps
<1>. QED  BY <1>1, <1>4 DEF WorkRecord

LEMMA EveryWorkInsert ==
  ASSUME Typed, NEW w, Stack(w), NEW e \in Pending
  PROVE  \A d \in ToSet(workInsert(w, e)) : d \in ToSet(w) \/ d = e
BY StackInsert

LEMMA RecordedPlain ==
  ASSUME Typed, CallsRecorded, BackwardPlain \/ ForwardPlain
  PROVE  CallsRecorded'
<1>1. Grows
  BY BackwardPlainTyped, ForwardPlainTyped
<1>2. /\ Stack(backward_worklist) /\ Stack(forward_worklist) /\ work # NoBlock
      /\ Pair \in Pending /\ Pair.done = FALSE
  BY ThisLemma DEF Typed, WorklistsOK, BackwardPlain, ForwardPlain, Going, Pair, Element
<1>3. /\ graph' = graph /\ At.op # "call" /\ direction' = direction
      /\ \/ /\ direction = "backward" /\ backward_worklist' = backward_worklist
            /\ forward_worklist' \in {forward_worklist, workInsert(forward_worklist, Pair)}
            /\ Steps(work', work.i - 1)
         \/ /\ direction = "forward" /\ forward_worklist' = forward_worklist
            /\ backward_worklist' \in {backward_worklist, workInsert(backward_worklist, Pair)}
            /\ Steps(work', work.i + 1)
  <2>1. CASE BackwardPlain
    <3>1. work # NoBlock
      BY <2>1 DEF BackwardPlain, Going
    <3>2. Steps(work', work.i - 1)
      BY <2>1, <3>1, StepFields, ZenonT(40) DEF BackwardPlain
    <3>3. forward_worklist' \in {forward_worklist, workInsert(forward_worklist, Pair)}
      BY <2>1 DEF BackwardPlain
    <3>. QED  BY <2>1, <3>2, <3>3 DEF BackwardPlain, Going
  <2>2. CASE ForwardPlain
    <3>1. work # NoBlock
      BY <2>2 DEF ForwardPlain, Going
    <3>2. Steps(work', work.i + 1)
      BY <2>2, <3>1, StepFields, ZenonT(40) DEF ForwardPlain
    <3>3. backward_worklist' \in {backward_worklist, workInsert(backward_worklist, Pair)}
      BY <2>2 DEF ForwardPlain
    <3>. QED  BY <2>2, <3>2, <3>3 DEF ForwardPlain, Going
  <2>. QED  BY <2>1, <2>2
<1>4. /\ work' # NoBlock /\ work.i \in Nat
      /\ work'.label = work.label /\ work'.bb = work.bb /\ work'.done = work.done
      /\ work'.i = IF direction = "backward" THEN work.i - 1 ELSE work.i + 1
  BY <1>2, <1>3, StepFields DEF Steps
<1>5. \A e \in ToSet(backward_worklist') \cup ToSet(forward_worklist') :
        e.done => e \in ToSet(backward_worklist) \cup ToSet(forward_worklist) \cup {PairDone}
  <2>1. /\ \A e \in ToSet(workInsert(backward_worklist, Pair)) :
             e \in ToSet(backward_worklist) \/ e = Pair
        /\ \A e \in ToSet(workInsert(forward_worklist, Pair)) :
             e \in ToSet(forward_worklist) \/ e = Pair
    BY <1>2, EveryWorkInsert
  <2>. QED  BY <1>2, <1>3, <2>1
<1>. QED  BY <1>1, <1>2, <1>3, <1>4, <1>5, WalkLemma

LEMMA RecordedCall ==
  ASSUME Typed, CallsRecorded, BackwardCall \/ ForwardCall
  PROVE  CallsRecorded'
<1>1. Grows
  BY BackwardCallTyped, ForwardCallTyped
<1>2. /\ At.op = "call" /\ direction' = direction /\ work # NoBlock
      /\ UNCHANGED worklists
      /\ \E k : graph' = Put(graph, <<work.label, This>>, k)
      /\ \/ /\ direction = "backward"
            /\ Steps(work', work.i - 1)
         \/ /\ direction = "forward"
            /\ Steps(work', work.i + 1)
  <2>1. CASE BackwardCall
    <3>1. work # NoBlock
      BY <2>1 DEF BackwardCall, Going
    <3>. QED  BY <2>1, <3>1, StepFields DEF BackwardCall, Going, addEdge
  <2>2. CASE ForwardCall
    <3>1. work # NoBlock
      BY <2>2 DEF ForwardCall, Going
    <3>. QED  BY <2>2, <3>1, StepFields DEF ForwardCall, Going, addEdge
  <2>. QED  BY <2>1, <2>2
<1>3. /\ work' # NoBlock /\ work.i \in Nat
      /\ work'.label = work.label /\ work'.bb = work.bb /\ work'.done = work.done
      /\ work'.i = IF direction = "backward" THEN work.i - 1 ELSE work.i + 1
  BY <1>2, StepFields DEF Steps
<1>4. DOMAIN graph' = DOMAIN graph \cup {<<work.label, This>>}
  BY <1>2 DEF Put
<1>5. backward_worklist' = backward_worklist /\ forward_worklist' = forward_worklist
  BY <1>2 DEF worklists
<1>. QED  BY <1>1, <1>2, <1>3, <1>4, <1>5, WalkLemma

LEMMA RecordedNewContext ==
  ASSUME Typed, CallsRecorded, BackwardNewContext \/ ForwardNewContext
  PROVE  CallsRecorded'
<1>1. /\ Grows /\ work # NoBlock /\ direction' = direction /\ At.op = "call"
      /\ DOMAIN graph' = DOMAIN graph \cup {<<work.label, This>>}
      /\ \/ direction = "backward" /\ Steps(work', work.i - 1)
         \/ direction = "forward" /\ Steps(work', work.i + 1)
      /\ \E f, inflow, I, O, fw, bw :
           /\ Created(f, inflow, I, O, fw, bw)
           /\ fw \in {forward_worklist, workInsert(forward_worklist, PairDone)}
           /\ bw \in {backward_worklist, workInsert(backward_worklist, PairDone)}
  <2>1. CASE BackwardNewContext
    <3>1. /\ work # NoBlock /\ direction = "backward" /\ direction' = direction
          /\ At.op = "call" /\ work' = [work EXCEPT !.i = work.i - 1]
          /\ DOMAIN graph' = DOMAIN graph \cup {<<work.label, This>>}
      BY <2>1 DEF BackwardNewContext, Going, addEdge, Put
    <3>. QED  BY <2>1, <3>1, StepFields, BackwardNewContextTyped
  <2>2. CASE ForwardNewContext
    <3>1. /\ work # NoBlock /\ direction = "forward" /\ direction' = direction
          /\ At.op = "call" /\ work' = [work EXCEPT !.i = work.i + 1, !.prev = ForwardPrev]
          /\ DOMAIN graph' = DOMAIN graph \cup {<<work.label, This>>}
      BY <2>2 DEF ForwardNewContext, Going, addEdge, Put
    <3>. QED  BY <2>2, <3>1, StepFields, ForwardNewContextTyped
  <2>. QED  BY <2>1, <2>2
<1>2. /\ work' # NoBlock /\ work.i \in Nat
      /\ work'.label = work.label /\ work'.bb = work.bb /\ work'.done = work.done
      /\ work'.i = IF direction = "backward" THEN work.i - 1 ELSE work.i + 1
  BY <1>1, StepFields DEF Steps
<1>3. \A e \in ToSet(backward_worklist') \cup ToSet(forward_worklist') :
        e.done => e \in ToSet(backward_worklist) \cup ToSet(forward_worklist) \cup {PairDone}
  <2>1. PICK f, inflow, I, O, fw, bw :
           /\ Created(f, inflow, I, O, fw, bw)
           /\ fw \in {forward_worklist, workInsert(forward_worklist, PairDone)}
           /\ bw \in {backward_worklist, workInsert(backward_worklist, PairDone)}
    BY <1>1
  <2>2. /\ \A e \in ToSet(bw) : e \in ToSet(backward_worklist) \/ e = PairDone
        /\ \A e \in ToSet(fw) : e \in ToSet(forward_worklist) \/ e = PairDone
    <3>1. /\ Stack(forward_worklist) /\ Stack(backward_worklist) /\ PairDone \in Pending
      BY <1>1, ThisLemma DEF Typed, WorklistsOK
    <3>2. /\ \A e \in ToSet(workInsert(backward_worklist, PairDone)) :
               e \in ToSet(backward_worklist) \/ e = PairDone
          /\ \A e \in ToSet(workInsert(forward_worklist, PairDone)) :
               e \in ToSet(forward_worklist) \/ e = PairDone
      BY <3>1, EveryWorkInsert
    <3>. QED  BY <2>1, <3>2
  <2>3. \A l, bs : \A e \in Fresh(l, bs) : ~e.done
    BY DEF Fresh, Element
  <2>4. \E l, bs, cs : /\ ToSet(forward_worklist') = ToSet(fw) \cup Fresh(l, bs)
                       /\ ToSet(backward_worklist') = ToSet(bw) \cup Fresh(l, cs)
    BY <2>1 DEF Created
  <2>. QED  BY <2>2, <2>3, <2>4
<1>. QED  BY <1>1, <1>2, <1>3, WalkLemma

LEMMA RecordedBlock ==
  ASSUME Typed, CallsRecorded, BackwardBlock \/ ForwardBlock
  PROVE  CallsRecorded'
<1>1. CASE BackwardBlock
  <2> DEFINE e == Last(backward_worklist)
             n == Len(Code(FunctionOf(e.label), e.bb))
  <2>1. /\ work = NoBlock /\ graph' = graph /\ direction' = "backward"
        /\ backward_worklist # <<>> /\ backward_worklist' = Front(backward_worklist)
        /\ forward_worklist' = forward_worklist
        /\ \E v : work' = Working(e, n, v)
    BY <1>1 DEF BackwardBlock
  <2>2. ToSet(backward_worklist) = ToSet(backward_worklist') \cup {e}
    BY <2>1, TopLemma DEF Typed, WorklistsOK, Stack
  <2>3. Grows
    BY <1>1, BackwardBlockTyped
  <2>. HIDE DEF e
  <2>. QED  BY <2>1, <2>2, <2>3, TakeLemma
<1>2. CASE ForwardBlock
  <2> DEFINE e == Last(forward_worklist)
  <2>1. /\ work = NoBlock /\ graph' = graph /\ direction' = "forward"
        /\ forward_worklist # <<>> /\ forward_worklist' = Front(forward_worklist)
        /\ backward_worklist' = backward_worklist
        /\ \E v : work' = Working(e, 1, v)
    BY <1>2 DEF ForwardBlock
  <2>2. ToSet(forward_worklist) = ToSet(forward_worklist') \cup {e}
    BY <2>1, TopLemma DEF Typed, WorklistsOK, Stack
  <2>3. Grows
    BY <1>2, ForwardBlockTyped
  <2>. HIDE DEF e
  <2>. QED  BY <2>1, <2>2, <2>3, TakeLemma
<1>. QED  BY <1>1, <1>2

LEMMA AgainCallers ==
  ASSUME NEW l, NEW c, NEW done, NEW e \in Again(IF c THEN getCallers(l) ELSE {}, done)
  PROVE  \E d \in DOMAIN graph : e.label = d[1] /\ e.bb = d[2][2]
<1>1. PICK x \in getCallers(l) : e = Element(x[1], x[2], done)
  BY DEF Again
<1>2. PICK d \in DOMAIN graph : x = <<d[1], d[2][2]>>
  BY DEF getCallers
<1>. QED  BY <1>1, <1>2 DEF Element

LEMMA RecordedEnd ==
  ASSUME Typed, CallsRecorded, BackwardEnd \/ ForwardEnd
  PROVE  CallsRecorded'
<1> DEFINE f == FunctionOf(work.label)
<1>1. /\ work # NoBlock /\ work' = NoBlock /\ graph' = graph
      /\ \/ direction = "backward" /\ work.i = 0
         \/ direction = "forward" /\ ~(work.i <= Len(Code(f, work.bb)))
  BY DEF BackwardEnd, ForwardEnd, Going, Instruction
<1>2. Grows
  BY BackwardEndTyped, ForwardEndTyped
<1>3. \A i \in CallsOf(f, work.bb) : ~StillToCome(i)
  <2>1. /\ Len(Code(f, work.bb)) \in Nat
        /\ \A i \in CallsOf(f, work.bb) : i \in 1 .. Len(Code(f, work.bb))
    BY <1>1, ThisLemma DEF CallsOf
  <2>2. work.i \in Nat
    BY <1>1, StepFields
  <2>. QED  BY <1>1, <2>1, <2>2 DEF StillToCome
<1>4. \E l, bs, m, c, done :
        \/ /\ ToSet(forward_worklist') = ToSet(forward_worklist) \cup (IF m THEN {Pair} ELSE {})
           /\ ToSet(backward_worklist') = ToSet(backward_worklist) \cup Fresh(l, bs)
                \cup Again(IF c THEN getCallers(l) ELSE {}, done)
        \/ /\ ToSet(backward_worklist') = ToSet(backward_worklist) \cup (IF m THEN {Pair} ELSE {})
           /\ ToSet(forward_worklist') = ToSet(forward_worklist) \cup Fresh(l, bs)
                \cup Again(IF c THEN getCallers(l) ELSE {}, done)
  <2>1. CASE BackwardEnd
    BY <2>1, BackwardEndTyped, Zenon
  <2>2. CASE ForwardEnd
    BY <2>2, ForwardEndTyped, Zenon
  <2>. QED  BY <2>1, <2>2
<1>5. Pair.done = FALSE /\ \A l, bs : \A e \in Fresh(l, bs) : ~e.done
  BY DEF Pair, Fresh, Element
<1>6. ASSUME NEW e \in ToSet(backward_worklist') \cup ToSet(forward_worklist'), e.done
      PROVE  \/ e \in ToSet(backward_worklist) \cup ToSet(forward_worklist)
             \/ \E d \in DOMAIN graph : e.label = d[1] /\ e.bb = d[2][2]
  <2>1. \/ e \in ToSet(backward_worklist) \cup ToSet(forward_worklist)
        \/ \E l, c, done : e \in Again(IF c THEN getCallers(l) ELSE {}, done)
    BY <1>4, <1>5, <1>6
  <2>. QED  BY <2>1, AgainCallers
<1>. QED  BY <1>1, <1>2, <1>3, <1>6, PutLemma

(* No step of the engine, or only the direction turns.                       *)
LEMMA RecordedSame ==
  ASSUME Typed, CallsRecorded, Turn \/ UNCHANGED vars
  PROVE  CallsRecorded'
<1>1. /\ graph' = graph /\ work' = work
      /\ (work = NoBlock \/ direction' = direction)
      /\ backward_worklist' = backward_worklist /\ forward_worklist' = forward_worklist
  BY DEF Turn, vars, worklists
<1>2. Grows
  BY TurnTyped, SameTyped
<1>3. \A e \in ToSet(backward_worklist) \cup ToSet(forward_worklist) : e.label \in Labels
  BY QueuedPending DEF Pending
<1>4. \A e \in DOMAIN graph : e[1] \in Labels
  BY QueuedPending
<1>5. ASSUME NEW l \in Labels, NEW b, InHand(l, b) \/ AllKnown(l, b)
      PROVE  InHand(l, b)' \/ AllKnown(l, b)'
  BY <1>1, <1>2, <1>5, KnownLater DEF InHand, NoBlock
<1>6. EdgesRecorded'
  BY <1>1, <1>4, <1>5 DEF CallsRecorded, EdgesRecorded
<1>7. DoneRecorded'
  BY <1>1, <1>3, <1>5 DEF CallsRecorded, DoneRecorded
<1>8. WalkRecorded'
  <2>1. CASE work = NoBlock
    BY <1>1, <2>1 DEF WalkRecorded, NoBlock
  <2>2. ASSUME work # NoBlock, NEW k \in Labels, NEW c, work.label = k, work.bb = c
        PROVE  WalkRecorded'
    <3>1. /\ CallsOf(FunctionOf(k), c)' = CallsOf(FunctionOf(k), c)
          /\ \A i : Known(k, c, i) => Known(k, c, i)'
      BY <1>1, <1>2, KnownLater
    <3>2. \A i : StillToCome(i)' = StillToCome(i)
      BY <1>1, <2>2 DEF StillToCome
    <3>3. \A i \in CallsOf(FunctionOf(k), c) : Known(k, c, i) \/ (~work.done /\ StillToCome(i))
      BY <2>2 DEF CallsRecorded, WalkRecorded
    <3>4. WalkRecorded' <=>
            (work' # NoBlock =>
               \A i \in CallsOf(FunctionOf(k), c)' : Known(k, c, i)' \/ (~work'.done /\ StillToCome(i)'))
      BY <1>1, <2>2 DEF WalkRecorded, NoBlock, CallsOf, Known, FunctionOf, StillToCome
    <3>. QED  BY <1>1, <3>1, <3>2, <3>3, <3>4
  <2>. QED  BY <2>1, <2>2, ThisLemma
<1>. QED  BY <1>6, <1>7, <1>8 DEF CallsRecorded

LEMMA RecordedInit ==
  ASSUME Init
  PROVE  CallsRecorded
<1> DEFINE fn == program["main"]
<1>1. /\ graph = [e \in {} |-> 0] /\ work = NoBlock
      /\ forward_worklist = Elements(0, fn.post)
      /\ \E ends \in Terminating(fn) : backward_worklist = Elements(0, fn.ipost \o ends)
  BY DEF Init
<1>2. \A bs : \A e \in ToSet(Elements(0, bs)) : ~e.done
  BY DEF Elements, Element, ToSet
<1>. QED
  BY <1>1, <1>2 DEF CallsRecorded, EdgesRecorded, DoneRecorded, WalkRecorded

LEMMA RecordedNext ==
  ASSUME Typed, CallsRecorded, [Next]_vars
  PROVE  CallsRecorded'
BY RecordedBlock, RecordedPlain, RecordedCall, RecordedNewContext, RecordedEnd, RecordedSame
   DEF Next, Backward, Forward

(* What is recorded of calls is there when it is looked up: a block that     *)
(* comes again for its callees' results has a context for each of its calls  *)
(* (Analysis.h 5816-5820).                                                   *)
THEOREM Recorded == Spec => []CallsRecorded
<1>1. Init => Typed /\ CallsRecorded
  BY InitTyped, RecordedInit
<1>2. Typed /\ CallsRecorded /\ [Next]_vars => (Typed /\ CallsRecorded)'
  BY NextTyped, RecordedNext
<1>. QED  BY <1>1, <1>2, PTL DEF Spec

-----------------------------------------------------------------------------
(* A function is analysed once per inflow                                    *)

(* A block that comes again for its callees' results has their contexts.     *)
LEMMA NewAnew ==
  ASSUME Typed, CallsRecorded, work # NoBlock, At.op = "call",
         work.i \in 1 .. Len(Code(FunctionOf(work.label), work.bb)),
         NEW inflow, Matching(inflow) = {}
  PROVE  ~work.done
<1>1. work.i \in CallsOf(FunctionOf(work.label), work.bb)
  BY DEF CallsOf, This, At
<1>2. ASSUME work.done PROVE FALSE
  <2>1. Known(work.label, work.bb, work.i)
    BY <1>1, <1>2 DEF CallsRecorded, WalkRecorded
  <2>2. <<work.label, This>> \in DOMAIN graph
    BY <2>1 DEF Known, This
  <2>3. graph[<<work.label, This>>] \in Labels /\ Labels \subseteq Nat
    BY <2>2 DEF Typed, GraphOK, IsEdge, ContextsOK
  <2>4. getCalleeContext(work.label, This) # None
    BY <2>2, <2>3, NoneDiffers DEF getCalleeContext
  <2>. QED  BY <1>2, <2>4 DEF Matching
<1>. QED  BY <1>2

(* A context is made for an inflow no other context of the function has.     *)
LEMMA NewInflow ==
  ASSUME Typed, CallsRecorded, BackwardNewContext \/ ForwardNewContext
  PROVE  \E inflow, I, O, fw, bw :
           /\ Created(At.rhs, inflow, I, O, fw, bw)
           /\ \A k \in Labels \ {0} :
                ~(contexts[k].function = At.rhs /\ contexts[k].inflow = inflow)
<1>1. \E inflow, I, O, fw, bw :
        /\ work # NoBlock /\ At.op = "call" /\ work.i >= 1
        /\ work.i <= Len(Code(FunctionOf(work.label), work.bb))
        /\ Matching(IF work.done THEN NoValue ELSE inflow) = {}
        /\ Created(At.rhs, IF work.done THEN NoValue ELSE inflow, I, O, fw, bw)
  <2>1. CASE BackwardNewContext
    <3>1. /\ work # NoBlock /\ direction = "backward" /\ At.op = "call" /\ work.i >= 1
          /\ Matching(IF work.done THEN NoValue ELSE BackwardInflow) = {}
      BY <2>1 DEF BackwardNewContext, Going
    <3>2. work.i <= Len(Code(FunctionOf(work.label), work.bb))
      BY <3>1, ThisLemma DEF WorkIn
    <3>. QED  BY <2>1, <3>1, <3>2, BackwardNewContextTyped
  <2>2. CASE ForwardNewContext
    <3>1. /\ work # NoBlock /\ direction = "forward" /\ At.op = "call"
          /\ work.i <= Len(Code(FunctionOf(work.label), work.bb))
          /\ Matching(IF work.done THEN NoValue ELSE ForwardInflow) = {}
      BY <2>2 DEF ForwardNewContext, Going, Instruction
    <3>2. work.i >= 1
      BY <3>1, ThisLemma DEF WorkIn
    <3>. QED  BY <2>2, <3>1, <3>2, ForwardNewContextTyped
  <2>. QED  BY <2>1, <2>2
<1>2. ~work.done
  <2>1. /\ work # NoBlock /\ At.op = "call"
        /\ \E inflow : Matching(inflow) = {}
    BY <1>1
  <2>2. work.i \in 1 .. Len(Code(FunctionOf(work.label), work.bb))
    <3>1. work.i \in Nat /\ Len(Code(FunctionOf(work.label), work.bb)) \in Nat
      BY <2>1, StepFields, ThisLemma
    <3>. QED  BY <1>1, <3>1
  <2>. QED  BY <2>1, <2>2, NewAnew
<1>3. PICK inflow, I, O, fw, bw :
        Matching(inflow) = {} /\ Created(At.rhs, inflow, I, O, fw, bw)
  BY <1>1, <1>2
<1>4. ASSUME NEW k \in Labels \ {0},
             contexts[k].function = At.rhs, contexts[k].inflow = inflow
      PROVE  FALSE
  <2>1. k \in check_if_context_already_exists(At.rhs, inflow)
    BY <1>4 DEF check_if_context_already_exists, Labels
  <2>. QED  BY <1>2, <1>3, <1>4, <2>1 DEF Matching
<1>. QED  BY <1>3, <1>4

LEMMA SameLabels ==
  ASSUME Typed, [Next]_vars, ~BackwardNewContext, ~ForwardNewContext
  PROVE  Labels' = Labels
<1>1. CASE BackwardBlock \/ ForwardBlock
  BY <1>1 DEF BackwardBlock, ForwardBlock, Labels
<1>2. CASE BackwardPlain \/ ForwardPlain
  BY <1>2, BackwardPlainTyped, ForwardPlainTyped
<1>3. CASE BackwardCall \/ ForwardCall
  BY <1>3, BackwardCallTyped, ForwardCallTyped
<1>4. CASE BackwardEnd \/ ForwardEnd
  BY <1>4, BackwardEndTyped, ForwardEndTyped
<1>5. CASE Turn \/ UNCHANGED vars
  BY <1>5, TurnTyped, SameTyped
<1>. QED  BY <1>1, <1>2, <1>3, <1>4, <1>5 DEF Next, Backward, Forward

LEMMA UniqueNext ==
  ASSUME Typed, CallsRecorded, ContextsUnique, [Next]_vars
  PROVE  ContextsUnique'
<1>1. Grows
  BY NextTyped
<1> DEFINE Same(c, d) == c.function = d.function /\ c.inflow = d.inflow
<1>2. \A k, l \in Labels \ {0} : Same(contexts'[k], contexts'[l]) => k = l
  BY <1>1 DEF Grows, ContextsUnique
<1>3. CASE BackwardNewContext \/ ForwardNewContext
  <2>1. PICK inflow, I, O, fw, bw :
          /\ Created(At.rhs, inflow, I, O, fw, bw)
          /\ \A k \in Labels \ {0} :
               ~(contexts[k].function = At.rhs /\ contexts[k].inflow = inflow)
    BY <1>3, NewInflow
  <2>2. PICK new : /\ Labels' = Labels \cup {new}
                   /\ contexts'[new].function = At.rhs /\ contexts'[new].inflow = inflow
    BY <2>1 DEF Created
  <2>3. \A k \in Labels \ {0} :
          ~(contexts'[k].function = At.rhs /\ contexts'[k].inflow = inflow)
    BY <1>1, <2>1 DEF Grows
  <2>4. \A k, l \in Labels' \ {0} : Same(contexts'[k], contexts'[l]) => k = l
    BY <1>2, <2>2, <2>3
  <2>. QED  BY <2>4 DEF ContextsUnique
<1>4. CASE ~BackwardNewContext /\ ~ForwardNewContext
  <2>1. Labels' = Labels
    BY <1>4, SameLabels
  <2>. QED  BY <1>2, <2>1 DEF ContextsUnique
<1>. QED  BY <1>3, <1>4

(* A function is analysed once per inflow, label 0 apart: whatever the       *)
(* program, no context is made for what another stands for already, not even *)
(* when a block comes again only for what its callees return, where the      *)
(* lookup by inflow (Analysis.h 3752-3809) is skipped (5794-5820).           *)
THEOREM OncePerInflow == Spec => []ContextsUnique
<1>1. Init => Typed /\ CallsRecorded /\ ContextsUnique
  <2>1. ASSUME Init PROVE ContextsUnique
    BY <2>1 DEF Init, ContextsUnique, Labels
  <2>. QED  BY <2>1, InitTyped, RecordedInit
<1>2. /\ Typed /\ CallsRecorded /\ ContextsUnique /\ [Next]_vars
      => (Typed /\ CallsRecorded /\ ContextsUnique)'
  BY NextTyped, RecordedNext, UniqueNext
<1>. QED  BY <1>1, <1>2, PTL DEF Spec

-----------------------------------------------------------------------------
(* Told neighbours *)

LEMMA AnewLater ==
  ASSUME NEW w, NEW v, NEW l, NEW b, Anew(w, l, b), ToSet(w) \subseteq ToSet(v)
  PROVE  Anew(v, l, b)
BY DEF Anew

LEMMA PendingTold ==
  ASSUME NEW l, AllPending(l)
  PROVE  Told(l)
BY DEF AllPending, Told, BackwardTold, ForwardTold

LEMMA FunctionLater ==
  ASSUME Typed, Grows, NEW l \in Labels
  PROVE  /\ FunctionOf(l)' = FunctionOf(l) /\ BlocksOf(l)' = BlocksOf(l)
         /\ program'[FunctionOf(l)'] = program[FunctionOf(l)]
         /\ \A f, b : /\ IsExit(f, b)' = IsExit(f, b) /\ IsLast(f, b)' = IsLast(f, b)
                      /\ IsEntry(f, b)' = IsEntry(f, b)
                      /\ LastIns(f, b)' = LastIns(f, b) /\ Code(f, b)' = Code(f, b)
<1>1. /\ FunctionOf(l)' = FunctionOf(l) /\ program' = program
      /\ \A f, b : Code(f, b)' = Code(f, b)
  BY GrowsLemma DEF Grows
<1>. QED  BY <1>1 DEF IsExit, IsLast, IsEntry, LastIns, BlocksOf

(* What a step must do so that no neighbour misses a change.                 *)
LEMMA StillTold ==
  ASSUME Typed, Grows, NEW l \in Labels, AllQueued(program[FunctionOf(l)]), Told(l),
         \A b \in BlocksOf(l) :
           \/ Live(l, b)' = Live(l, b)
           \/ /\ \A p \in predecessors(program[FunctionOf(l)], b) : Anew(backward_worklist', l, p)
              /\ Anew(forward_worklist', l, b),
         \A b \in BlocksOf(l) :
           \/ Passed(l, b)' = Passed(l, b)
           \/ \A s \in ToSet(program[FunctionOf(l)].succ[b]) : Anew(forward_worklist', l, s),
         \A b \in BlocksOf(l) :
           \/ IsExit(FunctionOf(l), b) \/ IsLast(FunctionOf(l), b)
           \/ Needed(l, b)' = Into(l, b)
           \/ /\ Needed(l, b)' = Needed(l, b)
              /\ Anew(backward_worklist, l, b) => Anew(backward_worklist', l, b),
         \A b \in BlocksOf(l) :
           \/ IsExit(FunctionOf(l), b)
           \/ Entering(l, b)' = Arriving(l, b)
           \/ /\ Entering(l, b)' = Entering(l, b)
              /\ Anew(forward_worklist, l, b) => Anew(forward_worklist', l, b)
  PROVE  Told(l)'
<1> DEFINE f == FunctionOf(l)
           fn == program[f]
<1>1. /\ FunctionOf(l)' = f /\ BlocksOf(l)' = BlocksOf(l) /\ program'[FunctionOf(l)'] = fn
      /\ \A b : /\ IsExit(FunctionOf(l), b)' = IsExit(f, b)
                /\ IsLast(FunctionOf(l), b)' = IsLast(f, b)
                /\ IsEntry(FunctionOf(l), b)' = IsEntry(f, b)
  <2>1. /\ FunctionOf(l)' = f /\ BlocksOf(l)' = BlocksOf(l) /\ program'[FunctionOf(l)'] = fn
        /\ program' = program
    BY FunctionLater DEF Grows
  <2>. QED  BY <2>1 DEF IsExit, IsLast, IsEntry
<1>2. /\ \A b \in BlocksOf(l) : ToSet(fn.succ[b]) \subseteq BlocksOf(l)
      /\ \A b \in BlocksOf(l) : predecessors(fn, b) \subseteq BlocksOf(l)
      /\ \A b \in BlocksOf(l) : \A s \in ToSet(fn.succ[b]) : b \in predecessors(fn, s)
      /\ \A b \in BlocksOf(l) : \A p \in predecessors(fn, b) : b \in ToSet(fn.succ[p])
  <2>1. f \in DOMAIN program /\ ProgramOK
    BY DEF Typed, ContextsOK, ContextRecord, FunctionOf
  <2>2. \A b \in BlocksOf(l) : fn.succ[b] \in Seq(BlocksOf(l))
    BY <2>1 DEF ProgramOK, IsProgram, IsFunction, BlocksOf
  <2>3. \A b \in BlocksOf(l) : ToSet(fn.succ[b]) \subseteq BlocksOf(l)
    BY <2>2 DEF ToSet
  <2>. QED  BY <2>3 DEF predecessors, BlocksOf
<1>. HIDE DEF fn, f
<1>3. ASSUME NEW b \in BlocksOf(l) PROVE BackwardTold(l, b)'
  <2>1. CASE \E s \in ToSet(fn.succ[b]) : Live(l, s)' # Live(l, s)
    <3>1. Anew(backward_worklist', l, b)
      BY <1>2, <2>1 DEF fn, f
    <3>. QED  BY <3>1 DEF BackwardTold
  <2>2. CASE \A s \in ToSet(fn.succ[b]) : Live(l, s)' = Live(l, s)
    <3>1. Into(l, b)' = UNION {Live(l, s)' : s \in ToSet(fn.succ[b])}
      BY <1>1 DEF Into
    <3>2. Into(l, b) = UNION {Live(l, s) : s \in ToSet(fn.succ[b])}
      BY DEF Into, fn, f
    <3>3. Into(l, b)' = Into(l, b)
      BY <2>2, <3>1, <3>2
    <3>4. BackwardTold(l, b)
      BY DEF Told
    <3>5. BackwardTold(l, b)' =
            (\/ IsExit(f, b) \/ IsLast(f, b)
             \/ Needed(l, b)' = Into(l, b)'
             \/ Anew(backward_worklist', l, b))
      BY <1>1 DEF BackwardTold, Anew, Element
    <3>. QED  BY <3>3, <3>4, <3>5 DEF BackwardTold, f
  <2>. QED  BY <2>1, <2>2
<1>4. ASSUME NEW b \in BlocksOf(l) PROVE ForwardTold(l, b)'
  <2>1. CASE \/ \E p \in predecessors(fn, b) : Passed(l, p)' # Passed(l, p)
             \/ Live(l, b)' # Live(l, b)
    <3>1. Anew(forward_worklist', l, b)
      BY <1>2, <2>1 DEF fn, f
    <3>. QED  BY <3>1 DEF ForwardTold
  <2>2. CASE /\ \A p \in predecessors(fn, b) : Passed(l, p)' = Passed(l, p)
             /\ Live(l, b)' = Live(l, b)
    <3>1. Beyond(l, b)' = UNION {Passed(l, p)' : p \in predecessors(fn, b)}
      <4>1. predecessors(program'[FunctionOf(l)'], b) = predecessors(fn, b)
        BY <1>1
      <4>. QED  BY <4>1 DEF Beyond, predecessors
    <3>2. Beyond(l, b) = UNION {Passed(l, p) : p \in predecessors(fn, b)}
      BY DEF Beyond, fn, f
    <3>3. Beyond(l, b)' = Beyond(l, b)
      BY <2>2, <3>1, <3>2
    <3>4. ForwardTold(l, b)
      BY DEF Told
    <3>5. ForwardTold(l, b)' =
            (\/ IsExit(f, b)
             \/ Entering(l, b)' = Arriving(l, b)'
             \/ Anew(forward_worklist', l, b))
      BY <1>1 DEF ForwardTold, Anew, Element
    <3>6. Arriving(l, b)' = Arriving(l, b)
      <4>1. contexts'[l].inflow = contexts[l].inflow
        BY DEF Grows
      <4>2. IsEntry(FunctionOf(l), b)' = IsEntry(f, b) /\ FunctionOf(l)' = f
        BY <1>1
      <4>3. /\ restrictByLivness(Beyond(l, b), Live(l, b))' = restrictByLivness(Beyond(l, b), Live(l, b))
            /\ MainBoundaryForward(Live(l, b))' = MainBoundaryForward(Live(l, b))
        BY <2>2, <3>3 DEF restrictByLivness, MainBoundaryForward
      <4>. QED  BY <4>1, <4>2, <4>3 DEF Arriving, f
    <3>. QED  BY <3>4, <3>5, <3>6 DEF ForwardTold, f
  <2>. QED  BY <2>1, <2>2
<1>. QED  BY <1>1, <1>3, <1>4 DEF Told

(* Positions in a block.                                                     *)
LEMMA EndsLemma ==
  ASSUME Typed, NEW l \in Labels, NEW b \in BlocksOf(l)
  PROVE  /\ FirstIns(FunctionOf(l), b) \in Instructions
         /\ LastIns(FunctionOf(l), b) \in Instructions
         /\ Len(Code(FunctionOf(l), b)) \in Nat \ {0}
         /\ FunctionOf(l) \in DOMAIN program
<1>1. FunctionOf(l) \in DOMAIN program /\ ProgramOK
  BY DEF Typed, ContextsOK, ContextRecord, FunctionOf
<1>. QED  BY <1>1, PositionLemma DEF FirstIns, LastIns, BlocksOf

(* It leaves what goes over from block to block, new contexts apart.         *)
LEMMA WalkValues ==
  ASSUME Typed, Grows, AllTold, work # NoBlock, Written, direction' = direction,
         NEW i, Walks(work', i),
         NEW l \in Labels, ~(processing = l /\ processing # work.label), NEW b \in BlocksOf(l)
  PROVE  /\ Live(l, b)' = Live(l, b) /\ Passed(l, b)' = Passed(l, b)
         /\ Needed(l, b)' = Needed(l, b) /\ Entering(l, b)' = Entering(l, b)
<1> DEFINE f == FunctionOf(l)
<1>0. /\ FunctionOf(l)' = f
      /\ \A c : LastIns(f, c)' = LastIns(f, c)
      /\ \A g, c : InHand(g, c)' = InHand(g, c)
  <2>1. \A g, c : InHand(g, c)' = InHand(g, c)
    BY DEF InHand, Walks, NoBlock
  <2>. QED  BY <2>1, FunctionLater
<1>1. /\ FirstIns(f, b) \in Instructions /\ LastIns(f, b) \in Instructions
  BY EndsLemma
<1>2. /\ Live(l, b)' = IF direction = "backward" /\ InHand(l, b) THEN work.in.b
                       ELSE SLIM_IN'[l][FirstIns(f, b)].b
      /\ Passed(l, b)' = IF direction = "forward" /\ InHand(l, b) THEN work.out.f
                         ELSE SLIM_OUT'[l][LastIns(f, b)].f
      /\ Needed(l, b)' = SLIM_OUT'[l][LastIns(f, b)].b
      /\ Entering(l, b)' = SLIM_IN'[l][FirstIns(f, b)].f
  <2>1. work'.in = work.in /\ work'.out = work.out
    BY DEF Walks
  <2>. QED  BY <1>0, <2>1 DEF Live, Passed, Needed, Entering, FirstIns
<1>3. CASE l # processing
  BY <1>2, <1>3 DEF Written, Live, Passed, Needed, Entering
<1>4. CASE l = processing
  <2>1. work.label = l
    BY <1>4
  <2>2. /\ FirstIns(f, b) = This => b = work.bb /\ work.i = 1
        /\ LastIns(f, b) = This => b = work.bb /\ work.i = Len(Code(f, b))
    BY DEF FirstIns, LastIns, This
  <2>3. b = work.bb => InHand(l, b)
    BY <2>1 DEF InHand
  <2>4. direction \in {"forward", "backward"}
    BY DEF Typed, RestOK
  <2>5. /\ direction = "backward" /\ LastIns(f, b) = This => work.prev = Needed(l, b)
        /\ direction = "forward" /\ FirstIns(f, b) = This => work.prev = Entering(l, b)
    BY <2>1, <2>2 DEF AllTold, WalkTold
  <2>6. /\ FirstIns(f, b) # This => SLIM_IN'[l][FirstIns(f, b)] = SLIM_IN[l][FirstIns(f, b)]
        /\ LastIns(f, b) # This => SLIM_OUT'[l][LastIns(f, b)] = SLIM_OUT[l][LastIns(f, b)]
    BY <1>1, <1>4 DEF Written
  <2>7. Live(l, b)' = Live(l, b)
    BY <1>2, <1>4, <2>2, <2>3, <2>4, <2>6 DEF Written, Live
  <2>8. Passed(l, b)' = Passed(l, b)
    BY <1>2, <1>4, <2>2, <2>3, <2>4, <2>6 DEF Written, Passed
  <2>9. Needed(l, b)' = Needed(l, b)
    BY <1>2, <1>4, <2>4, <2>5, <2>6 DEF Written, Needed
  <2>10. Entering(l, b)' = Entering(l, b)
    BY <1>2, <1>4, <2>4, <2>5, <2>6 DEF Written, Entering
  <2>. QED  BY <2>7, <2>8, <2>9, <2>10
<1>. QED  BY <1>3, <1>4

(* Handling an instruction leaves what the neighbours have been told.        *)
LEMMA WalkKeeps ==
  ASSUME Typed, Grows, AllTold, work # NoBlock, Written, direction' = direction,
         NEW i, Walks(work', i),
         ToSet(backward_worklist) \subseteq ToSet(backward_worklist'),
         ToSet(forward_worklist) \subseteq ToSet(forward_worklist'),
         NEW l \in Labels
  PROVE  Told(l)'
<1> DEFINE f == FunctionOf(l)
<1>0. /\ FunctionOf(l)' = f /\ BlocksOf(l)' = BlocksOf(l)
      /\ program'[FunctionOf(l)'] = program[f]
      /\ \A b : LastIns(f, b)' = LastIns(f, b)
      /\ \A g, b : InHand(g, b)' = InHand(g, b)
  <2>1. \A g, b : InHand(g, b)' = InHand(g, b)
    BY DEF InHand, Walks, NoBlock
  <2>. QED  BY <2>1, FunctionLater
<1>1. CASE processing = l /\ processing # work.label
  <2>1. AllPending(l)
    BY <1>1 DEF AllTold, WalkTold
  <2>2. AllPending(l)'
    BY <1>0, <2>1, AnewLater DEF AllPending
  <2>. QED
    BY <2>2, PendingTold DEF AllPending, Told, BackwardTold, ForwardTold
<1>2. CASE ~(processing = l /\ processing # work.label)
  <2>. SUFFICES ASSUME AllQueued(program[f])
                PROVE  Told(l)'
    BY <1>0 DEF Told
  <2>1. \A b \in BlocksOf(l) :
          /\ Live(l, b)' = Live(l, b) /\ Passed(l, b)' = Passed(l, b)
          /\ Needed(l, b)' = Needed(l, b) /\ Entering(l, b)' = Entering(l, b)
    BY <1>2, WalkValues
  <2>2. \A b : /\ Anew(backward_worklist, l, b) => Anew(backward_worklist', l, b)
               /\ Anew(forward_worklist, l, b) => Anew(forward_worklist', l, b)
    BY AnewLater
  <2>3. Told(l)
    BY DEF AllTold
  <2>. QED  BY <2>1, <2>2, <2>3, StillTold
<1>. QED  BY <1>1, <1>2

(* The instruction before is handled next, and where values go is kept.      *)
LEMMA WalkGoesOn ==
  ASSUME Typed, Grows, work # NoBlock, direction' = direction,
         processing' = work.label \/ AllPending(processing)',
         Walks(work', IF direction = "backward" THEN work.i - 1 ELSE work.i + 1)
  PROVE  WalkTold'
<1>1. WorkIn(work, direction) /\ work.label \in Labels
  BY ThisLemma
<1>2. direction \in {"forward", "backward"}
  BY DEF Typed, RestOK
<1>3. /\ work'.label = work.label /\ work'.bb = work.bb
      /\ work'.i = IF direction = "backward" THEN work.i - 1 ELSE work.i + 1
  BY DEF Walks
<1>4. ASSUME NEW k \in Labels, NEW c, k = work.label, c = work.bb
      PROVE  WalkTold'
  <2>1. Code(FunctionOf(k), c)' = Code(FunctionOf(k), c)
    BY FunctionLater
  <2>2. direction = "backward" => work'.i # Len(Code(FunctionOf(k), c))
    BY <1>1, <1>3, <1>4, ThisLemma DEF WorkIn
  <2>3. direction = "forward" => work'.i # 1
    BY <1>1, <1>3, <1>4, ThisLemma DEF WorkIn
  <2>4. Code(FunctionOf(work.label), work.bb)' = Code(FunctionOf(k), c)
    <3>1. FunctionOf(work.label)' = FunctionOf(k)'
      BY <1>3, <1>4 DEF FunctionOf
    <3>2. Code(FunctionOf(work.label), work.bb)' = Code(FunctionOf(k), c)'
      BY <1>3, <1>4 DEF FunctionOf, Code
    <3>. QED  BY <2>1, <3>2
  <2>. QED  BY <1>2, <1>3, <2>2, <2>3, <2>4 DEF WalkTold
<1>. QED  BY <1>1, <1>4

LEMMA SetAtWrites ==
  ASSUME NEW I \in Value, processing \in Labels, NEW i \in Instructions, NEW v
  PROVE  /\ \A side \in {"f", "b"} :
              /\ \A l \in Labels \ {processing} : SetAt(I, i, side, v)[l] = I[l]
              /\ \A x \in Instructions \ {i} : SetAt(I, i, side, v)[processing][x] = I[processing][x]
              /\ SetAt(I, i, side, v)[processing][i][side] = v
         /\ SetAt(I, i, "b", v)[processing][i].f = I[processing][i].f
         /\ SetAt(I, i, "f", v)[processing][i].b = I[processing][i].b
BY DEF SetAt, Value, Values

(* Both worklists only grow while a block is in hand, and the step writes no *)
(* more than it may.                                                        *)
LEMMA WalkTells ==
  ASSUME Typed, Grows, Labels' = Labels, AllTold, work # NoBlock, Written, direction' = direction,
         processing' = processing,
         Walks(work', IF direction = "backward" THEN work.i - 1 ELSE work.i + 1),
         ToSet(backward_worklist) \subseteq ToSet(backward_worklist'),
         ToSet(forward_worklist) \subseteq ToSet(forward_worklist')
  PROVE  AllTold'
<1>1. \A l \in Labels : Told(l)'
  BY WalkKeeps
<1>2. processing' = work.label \/ AllPending(processing)'
  <2>1. CASE processing = work.label
    BY <2>1
  <2>2. ASSUME NEW k, k = processing, AllPending(k)
        PROVE  AllPending(processing)'
    <3>1. k \in Labels
      BY <2>2 DEF Typed, RestOK
    <3>2. /\ BlocksOf(k)' = BlocksOf(k) /\ program'[FunctionOf(k)'] = program[FunctionOf(k)]
      BY <3>1, FunctionLater
    <3>3. AllPending(k)'
      BY <2>2, <3>2, AnewLater DEF AllPending
    <3>4. AllPending(processing)' = AllPending(k)'
      BY <2>2 DEF AllPending, FunctionOf, BlocksOf
    <3>. QED  BY <3>3, <3>4
  <2>. QED  BY <2>1, <2>2 DEF AllTold, WalkTold
<1>3. WalkTold'
  BY <1>2, WalkGoesOn
<1>. QED  BY <1>1, <1>3 DEF AllTold

LEMMA WalksFields ==
  ASSUME Typed, work # NoBlock
  PROVE  /\ \A i, v : Walks([work EXCEPT !.i = i, !.prev = v], i)
         /\ \A i : Walks([work EXCEPT !.i = i], i)
<1>1. work \in WorkRecord
  BY ThisLemma DEF WorkIn
<1>2. /\ \A i, v : [work EXCEPT !.i = i, !.prev = v] # NoBlock
      /\ \A i : [work EXCEPT !.i = i] # NoBlock
  BY StepFields DEF Steps
<1>. QED  BY <1>1, <1>2 DEF WorkRecord, Walks

LEMMA BackwardPlainTells ==
  ASSUME Typed, AllTold, BackwardPlain
  PROVE  AllTold'
<1>1. /\ work # NoBlock /\ direction = "backward" /\ direction' = direction
      /\ processing' = processing /\ processing \in Labels
      /\ backward_worklist' = backward_worklist
      /\ SLIM_IN \in Value /\ SLIM_OUT \in Value
      /\ forward_worklist' \in {forward_worklist, workInsert(forward_worklist, Pair)}
      /\ work.i >= 1
  BY DEF BackwardPlain, Going, Typed, RestOK, ValuesOK
<1>2. Typed' /\ Grows /\ Labels' = Labels
  BY BackwardPlainTyped
<1>3. This \in Instructions
  BY <1>1, ThisLemma DEF WorkIn
<1>4. Walks(work', work.i - 1)
  BY <1>1, WalksFields DEF BackwardPlain
<1>5. Written
  <2>1. CASE InCallBlock /\ At.op \in Builtin
    <3>1. SLIM_IN' = SLIM_IN /\ SLIM_OUT' = SLIM_OUT
      BY <2>1 DEF BackwardPlain, values
    <3>. QED  BY <1>1, <3>1 DEF Written
  <2>2. CASE ~(InCallBlock /\ At.op \in Builtin)
    <3>1. PICK new : /\ SLIM_OUT' = SetAt(SLIM_OUT, This, "b", work.prev)
                     /\ SLIM_IN' = SetAt(SLIM_IN, This, "b", new)
      BY <2>2 DEF BackwardPlain
    <3>. QED  BY <1>1, <1>3, <3>1, SetAtWrites DEF Written
  <2>. QED  BY <2>1, <2>2
<1>6. ToSet(forward_worklist) \subseteq ToSet(forward_worklist')
  <2>1. Stack(forward_worklist) /\ Pair \in Pending
    BY <1>1, ThisLemma DEF Typed, WorklistsOK
  <2>2. ToSet(workInsert(forward_worklist, Pair)) = ToSet(forward_worklist) \cup {Pair}
    BY <2>1, StackInsert
  <2>. QED  BY <1>1, <2>2
<1>. QED  BY <1>1, <1>2, <1>4, <1>5, <1>6, WalkTells

LEMMA ForwardPlainTells ==
  ASSUME Typed, AllTold, ForwardPlain
  PROVE  AllTold'
<1>1. /\ work # NoBlock /\ direction = "forward" /\ direction' = direction
      /\ processing' = processing /\ processing \in Labels
      /\ forward_worklist' = forward_worklist
      /\ SLIM_IN \in Value /\ SLIM_OUT \in Value
      /\ backward_worklist' \in {backward_worklist, workInsert(backward_worklist, Pair)}
      /\ work.i <= Len(Code(FunctionOf(work.label), work.bb))
  BY DEF ForwardPlain, Going, Typed, RestOK, ValuesOK, Instruction
<1>2. Typed' /\ Grows /\ Labels' = Labels
  BY ForwardPlainTyped
<1>3. This \in Instructions
  BY <1>1, ThisLemma DEF WorkIn
<1>4. Walks(work', work.i + 1)
  BY <1>1, WalksFields DEF ForwardPlain
<1>5. Written
  <2>1. CASE InCallBlock /\ At.op \in Builtin
    <3>1. SLIM_IN' = SLIM_IN /\ SLIM_OUT' = SLIM_OUT
      BY <2>1 DEF ForwardPlain, values
    <3>. QED  BY <1>1, <3>1 DEF Written
  <2>2. CASE ~(InCallBlock /\ At.op \in Builtin)
    <3>1. PICK new : /\ SLIM_IN' = SetAt(SLIM_IN, This, "f", work.prev)
                     /\ SLIM_OUT' = SetAt(SLIM_OUT, This, "f", new)
      BY <2>2 DEF ForwardPlain
    <3>. QED  BY <1>1, <1>3, <3>1, SetAtWrites DEF Written
  <2>. QED  BY <2>1, <2>2
<1>6. ToSet(backward_worklist) \subseteq ToSet(backward_worklist')
  <2>1. Stack(backward_worklist) /\ Pair \in Pending
    BY <1>1, ThisLemma DEF Typed, WorklistsOK
  <2>2. ToSet(workInsert(backward_worklist, Pair)) = ToSet(backward_worklist) \cup {Pair}
    BY <2>1, StackInsert
  <2>. QED  BY <1>1, <2>2
<1>. QED  BY <1>1, <1>2, <1>4, <1>5, <1>6, WalkTells

LEMMA BackwardCallTells ==
  ASSUME Typed, AllTold, BackwardCall
  PROVE  AllTold'
<1>1. /\ work # NoBlock /\ direction = "backward" /\ direction' = direction
      /\ processing' = processing /\ processing \in Labels
      /\ backward_worklist' = backward_worklist /\ forward_worklist' = forward_worklist
      /\ SLIM_IN \in Value /\ SLIM_OUT \in Value
      /\ work.i >= 1
  BY DEF BackwardCall, Going, Typed, RestOK, ValuesOK, worklists
<1>2. Typed' /\ Grows /\ Labels' = Labels
  BY BackwardCallTyped
<1>3. This \in Instructions
  BY <1>1, ThisLemma DEF WorkIn
<1>4. PICK new : /\ SLIM_OUT' = BackwardOut
                 /\ SLIM_IN' = SetAt(SLIM_IN, This, "b", new)
                 /\ work' = [work EXCEPT !.i = work.i - 1, !.prev = new]
  BY Zenon DEF BackwardCall
<1>6. BackwardOut \in {SLIM_OUT, SetAt(SLIM_OUT, This, "b", work.prev)}
  BY DEF BackwardOut
<1>5. Written
  BY <1>1, <1>3, <1>4, <1>6, SetAtWrites DEF Written
<1>. QED  BY <1>1, <1>2, <1>4, <1>5, WalkTells, WalksFields

LEMMA ForwardCallTells ==
  ASSUME Typed, AllTold, ForwardCall
  PROVE  AllTold'
<1>1. /\ work # NoBlock /\ direction = "forward" /\ direction' = direction
      /\ processing' = processing /\ processing \in Labels
      /\ backward_worklist' = backward_worklist /\ forward_worklist' = forward_worklist
      /\ SLIM_IN \in Value /\ SLIM_OUT \in Value
      /\ work.i <= Len(Code(FunctionOf(work.label), work.bb))
  BY DEF ForwardCall, Going, Typed, RestOK, ValuesOK, worklists, Instruction
<1>2. Typed' /\ Grows /\ Labels' = Labels
  BY ForwardCallTyped
<1>3. This \in Instructions
  BY <1>1, ThisLemma DEF WorkIn
<1>4. PICK new : /\ SLIM_IN' = ForwardIn
                 /\ SLIM_OUT' = SetAt(SLIM_OUT, This, "f", new)
                 /\ work' = [work EXCEPT !.i = work.i + 1, !.prev = new]
  BY Zenon DEF ForwardCall
<1>6. /\ ForwardIn \in {SLIM_IN, SetAt(SLIM_IN, This, "f", ForwardPrev)}
      /\ ForwardPrev \in {work.prev, SLIM_IN[processing][This].f \cup work.prev}
  BY DEF ForwardIn, ForwardPrev
<1>5. Written
  BY <1>1, <1>3, <1>4, <1>6, SetAtWrites DEF Written
<1>. QED  BY <1>1, <1>2, <1>4, <1>5, WalkTells, WalksFields

(* A new context has all blocks queued that it can have queued.              *)
LEMMA CreatedPending ==
  ASSUME Typed, Grows, NEW f, NEW inflow, NEW I, NEW O, NEW fw, NEW bw,
         Created(f, inflow, I, O, fw, bw)
  PROVE  AllPending(processing)'
<1>1. PICK new :
        /\ processing' = new /\ contexts'[new].function = f
        /\ ToSet(forward_worklist') = ToSet(fw) \cup Fresh(new, ToSet(program[f].post))
        /\ ToSet(backward_worklist') =
             ToSet(bw)
               \cup Fresh(new, ToSet(program[f].ipost) \cup getTerminatingBBList(program[f]))
  BY DEF Created
<1>2. AllPending(processing)' <=> AllPending(new)'
  BY <1>1 DEF AllPending, FunctionOf, BlocksOf
<1>3. /\ FunctionOf(new)' = f /\ program'[FunctionOf(new)'] = program[f]
      /\ BlocksOf(new)' = Blocks(program[f])
  BY <1>1 DEF FunctionOf, BlocksOf, Grows
<1>4. ASSUME AllQueued(program[f]), NEW b \in Blocks(program[f])
      PROVE  Anew(backward_worklist', new, b) /\ Anew(forward_worklist', new, b)
  <2>1. \A bs : b \in bs => Element(new, b, FALSE) \in Fresh(new, bs)
    BY DEF Fresh
  <2>2. /\ Element(new, b, FALSE) \in ToSet(backward_worklist')
        /\ Element(new, b, FALSE) \in ToSet(forward_worklist')
    BY <1>1, <1>4, <2>1 DEF AllQueued
  <2>. QED  BY <2>2 DEF Anew
<1>5. AllPending(new)'
  BY <1>3, <1>4 DEF AllPending
<1>. QED  BY <1>2, <1>5

LEMMA CreatedTells ==
  ASSUME Typed, Grows, AllTold, work # NoBlock, Written, direction' = direction,
         Walks(work', IF direction = "backward" THEN work.i - 1 ELSE work.i + 1),
         NEW f, NEW inflow, NEW I, NEW O, NEW fw, NEW bw,
         Created(f, inflow, I, O, fw, bw),
         ToSet(backward_worklist) \subseteq ToSet(bw),
         ToSet(forward_worklist) \subseteq ToSet(fw)
  PROVE  AllTold'
<1>1. PICK new :
        /\ processing' = new /\ Labels' = Labels \cup {new}
        /\ ToSet(backward_worklist) \subseteq ToSet(backward_worklist')
        /\ ToSet(forward_worklist) \subseteq ToSet(forward_worklist')
  BY DEF Created
<1>2. AllPending(processing)'
  BY CreatedPending
<1>3. AllPending(new)'
  BY <1>1, <1>2 DEF AllPending, FunctionOf, BlocksOf
<1>4. Told(new)'
  BY <1>3 DEF AllPending, Told, BackwardTold, ForwardTold
<1>5. \A l \in Labels : Told(l)'
  BY <1>1, WalkKeeps
<1>6. WalkTold'
  BY <1>2, WalkGoesOn
<1>. QED  BY <1>1, <1>4, <1>5, <1>6 DEF AllTold

LEMMA BackwardNewContextTells ==
  ASSUME Typed, AllTold, BackwardNewContext
  PROVE  AllTold'
<1>1. /\ work # NoBlock /\ direction = "backward" /\ direction' = direction
      /\ processing \in Labels /\ SLIM_IN \in Value /\ SLIM_OUT \in Value
      /\ work.i >= 1 /\ work' = [work EXCEPT !.i = work.i - 1]
  BY DEF BackwardNewContext, Going, Typed, RestOK, ValuesOK
<1>2. This \in Instructions
  BY <1>1, ThisLemma DEF WorkIn
<1>3. Walks(work', work.i - 1)
  BY <1>1, WalksFields
<1>4. PICK inflow :
        Created(At.rhs, inflow, SLIM_IN, BackwardOut, forward_worklist,
                workInsert(backward_worklist, PairDone))
  BY BackwardNewContextTyped
<1>5. Grows
  BY BackwardNewContextTyped
<1>6. \A l \in Labels : SLIM_IN'[l] = SLIM_IN[l] /\ SLIM_OUT'[l] = BackwardOut[l]
  BY <1>4 DEF Created
<1>7. BackwardOut \in {SLIM_OUT, SetAt(SLIM_OUT, This, "b", work.prev)}
  BY DEF BackwardOut
<1>8. Written
  BY <1>1, <1>2, <1>6, <1>7, SetAtWrites DEF Written
<1>9. ToSet(backward_worklist) \subseteq ToSet(workInsert(backward_worklist, PairDone))
  <2>1. Stack(backward_worklist) /\ PairDone \in Pending
    BY <1>1, ThisLemma DEF Typed, WorklistsOK
  <2>2. ToSet(workInsert(backward_worklist, PairDone)) = ToSet(backward_worklist) \cup {PairDone}
    BY <2>1, StackInsert
  <2>. QED  BY <2>2
<1>. QED  BY <1>1, <1>3, <1>4, <1>5, <1>8, <1>9, CreatedTells

LEMMA ForwardNewContextTells ==
  ASSUME Typed, AllTold, ForwardNewContext
  PROVE  AllTold'
<1>1. /\ work # NoBlock /\ direction = "forward" /\ direction' = direction
      /\ processing \in Labels /\ SLIM_IN \in Value /\ SLIM_OUT \in Value
      /\ work.i <= Len(Code(FunctionOf(work.label), work.bb))
      /\ work' = [work EXCEPT !.i = work.i + 1, !.prev = ForwardPrev]
  BY DEF ForwardNewContext, Going, Typed, RestOK, ValuesOK, Instruction
<1>2. This \in Instructions
  BY <1>1, ThisLemma DEF WorkIn
<1>3. Walks(work', work.i + 1)
  BY <1>1, WalksFields
<1>4. PICK inflow :
        Created(At.rhs, inflow, ForwardIn, SLIM_OUT, workInsert(forward_worklist, PairDone),
                backward_worklist)
  BY ForwardNewContextTyped
<1>5. Grows
  BY ForwardNewContextTyped
<1>6. \A l \in Labels : SLIM_IN'[l] = ForwardIn[l] /\ SLIM_OUT'[l] = SLIM_OUT[l]
  BY <1>4 DEF Created
<1>7. /\ ForwardIn \in {SLIM_IN, SetAt(SLIM_IN, This, "f", ForwardPrev)}
      /\ ForwardPrev \in {work.prev, SLIM_IN[processing][This].f \cup work.prev}
  BY DEF ForwardIn, ForwardPrev
<1>8. Written
  BY <1>1, <1>2, <1>6, <1>7, SetAtWrites DEF Written
<1>9. ToSet(forward_worklist) \subseteq ToSet(workInsert(forward_worklist, PairDone))
  <2>1. Stack(forward_worklist) /\ PairDone \in Pending
    BY <1>1, ThisLemma DEF Typed, WorklistsOK
  <2>2. ToSet(workInsert(forward_worklist, PairDone)) = ToSet(forward_worklist) \cup {PairDone}
    BY <2>1, StackInsert
  <2>. QED  BY <2>2
<1>. QED  BY <1>1, <1>3, <1>4, <1>5, <1>8, <1>9, CreatedTells

(* What a write leaves.                                                      *)
LEMMA WriteAtB ==
  ASSUME NEW I \in Value, NEW k \in Labels, NEW i \in Instructions, NEW v,
         NEW J, J = [I EXCEPT ![k][i].b = v]
  PROVE  /\ \A l \in Labels, x \in Instructions :
              /\ J[l][x].f = I[l][x].f
              /\ l # k \/ x # i => J[l][x].b = I[l][x].b
         /\ J[k][i].b = v
BY DEF Value, Values

LEMMA WriteAtF ==
  ASSUME NEW I \in Value, NEW k \in Labels, NEW i \in Instructions, NEW v,
         NEW J, J = [I EXCEPT ![k][i].f = v]
  PROVE  /\ \A l \in Labels, x \in Instructions :
              /\ J[l][x].b = I[l][x].b
              /\ l # k \/ x # i => J[l][x].f = I[l][x].f
         /\ J[k][i].f = v
BY DEF Value, Values

LEMMA TakenLemma ==
  ASSUME Typed, NEW w, Stack(w), w # <<>>
  PROVE  /\ Last(w) \in Pending /\ Last(w).label \in Labels /\ Last(w).bb \in BlocksOf(Last(w).label)
         /\ \A l, b : Queued(w, l, b) =>
              Queued(Front(w), l, b) \/ (l = Last(w).label /\ b = Last(w).bb)
         /\ \A l, b : Anew(w, l, b) =>
              \/ Anew(Front(w), l, b)
              \/ l = Last(w).label /\ b = Last(w).bb /\ ~Last(w).done
<1>1. w \in Seq(Pending)
  BY DEF Stack
<1>2. Last(w) \in Pending /\ ToSet(w) = ToSet(Front(w)) \cup {Last(w)}
  BY <1>1, TopLemma
<1>3. Last(w).label \in Labels /\ Last(w).bb \in BlocksOf(Last(w).label)
  BY <1>2 DEF Pending, BlocksOf
<1>4. \A l, b : Element(l, b, FALSE) = Last(w) =>
        l = Last(w).label /\ b = Last(w).bb /\ ~Last(w).done
  BY DEF Element
<1>. QED  BY <1>2, <1>3, <1>4 DEF Queued, Anew

LEMMA BackwardTaken ==
  ASSUME Typed, BackwardBlock
  PROVE  \E k \in Labels : \E c \in BlocksOf(k) : \E out : TakesBackward(k, c, out)
<1>1. PICK e, out :
        /\ e = Last(backward_worklist)
        /\ IsExit(FunctionOf(e.label), e.bb) =>
             out = SLIM_OUT[e.label][LastIns(FunctionOf(e.label), e.bb)].b
        /\ \/ IsExit(FunctionOf(e.label), e.bb) \/ IsLast(FunctionOf(e.label), e.bb)
           \/ out = UNION {SLIM_IN[e.label][FirstIns(FunctionOf(e.label), s)].b :
                               s \in ToSet(program[FunctionOf(e.label)].succ[e.bb])}
        /\ SLIM_OUT' = [SLIM_OUT EXCEPT ![e.label][LastIns(FunctionOf(e.label), e.bb)].b = out]
        /\ SLIM_IN' \in {SLIM_IN, [SLIM_IN EXCEPT ![e.label][FirstIns(FunctionOf(e.label), e.bb)].b = out]}
        /\ work' = Working(e, Len(Code(FunctionOf(e.label), e.bb)), out)
  BY DEF BackwardBlock
<1>2. /\ backward_worklist # <<>> /\ Stack(backward_worklist)
      /\ SLIM_IN \in Value /\ SLIM_OUT \in Value
  BY DEF BackwardBlock, Typed, ValuesOK, WorklistsOK
<1>3. PICK k \in Labels : k = e.label /\ e.bb \in BlocksOf(k)
  BY <1>1, <1>2, TakenLemma
<1>4. PICK c \in BlocksOf(k) : k \in Labels /\ k = e.label /\ c = e.bb
  BY <1>3
<1>5. PICK i \in Instructions, j \in Instructions :
        i = FirstIns(FunctionOf(k), c) /\ j = LastIns(FunctionOf(k), c)
  BY <1>4, EndsLemma
<1>6. /\ SLIM_OUT' = [SLIM_OUT EXCEPT ![k][j].b = out]
      /\ SLIM_IN' \in {SLIM_IN, [SLIM_IN EXCEPT ![k][i].b = out]}
  BY <1>1, <1>4, <1>5
<1>7. /\ \A l \in Labels, x \in Instructions :
           /\ SLIM_OUT'[l][x].f = SLIM_OUT[l][x].f
           /\ l # k \/ x # j => SLIM_OUT'[l][x].b = SLIM_OUT[l][x].b
      /\ SLIM_OUT'[k][j].b = out
  <2>1. SLIM_OUT' = [SLIM_OUT EXCEPT ![k][j].b = out] /\ SLIM_OUT \in Value
    BY <1>2, <1>6
  <2>2. \A l \in Labels, x \in Instructions :
          /\ SLIM_OUT'[l][x].f = SLIM_OUT[l][x].f
          /\ l # k \/ x # j => SLIM_OUT'[l][x].b = SLIM_OUT[l][x].b
    BY <2>1, WriteAtB
  <2>3. SLIM_OUT'[k][j].b = out
    BY <2>1 DEF Value, Values
  <2>. QED  BY <2>2, <2>3
<1>8. \A l \in Labels, x \in Instructions :
        /\ SLIM_IN'[l][x].f = SLIM_IN[l][x].f
        /\ l # k \/ x # i => SLIM_IN'[l][x].b = SLIM_IN[l][x].b
  <2>1. CASE SLIM_IN' = SLIM_IN
    BY <2>1
  <2>2. CASE SLIM_IN' = [SLIM_IN EXCEPT ![k][i].b = out]
    BY <1>2, <2>2, WriteAtB
  <2>. QED  BY <1>6, <2>1, <2>2
<1>9. /\ work' # NoBlock /\ work'.label = k /\ work'.bb = c
      /\ work'.i = Len(Code(FunctionOf(k), c)) /\ work'.prev = out /\ work'.done = e.done
      /\ work'.in = SLIM_IN[k][FirstIns(FunctionOf(k), c)]
      /\ work'.out = SLIM_OUT[k][LastIns(FunctionOf(k), c)]
  <2>1. k # None
    BY NoneDiffers DEF Typed, ContextsOK
  <2>2. /\ work'.label = k /\ work'.bb = c
        /\ work'.i = Len(Code(FunctionOf(k), c)) /\ work'.prev = out /\ work'.done = e.done
        /\ work'.in = SLIM_IN[k][FirstIns(FunctionOf(k), c)]
        /\ work'.out = SLIM_OUT[k][LastIns(FunctionOf(k), c)]
    BY <1>1, <1>4 DEF Working
  <2>. QED  BY <2>1, <2>2 DEF NoBlock
<1>10. /\ IsExit(FunctionOf(k), c) => out = Needed(k, c)
       /\ \/ IsExit(FunctionOf(k), c) \/ IsLast(FunctionOf(k), c)
          \/ out = UNION {SLIM_IN[k][FirstIns(FunctionOf(k), s)].b :
                            s \in ToSet(program[FunctionOf(k)].succ[c])}
  BY <1>1, <1>4 DEF Needed
<1>11. k = Last(backward_worklist).label /\ c = Last(backward_worklist).bb /\ e.done = Last(backward_worklist).done
  BY <1>1, <1>4
<1>12. TakesBackward(k, c, out)
  BY <1>5, <1>7, <1>8, <1>9, <1>10, <1>11 DEF TakesBackward
<1>. QED  BY <1>4, <1>12

LEMMA BackwardBlockTells ==
  ASSUME Typed, AllTold, BackwardBlock
  PROVE  AllTold'
<1>1. PICK k \in Labels : \E c \in BlocksOf(k) : \E out : TakesBackward(k, c, out)
  BY BackwardTaken
<1>2. PICK c \in BlocksOf(k) : \E out : TakesBackward(k, c, out)
  BY <1>1
<1>3. PICK out : TakesBackward(k, c, out)
  BY <1>2
<1>4. /\ work = NoBlock /\ direction = "backward" /\ direction' = "backward"
      /\ backward_worklist # <<>> /\ backward_worklist' = Front(backward_worklist)
      /\ forward_worklist' = forward_worklist /\ processing' = k /\ Labels' = Labels
      /\ k = Last(backward_worklist).label /\ c = Last(backward_worklist).bb
      /\ Stack(backward_worklist)
  BY <1>3 DEF BackwardBlock, TakesBackward, Labels, Typed, WorklistsOK
<1>5. Grows /\ Typed'
  BY BackwardBlockTyped
<1>6. \A l, b : /\ ~InHand(l, b)
                /\ (InHand(l, b)' <=> (l = k /\ b = c))
  BY <1>3, <1>4 DEF InHand, TakesBackward
<1>7. ASSUME NEW l \in Labels PROVE Told(l)'
  <2> DEFINE f == FunctionOf(l)
  <2>0. /\ FunctionOf(l)' = f /\ BlocksOf(l)' = BlocksOf(l)
        /\ program'[FunctionOf(l)'] = program[f]
        /\ \A b : LastIns(f, b)' = LastIns(f, b)
    BY <1>5, FunctionLater
  <2>. SUFFICES ASSUME AllQueued(program[f])
                PROVE  Told(l)'
    BY <2>0 DEF Told
  <2>1. ASSUME NEW b \in BlocksOf(l)
        PROVE  /\ Live(l, b)' = Live(l, b) /\ Passed(l, b)' = Passed(l, b)
               /\ Entering(l, b)' = Entering(l, b)
               /\ \/ IsExit(f, b) \/ IsLast(f, b)
                  \/ Needed(l, b)' = Into(l, b)
                  \/ /\ Needed(l, b)' = Needed(l, b)
                     /\ Anew(backward_worklist, l, b) => Anew(backward_worklist', l, b)
    <3>1. /\ FirstIns(f, b) \in Instructions /\ LastIns(f, b) \in Instructions
          /\ FirstIns(FunctionOf(k), c) \in Instructions /\ LastIns(FunctionOf(k), c) \in Instructions
      BY EndsLemma
    <3>2. /\ Live(l, b)' = IF l = k /\ b = c THEN SLIM_IN[k][FirstIns(FunctionOf(k), c)].b
                           ELSE SLIM_IN'[l][FirstIns(f, b)].b
          /\ Passed(l, b)' = SLIM_OUT'[l][LastIns(f, b)].f
          /\ Needed(l, b)' = SLIM_OUT'[l][LastIns(f, b)].b
          /\ Entering(l, b)' = SLIM_IN'[l][FirstIns(f, b)].f
      BY <1>3, <1>4, <1>6, <2>0 DEF Live, Passed, Needed, Entering, FirstIns, TakesBackward
    <3>3. /\ Live(l, b) = SLIM_IN[l][FirstIns(f, b)].b
          /\ Passed(l, b) = SLIM_OUT[l][LastIns(f, b)].f
      BY <1>6 DEF Live, Passed
    <3>4. l # k \/ b # c =>
            /\ l # k \/ FirstIns(f, b) # FirstIns(FunctionOf(k), c)
            /\ l # k \/ LastIns(f, b) # LastIns(FunctionOf(k), c)
      BY DEF FirstIns, LastIns
    <3>5. /\ SLIM_IN'[l][FirstIns(f, b)].f = SLIM_IN[l][FirstIns(f, b)].f
          /\ SLIM_OUT'[l][LastIns(f, b)].f = SLIM_OUT[l][LastIns(f, b)].f
          /\ l # k \/ b # c => /\ SLIM_IN'[l][FirstIns(f, b)].b = SLIM_IN[l][FirstIns(f, b)].b
                               /\ SLIM_OUT'[l][LastIns(f, b)].b = SLIM_OUT[l][LastIns(f, b)].b
      BY <1>3, <3>1, <3>4 DEF TakesBackward
    <3>6. /\ Live(l, b)' = Live(l, b) /\ Passed(l, b)' = Passed(l, b)
          /\ Entering(l, b)' = Entering(l, b)
      BY <3>2, <3>3, <3>5 DEF Entering
    <3>7. CASE l = k /\ b = c
      <4>1. Needed(l, b)' = out
        BY <1>3, <3>2, <3>7 DEF TakesBackward
      <4>2. Into(l, b) = UNION {SLIM_IN[l][FirstIns(f, s)].b : s \in ToSet(program[f].succ[b])}
        BY <1>6 DEF Into, Live
      <4>. QED  BY <1>3, <3>6, <3>7, <4>1, <4>2 DEF TakesBackward
    <3>8. CASE l # k \/ b # c
      <4>1. Needed(l, b)' = Needed(l, b)
        BY <3>2, <3>5, <3>8 DEF Needed
      <4>2. Anew(backward_worklist, l, b) => Anew(backward_worklist', l, b)
        BY <1>4, <3>8, TakenLemma
      <4>. QED  BY <3>6, <4>1, <4>2
    <3>. QED  BY <3>7, <3>8
  <2>2. \A b : Anew(forward_worklist, l, b) => Anew(forward_worklist', l, b)
    BY <1>4
  <2>3. Told(l)
    BY DEF AllTold
  <2>. QED  BY <1>5, <2>1, <2>2, <2>3, StillTold
<1>8. WalkTold'
  <2>1. Needed(k, c)' = out
    BY <1>3, <1>5, FunctionLater DEF Needed, TakesBackward
  <2>2. Needed(work.label, work.bb)' = Needed(k, c)'
    BY <1>3 DEF Needed, FunctionOf, LastIns, Code, TakesBackward
  <2>. QED  BY <1>3, <1>4, <2>1, <2>2 DEF WalkTold, TakesBackward
<1>. QED  BY <1>4, <1>7, <1>8 DEF AllTold

LEMMA ForwardTaken ==
  ASSUME Typed, ForwardBlock
  PROVE  \E k \in Labels : \E c \in BlocksOf(k) : \E in : TakesForward(k, c, in)
<1>1. PICK e, in :
        /\ e = Last(forward_worklist)
        /\ IsExit(FunctionOf(e.label), e.bb) =>
             in = SLIM_IN[e.label][FirstIns(FunctionOf(e.label), e.bb)].f
        /\ \/ IsExit(FunctionOf(e.label), e.bb)
           \/ in = IF ~IsEntry(FunctionOf(e.label), e.bb)
                   THEN performMeetForward(
                          {}, UNION {SLIM_OUT[e.label][LastIns(FunctionOf(e.label), p)].f :
                                       p \in predecessors(program[FunctionOf(e.label)], e.bb)},
                          SLIM_IN[e.label][FirstIns(FunctionOf(e.label), e.bb)].b)
                   ELSE IF FunctionOf(e.label) = "main"
                   THEN MainBoundaryForward(SLIM_IN[e.label][FirstIns(FunctionOf(e.label), e.bb)].b)
                   ELSE contexts[e.label].inflow.f
        /\ SLIM_IN' = [SLIM_IN EXCEPT ![e.label][FirstIns(FunctionOf(e.label), e.bb)].f = in]
        /\ work' = Working(e, 1, in)
  BY DEF ForwardBlock
<1>2. forward_worklist # <<>> /\ Stack(forward_worklist) /\ SLIM_IN \in Value
  BY DEF ForwardBlock, Typed, ValuesOK, WorklistsOK
<1>3. PICK k \in Labels : k = e.label /\ e.bb \in BlocksOf(k)
  BY <1>1, <1>2, TakenLemma
<1>4. PICK c \in BlocksOf(k) : k \in Labels /\ k = e.label /\ c = e.bb
  BY <1>3
<1>5. PICK i \in Instructions : i = FirstIns(FunctionOf(k), c)
  BY <1>4, EndsLemma
<1>6. SLIM_IN' = [SLIM_IN EXCEPT ![k][i].f = in]
  BY <1>1, <1>4, <1>5
<1>7. \A l \in Labels, x \in Instructions :
        /\ SLIM_IN'[l][x].b = SLIM_IN[l][x].b
        /\ l # k \/ x # i => SLIM_IN'[l][x].f = SLIM_IN[l][x].f
  BY <1>2, <1>6, WriteAtF
<1>8. SLIM_IN'[k][i].f = in
  BY <1>2, <1>6 DEF Value, Values
<1>9. /\ work' # NoBlock /\ work'.label = k /\ work'.bb = c
      /\ work'.i = 1 /\ work'.prev = in /\ work'.done = e.done
      /\ work'.in = SLIM_IN[k][FirstIns(FunctionOf(k), c)]
      /\ work'.out = SLIM_OUT[k][LastIns(FunctionOf(k), c)]
  <2>1. k # None
    BY NoneDiffers DEF Typed, ContextsOK
  <2>2. /\ work'.label = k /\ work'.bb = c
        /\ work'.i = 1 /\ work'.prev = in /\ work'.done = e.done
        /\ work'.in = SLIM_IN[k][FirstIns(FunctionOf(k), c)]
        /\ work'.out = SLIM_OUT[k][LastIns(FunctionOf(k), c)]
    BY <1>1, <1>4 DEF Working
  <2>. QED  BY <2>1, <2>2 DEF NoBlock
<1>10. /\ IsExit(FunctionOf(k), c) => in = Entering(k, c)
       /\ \/ IsExit(FunctionOf(k), c)
          \/ in = IF ~IsEntry(FunctionOf(k), c)
                  THEN performMeetForward(
                         {}, UNION {SLIM_OUT[k][LastIns(FunctionOf(k), p)].f :
                                      p \in predecessors(program[FunctionOf(k)], c)},
                         SLIM_IN[k][FirstIns(FunctionOf(k), c)].b)
                  ELSE IF FunctionOf(k) = "main"
                  THEN MainBoundaryForward(SLIM_IN[k][FirstIns(FunctionOf(k), c)].b)
                  ELSE contexts[k].inflow.f
  BY <1>1, <1>4 DEF Entering
<1>11. k = Last(forward_worklist).label /\ c = Last(forward_worklist).bb /\ e.done = Last(forward_worklist).done
  BY <1>1, <1>4
<1>12. TakesForward(k, c, in)
  BY <1>5, <1>7, <1>8, <1>9, <1>10, <1>11 DEF TakesForward
<1>. QED  BY <1>4, <1>12

LEMMA ForwardBlockTells ==
  ASSUME Typed, AllTold, ForwardBlock
  PROVE  AllTold'
<1>1. PICK k \in Labels : \E c \in BlocksOf(k) : \E in : TakesForward(k, c, in)
  BY ForwardTaken
<1>2. PICK c \in BlocksOf(k) : \E in : TakesForward(k, c, in)
  BY <1>1
<1>3. PICK in : TakesForward(k, c, in)
  BY <1>2
<1>4. /\ work = NoBlock /\ direction = "forward" /\ direction' = "forward"
      /\ forward_worklist # <<>> /\ forward_worklist' = Front(forward_worklist)
      /\ backward_worklist' = backward_worklist /\ processing' = k /\ Labels' = Labels
      /\ SLIM_OUT' = SLIM_OUT
      /\ k = Last(forward_worklist).label /\ c = Last(forward_worklist).bb
      /\ Stack(forward_worklist)
  BY <1>3 DEF ForwardBlock, TakesForward, Labels, Typed, WorklistsOK
<1>5. Grows /\ Typed'
  BY ForwardBlockTyped
<1>6. \A l, b : /\ ~InHand(l, b)
                /\ (InHand(l, b)' <=> (l = k /\ b = c))
  BY <1>3, <1>4 DEF InHand, TakesForward
<1>7. ASSUME NEW l \in Labels PROVE Told(l)'
  <2> DEFINE f == FunctionOf(l)
  <2>0. /\ FunctionOf(l)' = f /\ BlocksOf(l)' = BlocksOf(l)
        /\ program'[FunctionOf(l)'] = program[f]
        /\ \A b : LastIns(f, b)' = LastIns(f, b)
    BY <1>5, FunctionLater
  <2>. SUFFICES ASSUME AllQueued(program[f])
                PROVE  Told(l)'
    BY <2>0 DEF Told
  <2>1. ASSUME NEW b \in BlocksOf(l)
        PROVE  /\ Live(l, b)' = Live(l, b) /\ Passed(l, b)' = Passed(l, b)
               /\ Needed(l, b)' = Needed(l, b)
               /\ \/ IsExit(f, b)
                  \/ Entering(l, b)' = Arriving(l, b)
                  \/ /\ Entering(l, b)' = Entering(l, b)
                     /\ Anew(forward_worklist, l, b) => Anew(forward_worklist', l, b)
    <3>1. /\ FirstIns(f, b) \in Instructions /\ LastIns(f, b) \in Instructions
          /\ FirstIns(FunctionOf(k), c) \in Instructions /\ LastIns(FunctionOf(k), c) \in Instructions
      BY EndsLemma
    <3>2. /\ Live(l, b)' = SLIM_IN'[l][FirstIns(f, b)].b
          /\ Passed(l, b)' = IF l = k /\ b = c THEN SLIM_OUT[k][LastIns(FunctionOf(k), c)].f
                             ELSE SLIM_OUT'[l][LastIns(f, b)].f
          /\ Needed(l, b)' = SLIM_OUT'[l][LastIns(f, b)].b
          /\ Entering(l, b)' = SLIM_IN'[l][FirstIns(f, b)].f
      BY <1>3, <1>4, <1>6, <2>0 DEF Live, Passed, Needed, Entering, FirstIns, TakesForward
    <3>3. /\ Live(l, b) = SLIM_IN[l][FirstIns(f, b)].b
          /\ Passed(l, b) = SLIM_OUT[l][LastIns(f, b)].f
      BY <1>6 DEF Live, Passed
    <3>4. l # k \/ b # c => l # k \/ FirstIns(f, b) # FirstIns(FunctionOf(k), c)
      BY DEF FirstIns
    <3>5. /\ SLIM_IN'[l][FirstIns(f, b)].b = SLIM_IN[l][FirstIns(f, b)].b
          /\ l # k \/ b # c => SLIM_IN'[l][FirstIns(f, b)].f = SLIM_IN[l][FirstIns(f, b)].f
      BY <1>3, <3>1, <3>4 DEF TakesForward
    <3>6. /\ Live(l, b)' = Live(l, b) /\ Passed(l, b)' = Passed(l, b)
          /\ Needed(l, b)' = Needed(l, b)
      BY <1>4, <3>2, <3>3, <3>5 DEF Needed
    <3>7. CASE l = k /\ b = c
      <4>1. Entering(l, b)' = in
        BY <1>3, <3>2, <3>7 DEF TakesForward
      <4>2. Beyond(l, b) = UNION {SLIM_OUT[l][LastIns(f, p)].f : p \in predecessors(program[f], b)}
        BY <1>6 DEF Beyond, Passed
      <4>3. performMeetForward({}, Beyond(l, b), Live(l, b)) = restrictByLivness(Beyond(l, b), Live(l, b))
        BY DEF performMeetForward
      <4>4. IsExit(f, b) \/ in = Arriving(l, b)
        BY <1>3, <3>3, <3>7, <4>2, <4>3 DEF Arriving, TakesForward
      <4>. QED  BY <3>6, <4>1, <4>4
    <3>8. CASE l # k \/ b # c
      <4>1. Entering(l, b)' = Entering(l, b)
        BY <3>2, <3>5, <3>8 DEF Entering
      <4>2. Anew(forward_worklist, l, b) => Anew(forward_worklist', l, b)
        BY <1>4, <3>8, TakenLemma
      <4>. QED  BY <3>6, <4>1, <4>2
    <3>. QED  BY <3>7, <3>8
  <2>2. \A b : Anew(backward_worklist, l, b) => Anew(backward_worklist', l, b)
    BY <1>4
  <2>3. Told(l)
    BY DEF AllTold
  <2>. QED  BY <1>5, <2>1, <2>2, <2>3, StillTold
<1>8. WalkTold'
  <2>1. Entering(k, c)' = in
    BY <1>3, <1>5, FunctionLater DEF Entering, FirstIns, TakesForward
  <2>2. Entering(work.label, work.bb)' = Entering(k, c)'
    BY <1>3 DEF Entering, FunctionOf, FirstIns, TakesForward
  <2>. QED  BY <1>3, <1>4, <2>1, <2>2 DEF WalkTold, TakesForward
<1>. QED  BY <1>4, <1>7, <1>8 DEF AllTold

(* What is in a worklist of a context is queued.                             *)
LEMMA FreshAnew ==
  ASSUME NEW w, NEW l, NEW bs, Fresh(l, bs) \subseteq ToSet(w)
  PROVE  \A b \in bs : Anew(w, l, b)
<1>1. ASSUME NEW b \in bs PROVE Anew(w, l, b)
  <2>1. Element(l, b, FALSE) \in ToSet(w)
    BY DEF Fresh
  <2>. QED  BY <2>1 DEF Anew
<1>. QED  BY <1>1

(* The block in hand is done with: whatever it passes on that has changed is *)
(* told.                                                                     *)
LEMMA EndKeeps ==
  ASSUME Typed, Grows, Labels' = Labels, AllTold, work # NoBlock, work' = NoBlock,
         SLIM_IN' = SLIM_IN, SLIM_OUT' = SLIM_OUT, direction' = direction,
         ToSet(backward_worklist) \subseteq ToSet(backward_worklist'),
         ToSet(forward_worklist) \subseteq ToSet(forward_worklist'),
         NEW k \in Labels, NEW c, k = work.label, c = work.bb,
         \/ direction = "forward"
         \/ SLIM_IN[k][FirstIns(FunctionOf(k), c)].b = work.in.b
         \/ /\ Fresh(k, predecessors(program[FunctionOf(k)], c)) \subseteq ToSet(backward_worklist')
            /\ Pair \in ToSet(forward_worklist'),
         \/ direction = "backward"
         \/ SLIM_OUT[k][LastIns(FunctionOf(k), c)].f = work.out.f
         \/ Fresh(k, ToSet(program[FunctionOf(k)].succ[c])) \subseteq ToSet(forward_worklist')
  PROVE  AllTold'
<1>1. \A l, b : InHand(l, b)' = FALSE /\ (InHand(l, b) <=> (l = k /\ b = c))
  BY DEF InHand
<1>2. ASSUME NEW l \in Labels PROVE Told(l)'
  <2> DEFINE f == FunctionOf(l)
  <2>0. /\ FunctionOf(l)' = f /\ BlocksOf(l)' = BlocksOf(l)
        /\ program'[FunctionOf(l)'] = program[f]
        /\ \A b : LastIns(f, b)' = LastIns(f, b)
    BY FunctionLater
  <2>. SUFFICES ASSUME AllQueued(program[f])
                PROVE  Told(l)'
    BY <2>0 DEF Told
  <2>1. ASSUME NEW b \in BlocksOf(l)
        PROVE  /\ Needed(l, b)' = Needed(l, b) /\ Entering(l, b)' = Entering(l, b)
               /\ Live(l, b)' = SLIM_IN[l][FirstIns(f, b)].b
               /\ Passed(l, b)' = SLIM_OUT[l][LastIns(f, b)].f
    BY <1>1, <2>0 DEF Live, Passed, Needed, Entering, FirstIns
  <2>2. ASSUME NEW b \in BlocksOf(l)
        PROVE  \/ Live(l, b)' = Live(l, b)
               \/ /\ \A p \in predecessors(program[f], b) : Anew(backward_worklist', l, p)
                  /\ Anew(forward_worklist', l, b)
    <3>1. CASE direction = "backward" /\ l = k /\ b = c
      <4>1. CASE SLIM_IN[k][FirstIns(FunctionOf(k), c)].b = work.in.b
        BY <1>1, <2>1, <3>1, <4>1 DEF Live
      <4>2. CASE /\ Fresh(k, predecessors(program[FunctionOf(k)], c)) \subseteq ToSet(backward_worklist')
                 /\ Pair \in ToSet(forward_worklist')
        <5>1. \A p \in predecessors(program[FunctionOf(k)], c) : Anew(backward_worklist', k, p)
          BY <4>2, FreshAnew
        <5>2. Anew(forward_worklist', k, c)
          BY <4>2 DEF Anew, Pair
        <5>. QED  BY <3>1, <5>1, <5>2
      <4>. QED  BY <3>1, <4>1, <4>2
    <3>2. CASE ~(direction = "backward" /\ l = k /\ b = c)
      BY <1>1, <2>1, <3>2 DEF Live
    <3>. QED  BY <3>1, <3>2
  <2>3. ASSUME NEW b \in BlocksOf(l)
        PROVE  \/ Passed(l, b)' = Passed(l, b)
               \/ \A s \in ToSet(program[f].succ[b]) : Anew(forward_worklist', l, s)
    <3>1. CASE direction = "forward" /\ l = k /\ b = c
      <4>1. CASE SLIM_OUT[k][LastIns(FunctionOf(k), c)].f = work.out.f
        BY <1>1, <2>1, <3>1, <4>1 DEF Passed
      <4>2. CASE Fresh(k, ToSet(program[FunctionOf(k)].succ[c])) \subseteq ToSet(forward_worklist')
        <5>1. \A s \in ToSet(program[FunctionOf(k)].succ[c]) : Anew(forward_worklist', k, s)
          BY <4>2, FreshAnew
        <5>. QED  BY <3>1, <5>1
      <4>. QED  BY <3>1, <4>1, <4>2
    <3>2. CASE ~(direction = "forward" /\ l = k /\ b = c)
      BY <1>1, <2>1, <3>2 DEF Passed
    <3>. QED  BY <3>1, <3>2
  <2>4. \A b : /\ Anew(backward_worklist, l, b) => Anew(backward_worklist', l, b)
               /\ Anew(forward_worklist, l, b) => Anew(forward_worklist', l, b)
    BY AnewLater
  <2>5. Told(l)
    BY DEF AllTold
  <2>. QED  BY <2>1, <2>2, <2>3, <2>4, <2>5, StillTold
<1>3. WalkTold'
  BY DEF WalkTold
<1>. QED  BY <1>2, <1>3 DEF AllTold

LEMMA EndTells ==
  ASSUME Typed, AllTold, BackwardEnd \/ ForwardEnd
  PROVE  AllTold'
<1>4. PICK k \in Labels : k = work.label
  BY ThisLemma DEF BackwardEnd, ForwardEnd, Going
<1>1. PICK c : k \in Labels /\ k = work.label /\ c = work.bb
  BY <1>4
<1>2. CASE BackwardEnd
  <2>1. /\ work # NoBlock /\ work' = NoBlock /\ direction = "backward" /\ direction' = direction
        /\ SLIM_IN' = SLIM_IN /\ SLIM_OUT' = SLIM_OUT
    BY <1>2 DEF BackwardEnd, Going, values
  <2>2. /\ Grows /\ Labels' = Labels
        /\ ToSet(backward_worklist) \subseteq ToSet(backward_worklist')
        /\ ToSet(forward_worklist) \subseteq ToSet(forward_worklist')
        /\ \/ SLIM_IN[work.label][FirstIns(FunctionOf(work.label), work.bb)].b = work.in.b
           \/ /\ Fresh(work.label, predecessors(program[FunctionOf(work.label)], work.bb))
                   \subseteq ToSet(backward_worklist')
              /\ Pair \in ToSet(forward_worklist')
    BY <1>2, BackwardEndTyped
  <2>. QED  BY <1>1, <2>1, <2>2, EndKeeps
<1>3. CASE ForwardEnd
  <2>1. /\ work # NoBlock /\ work' = NoBlock /\ direction = "forward" /\ direction' = direction
        /\ SLIM_IN' = SLIM_IN /\ SLIM_OUT' = SLIM_OUT
    BY <1>3 DEF ForwardEnd, Going, values
  <2>2. /\ Grows /\ Labels' = Labels
        /\ ToSet(backward_worklist) \subseteq ToSet(backward_worklist')
        /\ ToSet(forward_worklist) \subseteq ToSet(forward_worklist')
        /\ \/ SLIM_OUT[work.label][LastIns(FunctionOf(work.label), work.bb)].f = work.out.f
           \/ Fresh(work.label, ToSet(program[FunctionOf(work.label)].succ[work.bb]))
                \subseteq ToSet(forward_worklist')
    BY <1>3, ForwardEndTyped
  <2>. QED  BY <1>1, <2>1, <2>2, EndKeeps
<1>. QED  BY <1>2, <1>3

LEMMA SameTells ==
  ASSUME Typed, AllTold, Turn \/ UNCHANGED vars
  PROVE  AllTold'
<1>1. /\ UNCHANGED <<program, contexts, SLIM_IN, SLIM_OUT, processing, work>>
      /\ backward_worklist' = backward_worklist /\ forward_worklist' = forward_worklist
      /\ (work = NoBlock \/ direction' = direction)
  BY DEF Turn, vars, values, worklists
<1>2. Grows /\ Labels' = Labels
  BY TurnTyped, SameTyped
<1>3. ASSUME NEW l \in Labels PROVE Told(l)'
  <2> DEFINE f == FunctionOf(l)
  <2>0. /\ FunctionOf(l)' = f /\ BlocksOf(l)' = BlocksOf(l)
        /\ program'[FunctionOf(l)'] = program[f]
        /\ \A b : LastIns(f, b)' = LastIns(f, b)
    BY <1>2, FunctionLater
  <2>. SUFFICES ASSUME AllQueued(program[f])
                PROVE  Told(l)'
    BY <2>0 DEF Told
  <2>1. ASSUME NEW b \in BlocksOf(l)
        PROVE  /\ Live(l, b)' = Live(l, b) /\ Passed(l, b)' = Passed(l, b)
               /\ Needed(l, b)' = Needed(l, b) /\ Entering(l, b)' = Entering(l, b)
    <3>1. CASE work = NoBlock
      BY <1>1, <2>0, <3>1 DEF Live, Passed, Needed, Entering, FirstIns, InHand, NoBlock
    <3>2. CASE direction' = direction
      BY <1>1, <2>0, <3>2 DEF Live, Passed, Needed, Entering, FirstIns, InHand, NoBlock
    <3>. QED  BY <1>1, <3>1, <3>2
  <2>2. Told(l)
    BY DEF AllTold
  <2>. QED  BY <1>1, <1>2, <2>1, <2>2, StillTold
<1>4. WalkTold'
  <2>1. CASE work = NoBlock
    BY <1>1, <2>1 DEF WalkTold, NoBlock
  <2>2. ASSUME NEW k \in Labels, NEW c, NEW p \in Labels,
               k = work.label, c = work.bb, p = processing, direction' = direction
        PROVE  WalkTold'
    <3>1. /\ FunctionOf(k)' = FunctionOf(k) /\ LastIns(FunctionOf(k), c)' = LastIns(FunctionOf(k), c)
          /\ Code(FunctionOf(k), c)' = Code(FunctionOf(k), c)
      BY <1>2, FunctionLater
    <3>2. /\ Needed(work.label, work.bb)' = Needed(k, c) /\ Entering(work.label, work.bb)' = Entering(k, c)
          /\ Code(FunctionOf(work.label), work.bb)' = Code(FunctionOf(k), c)
      BY <1>1, <2>2, <3>1 DEF Needed, Entering, FunctionOf, FirstIns, LastIns, Code
    <3>3. AllPending(p)' = AllPending(p)
      <4>1. /\ FunctionOf(p)' = FunctionOf(p) /\ BlocksOf(p)' = BlocksOf(p)
            /\ program'[FunctionOf(p)'] = program[FunctionOf(p)]
        BY <1>2, FunctionLater
      <4>. QED  BY <1>1, <4>1 DEF AllPending
    <3>4. AllPending(processing)' = AllPending(p)'
      BY <1>1, <2>2 DEF AllPending, FunctionOf, BlocksOf
    <3>. QED  BY <1>1, <2>2, <3>2, <3>3, <3>4 DEF AllTold, WalkTold, NoBlock
  <2>3. work # NoBlock => work.label \in Labels
    BY ThisLemma
  <2>. QED  BY <1>1, <2>1, <2>2, <2>3 DEF Typed, RestOK
<1>. QED  BY <1>2, <1>3, <1>4 DEF AllTold

LEMMA InitPending ==
  ASSUME Init
  PROVE  AllPending(0)
<1> DEFINE fn == program["main"]
<1>1. /\ work = NoBlock /\ forward_worklist = Elements(0, fn.post)
      /\ Labels = {0} /\ FunctionOf(0) = "main"
      /\ \E ends \in Terminating(fn) : backward_worklist = Elements(0, fn.ipost \o ends)
  BY DEF Init, Labels, FunctionOf, NewContext
<1>2. ProgramOK /\ "main" \in DOMAIN program
  BY ProgramsAnalysed DEF Init, ProgramOK, IsProgram
<1>. HIDE DEF fn
<1>3. PICK ends \in Terminating(fn) : backward_worklist = Elements(0, fn.ipost \o ends)
  BY <1>1
<1>4. /\ fn.ipost \o ends \in Seq(Blocks(fn))
      /\ ToSet(fn.ipost \o ends) = ToSet(fn.ipost) \cup getTerminatingBBList(fn)
      /\ fn.post \in Seq(Blocks(fn))
  BY <1>2, <1>3, QueuedLemma, BlocksLemma DEF fn
<1>5. /\ ToSet(backward_worklist) = Fresh(0, ToSet(fn.ipost) \cup getTerminatingBBList(fn))
      /\ ToSet(forward_worklist) = Fresh(0, ToSet(fn.post))
  <2>1. \A bs \in Seq(Blocks(fn)) : ToSet(Elements(0, bs)) = Fresh(0, ToSet(bs))
    <3>. SUFFICES ASSUME NEW B, B = Blocks(fn), NEW bs \in Seq(B)
                  PROVE  ToSet(Elements(0, bs)) = Fresh(0, ToSet(bs))
      OBVIOUS
    <3> DEFINE S == Fresh(0, B)
    <3>1. Fresh(0, B) \subseteq S
      OBVIOUS
    <3>. HIDE DEF S
    <3>2. /\ Elements(0, bs) \in Seq(S)
          /\ ToSet(Elements(0, bs)) = Fresh(0, ToSet(bs))
      BY <3>1, ElementsLemma
    <3>. QED  BY <3>2
  <2>. QED  BY <1>1, <1>3, <1>4, <2>1
<1>6. /\ \A b \in ToSet(fn.ipost) \cup getTerminatingBBList(fn) : Anew(backward_worklist, 0, b)
      /\ \A b \in ToSet(fn.post) : Anew(forward_worklist, 0, b)
  BY <1>5, FreshAnew
<1>. QED  BY <1>1, <1>6 DEF AllPending, AllQueued, BlocksOf, fn

LEMMA ToldInit ==
  ASSUME Init
  PROVE  AllTold
<1>1. work = NoBlock /\ Labels = {0}
  BY DEF Init, Labels
<1>2. Told(0) /\ WalkTold
  BY <1>1, InitPending, PendingTold DEF WalkTold
<1>. QED  BY <1>1, <1>2 DEF AllTold

LEMMA ToldNext ==
  ASSUME Typed, AllTold, [Next]_vars
  PROVE  AllTold'
BY BackwardBlockTells, BackwardPlainTells, BackwardCallTells, BackwardNewContextTells,
   ForwardBlockTells, ForwardPlainTells, ForwardCallTells, ForwardNewContextTells,
   EndTells, SameTells
   DEF Next, Backward, Forward

LEMMA ToldImplies ==
  ASSUME AllTold
  PROVE  NeighboursCurrent
<1>. SUFFICES ASSUME work = NoBlock, NEW l \in Labels, AllQueued(program[FunctionOf(l)]),
                     NEW b \in Blocks(program[FunctionOf(l)]), ~IsExit(FunctionOf(l), b)
              PROVE  /\ \/ IsLast(FunctionOf(l), b)
                        \/ SLIM_OUT[l][LastIns(FunctionOf(l), b)].b = LiveInto(l, b)
                        \/ Queued(backward_worklist, l, b)
                     /\ \/ IsEntry(FunctionOf(l), b)
                        \/ SLIM_IN[l][FirstIns(FunctionOf(l), b)].f =
                             restrictByLivness(PassedTo(l, b), SLIM_IN[l][FirstIns(FunctionOf(l), b)].b)
                        \/ Queued(forward_worklist, l, b)
  BY DEF NeighboursCurrent
<1>1. BackwardTold(l, b) /\ ForwardTold(l, b)
  BY DEF AllTold, Told, BlocksOf
<1>2. \A c : /\ Live(l, c) = SLIM_IN[l][FirstIns(FunctionOf(l), c)].b
             /\ Passed(l, c) = SLIM_OUT[l][LastIns(FunctionOf(l), c)].f
  BY DEF Live, Passed, InHand
<1>3. Into(l, b) = LiveInto(l, b) /\ Beyond(l, b) = PassedTo(l, b)
  BY <1>2 DEF Into, LiveInto, Beyond, PassedTo
<1>4. \A w : Anew(w, l, b) => Queued(w, l, b)
  BY DEF Anew, Queued, Element
<1>. QED
  BY <1>1, <1>2, <1>3, <1>4 DEF BackwardTold, ForwardTold, Needed, Entering, Arriving

(* Between blocks, no change is lost: for every program and in whatever      *)
(* order blocks, callers and new contexts come, each block has of its        *)
(* neighbours what they have, or is queued, so that the analysis stops at a  *)
(* fixed point of the data-flow equations between blocks only.               *)
THEOREM NoChangeLost == Spec => []NeighboursCurrent
<1>1. Init => Typed /\ AllTold
  BY InitTyped, ToldInit
<1>2. Typed /\ AllTold /\ [Next]_vars => (Typed /\ AllTold)'
  BY NextTyped, ToldNext
<1>3. AllTold => NeighboursCurrent
  BY ToldImplies
<1>. QED  BY <1>1, <1>2, <1>3, PTL DEF Spec

-----------------------------------------------------------------------------
(* Functions *)

LEMMA HypothesisLater ==
  ASSUME Grows, marked \subseteq marked'
  PROVE  /\ EveryBlockQueued' <=> EveryBlockQueued
         /\ Unmarked' => Unmarked
         /\ Globals \subseteq Globals'
<1>1. Globals \subseteq Globals' /\ Global \subseteq Globals
  BY DEF Globals
<1>2. EveryBlockQueued' <=> EveryBlockQueued
  BY DEF EveryBlockQueued, Grows
<1>. QED  BY <1>1, <1>2 DEF Unmarked

LEMMA LearntLater ==
  ASSUME Typed, Grows, marked \subseteq marked', NEW l \in Labels, NEW b, NEW n
  PROVE  /\ PositionsOf(l, b)' = PositionsOf(l, b)
         /\ Learnt(l, b, n) => Learnt(l, b, n)'
<1>1. /\ FunctionOf(l)' = FunctionOf(l)
      /\ \A x : CodeAt(x)' = CodeAt(x)
      /\ \A f, c : Code(f, c)' = Code(f, c)
      /\ Labels \subseteq Labels' /\ \A k \in Labels : FunctionOf(k)' = FunctionOf(k)
  BY GrowsLemma DEF Grows
<1>2. PositionsOf(l, b)' = PositionsOf(l, b)
  BY <1>1 DEF PositionsOf
<1>3. ASSUME Learnt(l, b, n) PROVE Learnt(l, b, n)'
  <2>1. CodeAt(<<FunctionOf(l), b, n>>)' = CodeAt(<<FunctionOf(l), b, n>>)
    BY <1>1
  <2>2. Globals \subseteq Globals'
    BY HypothesisLater
  <2>3. CodeAt(<<FunctionOf(l), b, n>>).op = "call" =>
          \E k \in Labels' : FunctionOf(k)' = CodeAt(<<FunctionOf(l), b, n>>).rhs
    BY <1>1, <1>3 DEF Learnt
  <2>. QED  BY <1>3, <2>1, <2>2, <2>3 DEF Learnt
<1>. QED  BY <1>2, <1>3

(* What a step must do for what is ahead, when no context is made.           *)
LEMMA LearntStep ==
  ASSUME Typed, Grows, marked \subseteq marked', Labels' = Labels, AllLearnt,
         ToSet(forward_worklist) \subseteq ToSet(forward_worklist') \/ ~FirstPass,
         FirstPass => direction' = "backward" \/ \A l, b, n : ~Ahead(l, b, n),
         \A l \in Labels : \A b \in BlocksOf(l) : \A n \in PositionsOf(l, b) :
           FirstPass /\ Ahead(l, b, n) => Learnt(l, b, n)' \/ Ahead(l, b, n)'
  PROVE  AllLearnt'
<1>. SUFFICES ASSUME EveryBlockQueued,
                     NEW l \in Labels, NEW b \in BlocksOf(l), NEW n \in PositionsOf(l, b)
              PROVE  Learnt(l, b, n)' \/ (FirstPass' /\ Ahead(l, b, n)')
  <2>1. EveryBlockQueued' <=> EveryBlockQueued
    BY HypothesisLater
  <2>2. \A l \in Labels : /\ BlocksOf(l)' = BlocksOf(l)
                          /\ \A b : PositionsOf(l, b)' = PositionsOf(l, b)
    BY FunctionLater, LearntLater
  <2>. QED  BY <2>1, <2>2 DEF AllLearnt
<1>1. Learnt(l, b, n) \/ (FirstPass /\ Ahead(l, b, n))
  BY DEF AllLearnt
<1>2. CASE Learnt(l, b, n)
  BY <1>2, LearntLater
<1>3. CASE FirstPass /\ Ahead(l, b, n)
  <2>1. FirstPass'
    <3>1. \A k \in Labels : BlocksOf(k)' = BlocksOf(k)
      BY FunctionLater
    <3>2. \A k \in Labels : \A c \in BlocksOf(k) : Anew(forward_worklist, k, c)'
      BY <1>3 DEF FirstPass, Anew, Element
    <3>. QED  BY <1>3, <3>1, <3>2 DEF FirstPass
  <2>. QED  BY <1>3, <2>1
<1>. QED  BY <1>1, <1>2, <1>3

(* Nothing new is learnt where no block is handled in the first pass.        *)
LEMMA LearntOnce ==
  ASSUME Typed, Grows, marked' = marked, Labels' = Labels, AllLearnt, ~FirstPass
  PROVE  AllLearnt'
BY LearntStep

(* Backwards, only the position handled is not ahead any more.               *)
LEMMA AheadLater ==
  ASSUME Typed, Grows, work # NoBlock, Walks(work', work.i - 1),
         ToSet(backward_worklist) \subseteq ToSet(backward_worklist'),
         NEW l \in Labels, NEW b \in BlocksOf(l), NEW n \in PositionsOf(l, b), Ahead(l, b, n),
         ~(l = work.label /\ b = work.bb /\ n = work.i)
  PROVE  Ahead(l, b, n)'
<1>1. CASE Queued(backward_worklist, l, b)
  BY <1>1 DEF Ahead, Queued
<1>2. CASE InHand(l, b) /\ n <= work.i
  <2>1. n \in Nat /\ work.i \in Nat /\ n # work.i
    <3>1. l = work.label /\ b = work.bb /\ work.i \in Nat
      BY <1>2, StepFields DEF InHand
    <3>2. Len(Code(FunctionOf(l), b)) \in Nat
      BY <3>1, ThisLemma
    <3>3. n \in Nat
      BY <3>2 DEF PositionsOf
    <3>. QED  BY <3>1, <3>3
  <2>2. n <= work'.i
    BY <1>2, <2>1 DEF Walks
  <2>3. InHand(l, b)'
    BY <1>2 DEF InHand, Walks, NoBlock
  <2>. QED  BY <2>2, <2>3 DEF Ahead
<1>. QED  BY <1>1, <1>2 DEF Ahead

LEMMA PlainLearns ==
  ASSUME Typed, BackwardPlain, AllLearnt
  PROVE  AllLearnt'
<1>1. /\ work # NoBlock /\ direction = "backward" /\ direction' = direction
      /\ backward_worklist' = backward_worklist
      /\ forward_worklist' \in {forward_worklist, workInsert(forward_worklist, Pair)}
      /\ At.op # "call"
      /\ marked' = marked \cup (IF At.op = "ret" THEN {At.rhs} \ {""} ELSE {})
  BY DEF BackwardPlain, Going
<1>2. Grows /\ Labels' = Labels
  BY BackwardPlainTyped
<1>3. Walks(work', work.i - 1)
  <2>1. \/ work' = [work EXCEPT !.i = work.i - 1]
        \/ \E new : work' = [work EXCEPT !.i = work.i - 1, !.prev = new]
    BY DEF BackwardPlain
  <2>2. CASE work' = [work EXCEPT !.i = work.i - 1]
    BY <1>1, <2>2, WalksFields
  <2>3. ASSUME NEW new, work' = [work EXCEPT !.i = work.i - 1, !.prev = new]
        PROVE  Walks(work', work.i - 1)
    BY <1>1, <2>3, WalksFields
  <2>. QED  BY <2>1, <2>2, <2>3
<1>4. ToSet(forward_worklist) \subseteq ToSet(forward_worklist')
  <2>1. Stack(forward_worklist) /\ Pair \in Pending
    BY <1>1, ThisLemma DEF Typed, WorklistsOK
  <2>2. ToSet(workInsert(forward_worklist, Pair)) = ToSet(forward_worklist) \cup {Pair}
    BY <2>1, StackInsert
  <2>. QED  BY <1>1, <2>2
<1>5. ASSUME NEW l \in Labels, NEW b \in BlocksOf(l), NEW n \in PositionsOf(l, b), Ahead(l, b, n)
      PROVE  Learnt(l, b, n)' \/ Ahead(l, b, n)'
  <2>1. CASE l = work.label /\ b = work.bb /\ n = work.i
    <3>1. CodeAt(<<FunctionOf(l), b, n>>)' = At
      <4>1. At = CodeAt(<<FunctionOf(l), b, n>>)
        BY <2>1 DEF At, This
      <4>. QED  BY <1>2, <4>1, GrowsLemma
    <3>2. At.op = "ret" => At.rhs \in Globals' \cup {""}
      BY <1>1 DEF Globals
    <3>. QED  BY <1>1, <3>1, <3>2 DEF Learnt
  <2>2. CASE ~(l = work.label /\ b = work.bb /\ n = work.i)
    BY <1>1, <1>2, <1>3, <1>5, <2>2, AheadLater
  <2>. QED  BY <2>1, <2>2
<1>. QED  BY <1>1, <1>2, <1>4, <1>5, LearntStep

LEMMA CallLearns ==
  ASSUME Typed, BackwardCall, AllLearnt
  PROVE  AllLearnt'
<1>1. /\ work # NoBlock /\ direction = "backward" /\ direction' = direction
      /\ backward_worklist' = backward_worklist /\ forward_worklist' = forward_worklist
      /\ At.op = "call" /\ marked' = marked /\ work.i >= 1
  BY DEF BackwardCall, Going, worklists
<1>2. Grows /\ Labels' = Labels
  BY BackwardCallTyped
<1>3. PICK k \in Matching(BackwardInflow) :
        \E new : work' = [work EXCEPT !.i = work.i - 1, !.prev = new]
  BY Zenon DEF BackwardCall
<1>4. Walks(work', work.i - 1)
  <2>1. PICK new : work' = [work EXCEPT !.i = work.i - 1, !.prev = new]
    BY <1>3
  <2>. QED  BY <1>1, <2>1, WalksFields
<1>5. This \in Instructions /\ This[1] = FunctionOf(work.label) /\ At = CodeAt(This)
  BY <1>1, ThisLemma DEF WorkIn
<1>6. k \in Labels' /\ FunctionOf(k)' = At.rhs
  <2>1. k \in Labels /\ FunctionOf(k) = At.rhs
    BY <1>1, <1>5, MatchingLemma
  <2>. QED  BY <1>2, <2>1, GrowsLemma
<1>7. ASSUME NEW l \in Labels, NEW b \in BlocksOf(l), NEW n \in PositionsOf(l, b), Ahead(l, b, n)
      PROVE  Learnt(l, b, n)' \/ Ahead(l, b, n)'
  <2>1. CASE l = work.label /\ b = work.bb /\ n = work.i
    <3>1. CodeAt(<<FunctionOf(l), b, n>>)' = At
      <4>1. At = CodeAt(<<FunctionOf(l), b, n>>)
        BY <2>1 DEF At, This
      <4>. QED  BY <1>2, <4>1, GrowsLemma
    <3>. QED  BY <1>1, <1>6, <3>1 DEF Learnt
  <2>2. CASE ~(l = work.label /\ b = work.bb /\ n = work.i)
    BY <1>1, <1>2, <1>4, <1>7, <2>2, AheadLater
  <2>. QED  BY <2>1, <2>2
<1>. QED  BY <1>1, <1>2, <1>7, LearntStep

(* A new context: in the first pass all of it is ahead, and later there is   *)
(* one of the same function already.                                         *)
LEMMA NewLearns ==
  ASSUME Typed, Grows, AllLearnt, marked' = marked, direction' = direction, work # NoBlock,
         At.op = "call", work.i \in PositionsOf(work.label, work.bb),
         direction = "backward" => Walks(work', work.i - 1),
         ToSet(backward_worklist) \subseteq ToSet(backward_worklist'),
         ToSet(forward_worklist) \subseteq ToSet(forward_worklist'),
         NEW new, Labels' = Labels \cup {new}, new \notin Labels,
         contexts'[new].function = At.rhs, At.rhs \in DOMAIN program, AllPending(new)'
  PROVE  AllLearnt'
<1>1. /\ FunctionOf(new)' = At.rhs /\ program' = program
      /\ BlocksOf(new)' = Blocks(program[At.rhs])
      /\ \A x : CodeAt(x)' = CodeAt(x)
      /\ \A f, c : Code(f, c)' = Code(f, c)
  <2>1. FunctionOf(new)' = At.rhs /\ program' = program
    BY DEF FunctionOf, Grows
  <2>. QED  BY <2>1, GrowsLemma DEF BlocksOf
<1>2. work.label \in Labels /\ work.bb \in BlocksOf(work.label)
  BY ThisLemma DEF BlocksOf
<1>3. At = CodeAt(<<FunctionOf(work.label), work.bb, work.i>>)
  BY DEF At, This
<1>. SUFFICES ASSUME EveryBlockQueued,
                     NEW l \in Labels', NEW b \in BlocksOf(l)', NEW n \in PositionsOf(l, b)'
              PROVE  Learnt(l, b, n)' \/ (FirstPass' /\ Ahead(l, b, n)')
  BY HypothesisLater DEF AllLearnt
<1>4. \A c \in Blocks(program[At.rhs]) :
        /\ Anew(backward_worklist, new, c)' /\ Anew(forward_worklist, new, c)'
        /\ Queued(backward_worklist, new, c)'
  <2>1. \A c \in Blocks(program[At.rhs]) :
          Anew(backward_worklist, new, c)' /\ Anew(forward_worklist, new, c)'
    BY <1>1 DEF AllPending, EveryBlockQueued
  <2>. QED  BY <2>1 DEF Anew, Queued, Element
<1>5. FirstPass => FirstPass'
  <2>1. \A k \in Labels : BlocksOf(k)' = BlocksOf(k)
    BY FunctionLater
  <2>2. FirstPass => \A k \in Labels : \A c \in BlocksOf(k) : Anew(forward_worklist, k, c)'
    BY DEF FirstPass, Anew, Element
  <2>. QED  BY <1>1, <1>4, <2>1, <2>2 DEF FirstPass
<1>6. CASE l \in Labels
  <2>1. b \in BlocksOf(l) /\ n \in PositionsOf(l, b)
    BY <1>6, FunctionLater, LearntLater
  <2>2. CASE l = work.label /\ b = work.bb /\ n = work.i
    <3>1. CodeAt(<<FunctionOf(l), b, n>>)' = At
      <4>1. FunctionOf(l)' = FunctionOf(l)
        BY <1>6, FunctionLater
      <4>. QED  BY <1>1, <1>3, <2>2, <4>1
    <3>. QED  BY <1>1, <3>1 DEF Learnt
  <2>3. CASE ~(l = work.label /\ b = work.bb /\ n = work.i)
    <3>1. Learnt(l, b, n) \/ (FirstPass /\ Ahead(l, b, n))
      BY <1>6, <2>1 DEF AllLearnt
    <3>2. Learnt(l, b, n) => Learnt(l, b, n)'
      BY <1>6, LearntLater
    <3>3. FirstPass /\ Ahead(l, b, n) => Ahead(l, b, n)'
      BY <1>6, <2>1, <2>3, AheadLater DEF FirstPass
    <3>. QED  BY <1>5, <3>1, <3>2, <3>3
  <2>. QED  BY <2>2, <2>3
<1>7. CASE l = new
  <2>1. b \in Blocks(program[At.rhs])
    BY <1>1, <1>7
  <2>2. CASE FirstPass
    BY <1>4, <1>5, <1>7, <2>1, <2>2 DEF Ahead
  <2>3. CASE ~FirstPass
    <3>1. Learnt(work.label, work.bb, work.i)
      BY <1>2, <2>3 DEF AllLearnt
    <3>2. PICK k \in Labels : FunctionOf(k) = At.rhs
      BY <1>3, <3>1 DEF Learnt
    <3>3. b \in BlocksOf(k) /\ n \in PositionsOf(k, b)
      BY <1>1, <1>7, <2>1, <3>2 DEF BlocksOf, PositionsOf
    <3>4. Learnt(k, b, n)'
      BY <2>3, <3>3, LearntLater DEF AllLearnt
    <3>5. FunctionOf(k)' = At.rhs
      BY <3>2, FunctionLater
    <3>. QED  BY <1>1, <1>7, <3>4, <3>5 DEF Learnt
  <2>. QED  BY <2>2, <2>3
<1>. QED  BY <1>6, <1>7

LEMMA NewContextPlace ==
  ASSUME Typed, CallsRecorded, BackwardNewContext \/ ForwardNewContext
  PROVE  /\ work # NoBlock /\ At.op = "call" /\ At.rhs \in DOMAIN program
         /\ At = CodeAt(<<FunctionOf(work.label), work.bb, work.i>>)
         /\ work.label \in Labels /\ work.bb \in BlocksOf(work.label)
         /\ work.i \in PositionsOf(work.label, work.bb)
<1>1. /\ work # NoBlock /\ At.op = "call"
      /\ \/ direction = "backward" /\ work.i >= 1
         \/ direction = "forward" /\ work.i <= Len(Code(FunctionOf(work.label), work.bb))
  BY DEF BackwardNewContext, ForwardNewContext, Going, Instruction
<1>2. /\ This \in Instructions /\ work.i \in 1 .. Len(Code(FunctionOf(work.label), work.bb))
      /\ IsInstruction(At, program) /\ This[1] = FunctionOf(work.label) /\ At = CodeAt(This)
  BY <1>1, ThisLemma DEF WorkIn
<1>3. At.rhs \in DOMAIN program
  BY <1>1, <1>2, InflowLemma
<1>4. /\ work.label \in Labels /\ work.bb \in BlocksOf(work.label)
      /\ work.i \in PositionsOf(work.label, work.bb)
  BY <1>1, <1>2, ThisLemma DEF BlocksOf, PositionsOf
<1>. QED  BY <1>1, <1>3, <1>4 DEF At, This

LEMMA NewContextLearns ==
  ASSUME Typed, CallsRecorded, AllLearnt, BackwardNewContext \/ ForwardNewContext
  PROVE  AllLearnt'
<1>1. /\ work # NoBlock /\ At.op = "call" /\ marked' = marked /\ direction' = direction
      /\ direction = "backward" => work.i >= 1
  BY DEF BackwardNewContext, ForwardNewContext, Going
<1>2. work.i \in PositionsOf(work.label, work.bb) /\ At.rhs \in DOMAIN program
  BY NewContextPlace
<1>3. PICK inflow, I, O, fw, bw :
        /\ Created(At.rhs, inflow, I, O, fw, bw)
        /\ fw \in {forward_worklist, workInsert(forward_worklist, PairDone)}
        /\ bw \in {backward_worklist, workInsert(backward_worklist, PairDone)}
  BY BackwardNewContextTyped, ForwardNewContextTyped
<1>4. Grows
  BY BackwardNewContextTyped, ForwardNewContextTyped
<1>5. PICK new : /\ Labels' = Labels \cup {new} /\ new \notin Labels
                 /\ processing' = new /\ contexts'[new].function = At.rhs
                 /\ ToSet(fw) \subseteq ToSet(forward_worklist')
                 /\ ToSet(bw) \subseteq ToSet(backward_worklist')
  BY <1>3 DEF Created
<1>6. AllPending(new)'
  <2>1. AllPending(processing)'
    BY <1>3, <1>4, CreatedPending
  <2>. QED  BY <1>5, <2>1 DEF AllPending, FunctionOf, BlocksOf
<1>7. /\ ToSet(forward_worklist) \subseteq ToSet(forward_worklist')
      /\ ToSet(backward_worklist) \subseteq ToSet(backward_worklist')
  <2>1. Stack(forward_worklist) /\ Stack(backward_worklist) /\ PairDone \in Pending
    BY <1>1, ThisLemma DEF Typed, WorklistsOK
  <2>2. /\ ToSet(workInsert(forward_worklist, PairDone)) = ToSet(forward_worklist) \cup {PairDone}
        /\ ToSet(workInsert(backward_worklist, PairDone)) = ToSet(backward_worklist) \cup {PairDone}
    BY <2>1, StackInsert
  <2>. QED  BY <1>3, <1>5, <2>2
<1>8. direction = "backward" => Walks(work', work.i - 1)
  <2>. SUFFICES ASSUME direction = "backward" PROVE Walks(work', work.i - 1)
    OBVIOUS
  <2>1. BackwardNewContext
    BY DEF ForwardNewContext, Going
  <2>2. work' = [work EXCEPT !.i = work.i - 1]
    BY <2>1 DEF BackwardNewContext
  <2>. QED  BY <1>1, <2>2, WalksFields
<1>. QED  BY <1>1, <1>2, <1>4, <1>5, <1>6, <1>7, <1>8, NewLearns

LEMMA BlockLearns ==
  ASSUME Typed, AllLearnt, BackwardBlock
  PROVE  AllLearnt'
<1>1. /\ work = NoBlock /\ direction' = direction /\ marked' = marked
      /\ forward_worklist' = forward_worklist /\ backward_worklist # <<>>
      /\ backward_worklist' = Front(backward_worklist) /\ contexts' = contexts
      /\ Stack(backward_worklist)
  BY DEF BackwardBlock, Typed, WorklistsOK
<1>2. Grows /\ Labels' = Labels
  BY <1>1, BackwardBlockTyped DEF Labels
<1>3. PICK k \in Labels : \E c \in BlocksOf(k) : \E out : TakesBackward(k, c, out)
  BY BackwardTaken
<1>4. PICK c \in BlocksOf(k) : \E out : TakesBackward(k, c, out)
  BY <1>3
<1>5. /\ k = Last(backward_worklist).label /\ c = Last(backward_worklist).bb
      /\ work' # NoBlock /\ work'.label = k /\ work'.bb = c
      /\ work'.i = Len(Code(FunctionOf(k), c))
  BY <1>4 DEF TakesBackward
<1>6. ASSUME NEW l \in Labels, NEW b \in BlocksOf(l), NEW n \in PositionsOf(l, b), Ahead(l, b, n)
      PROVE  Ahead(l, b, n)'
  <2>1. Queued(backward_worklist, l, b)
    BY <1>1, <1>6 DEF Ahead, InHand
  <2>2. Queued(Front(backward_worklist), l, b) \/ (l = k /\ b = c)
    BY <1>1, <1>5, <2>1, TakenLemma
  <2>3. CASE Queued(Front(backward_worklist), l, b)
    BY <1>1, <2>3 DEF Ahead, Queued
  <2>4. CASE l = k /\ b = c
    <3>1. Len(Code(FunctionOf(l), b)) \in Nat
      BY <2>4, <1>4, EndsLemma, PositionLemma DEF Typed, BlocksOf, ContextsOK, ContextRecord, FunctionOf
    <3>2. n <= Len(Code(FunctionOf(l), b))
      BY <3>1 DEF PositionsOf
    <3>. QED  BY <1>5, <2>4, <3>2 DEF Ahead, InHand, NoBlock
  <2>. QED  BY <2>2, <2>3, <2>4
<1>. QED  BY <1>1, <1>2, <1>6, LearntStep DEF FirstPass

LEMMA EndLearns ==
  ASSUME Typed, AllLearnt, BackwardEnd
  PROVE  AllLearnt'
<1>1. /\ work # NoBlock /\ work.i = 0 /\ direction' = direction /\ marked' = marked
  BY DEF BackwardEnd, Going
<1>2. /\ Grows /\ Labels' = Labels
      /\ ToSet(forward_worklist) \subseteq ToSet(forward_worklist')
      /\ ToSet(backward_worklist) \subseteq ToSet(backward_worklist')
  BY BackwardEndTyped
<1>3. ASSUME NEW l \in Labels, NEW b \in BlocksOf(l), NEW n \in PositionsOf(l, b), Ahead(l, b, n)
      PROVE  Ahead(l, b, n)'
  <2>1. ~(InHand(l, b) /\ n <= work.i)
    BY <1>1 DEF PositionsOf
  <2>. QED  BY <1>2, <1>3, <2>1 DEF Ahead, Queued
<1>. QED  BY <1>1, <1>2, <1>3, LearntStep DEF FirstPass

(* Forwards, and where the direction turns.                                  *)
LEMMA OtherwiseLearns ==
  ASSUME Typed, CallsRecorded, AllLearnt,
         ForwardBlock \/ ForwardPlain \/ ForwardCall \/ ForwardEnd \/ Turn \/ UNCHANGED vars
  PROVE  AllLearnt'
<1>1. /\ Grows /\ Labels' = Labels /\ marked' = marked
  <2>1. Grows /\ Labels' = Labels
    BY ForwardBlockTyped, ForwardPlainTyped, ForwardCallTyped, ForwardEndTyped, TurnTyped, SameTyped
       DEF ForwardBlock, Labels
  <2>2. marked' = marked
    BY DEF ForwardBlock, ForwardPlain, ForwardCall, ForwardEnd, Turn, vars
  <2>. QED  BY <2>1, <2>2
<1>2. CASE direction # "backward"
  BY <1>1, <1>2, LearntOnce DEF FirstPass
<1>3. CASE direction = "backward" /\ Turn
  <2>1. \A l, b, n : ~Ahead(l, b, n)
    BY <1>3 DEF Turn, Ahead, Queued, InHand, ToSet
  <2>2. forward_worklist' = forward_worklist
    BY <1>3 DEF Turn, worklists
  <2>. QED  BY <1>1, <2>1, <2>2, LearntStep
<1>4. CASE direction = "backward" /\ UNCHANGED vars
  <2>1. /\ direction' = direction /\ forward_worklist' = forward_worklist
        /\ backward_worklist' = backward_worklist /\ work' = work
    BY <1>4 DEF vars, worklists
  <2>2. \A l, b, n : Ahead(l, b, n) => Ahead(l, b, n)'
    BY <2>1 DEF Ahead, Queued, InHand, NoBlock
  <2>. QED  BY <1>1, <1>4, <2>1, <2>2, LearntStep
<1>. QED
  BY <1>2, <1>3, <1>4 DEF ForwardBlock, ForwardPlain, ForwardCall, ForwardEnd, Going

LEMMA LearntNext ==
  ASSUME Typed, CallsRecorded, AllLearnt, [Next]_vars
  PROVE  AllLearnt'
BY BlockLearns, PlainLearns, CallLearns, NewContextLearns, EndLearns, OtherwiseLearns
   DEF Next, Backward, Forward

LEMMA LearntInit ==
  ASSUME Init, AllPending(0), Typed
  PROVE  AllLearnt
<1>1. direction = "backward" /\ Labels = {0}
  BY DEF Init, Labels
<1>2. ASSUME EveryBlockQueued, NEW b \in BlocksOf(0)
      PROVE  Anew(forward_worklist, 0, b) /\ Queued(backward_worklist, 0, b)
  <2>1. FunctionOf(0) \in DOMAIN program
    BY <1>1 DEF Typed, ContextsOK, ContextRecord, FunctionOf
  <2>2. Anew(forward_worklist, 0, b) /\ Anew(backward_worklist, 0, b)
    BY <1>2, <2>1 DEF AllPending, EveryBlockQueued
  <2>. QED  BY <2>2 DEF Anew, Queued, Element
<1>. QED  BY <1>1, <1>2 DEF AllLearnt, FirstPass, Ahead

LEMMA MarkedLater ==
  ASSUME Typed, AllLearnt, BackwardPlain
  PROVE  MarkedInTime
<1>1. /\ work # NoBlock /\ work.i >= 1 /\ direction = "backward"
      /\ marked' = marked \cup (IF At.op = "ret" THEN {At.rhs} \ {""} ELSE {})
  BY DEF BackwardPlain, Going
<1>2. CASE ~EveryBlockQueued
  BY <1>1, <1>2 DEF MarkedInTime, Unmarked, Globals
<1>3. CASE EveryBlockQueued
  <2>1. /\ work.label \in Labels /\ work.bb \in BlocksOf(work.label)
        /\ work.i \in PositionsOf(work.label, work.bb)
    <3>1. work.label \in Labels /\ work.bb \in Blocks(program[FunctionOf(work.label)])
      BY <1>1, ThisLemma
    <3>2. work.i \in 0 .. Len(Code(FunctionOf(work.label), work.bb))
      BY <1>1, ThisLemma DEF WorkIn
    <3>3. Len(Code(FunctionOf(work.label), work.bb)) \in Nat
      BY <1>1, ThisLemma
    <3>4. work.i \in 1 .. Len(Code(FunctionOf(work.label), work.bb))
      <4>1. work.i >= 1
        BY <1>1
      <4>. QED  BY <3>2, <3>3, <4>1
    <3>. QED  BY <3>1, <3>4 DEF BlocksOf, PositionsOf
  <2>2. At = CodeAt(<<FunctionOf(work.label), work.bb, work.i>>)
    BY DEF At, This
  <2>3. Learnt(work.label, work.bb, work.i) \/ FirstPass
    BY <1>3, <2>1 DEF AllLearnt
  <2>4. Learnt(work.label, work.bb, work.i) => Globals' = Globals
    BY <1>1, <2>2 DEF Learnt, Globals
  <2>5. Globals' # Globals => ~Unmarked'
    BY <1>1 DEF Unmarked, Globals
  <2>. QED  BY <1>1, <2>3, <2>4, <2>5 DEF MarkedInTime, FirstPass
<1>. QED  BY <1>2, <1>3

LEMMA LearntFirst ==
  ASSUME Typed, CallsRecorded, AllLearnt, [Next]_vars, EveryBlockQueued, ~FirstPass
  PROVE  Globals' = Globals /\ EnteredFunctions' = EnteredFunctions
<1>1. ASSUME Grows, Labels' = Labels PROVE EnteredFunctions' = EnteredFunctions
  <2>1. \A l \in Labels : FunctionOf(l)' = FunctionOf(l)
    BY <1>1, FunctionLater
  <2>. QED  BY <1>1, <2>1 DEF EnteredFunctions
<1>2. CASE BackwardPlain
  <2>1. Grows /\ Labels' = Labels
    BY <1>2, BackwardPlainTyped
  <2>2. Globals' = Globals
    <3>1. MarkedInTime /\ direction = "backward"
      BY <1>2, MarkedLater DEF BackwardPlain, Going
    <3>. QED  BY <3>1 DEF MarkedInTime, FirstPass
  <2>. QED  BY <1>1, <2>1, <2>2
<1>3. CASE BackwardNewContext \/ ForwardNewContext
  <2>1. marked' = marked /\ Grows
    BY <1>3, BackwardNewContextTyped, ForwardNewContextTyped
       DEF BackwardNewContext, ForwardNewContext
  <2>2. PICK new : Labels' = Labels \cup {new} /\ FunctionOf(new)' = At.rhs
    BY <1>3, BackwardNewContextTyped, ForwardNewContextTyped DEF Created, FunctionOf
  <2>3. At.rhs \in EnteredFunctions
    <3>1. /\ At.op = "call" /\ At = CodeAt(<<FunctionOf(work.label), work.bb, work.i>>)
          /\ work.label \in Labels /\ work.bb \in BlocksOf(work.label)
          /\ work.i \in PositionsOf(work.label, work.bb)
      BY <1>3, NewContextPlace
    <3>. QED  BY <3>1 DEF AllLearnt, Learnt, EnteredFunctions
  <2>4. \A l \in Labels : FunctionOf(l)' = FunctionOf(l)
    BY <2>1, FunctionLater
  <2>. QED  BY <2>1, <2>2, <2>3, <2>4 DEF EnteredFunctions, Globals
<1>4. CASE \/ BackwardBlock \/ BackwardCall \/ BackwardEnd \/ ForwardBlock \/ ForwardPlain
           \/ ForwardCall \/ ForwardEnd \/ Turn \/ UNCHANGED vars
  <2>1. Grows /\ Labels' = Labels
    BY <1>4, BackwardBlockTyped, BackwardCallTyped, BackwardEndTyped, ForwardBlockTyped,
       ForwardPlainTyped, ForwardCallTyped, ForwardEndTyped, TurnTyped, SameTyped
       DEF BackwardBlock, ForwardBlock, Labels
  <2>2. marked' = marked
    BY <1>4 DEF BackwardBlock, BackwardCall, BackwardEnd, ForwardBlock, ForwardPlain,
                ForwardCall, ForwardEnd, Turn, vars
  <2>. QED  BY <1>1, <2>1, <2>2 DEF Globals
<1>. QED  BY <1>2, <1>3, <1>4 DEF Next, Backward, Forward

(* The first backward pass comes through the whole program: once a block has *)
(* been handled forwards, no other operand counts for a global and no        *)
(* function is entered for the first time, where every block of the program  *)
(* is queued (Analysis.h 3108-3126, lfcpa.cpp 1086).                         *)
THEOREM LearntInFirstPass == Spec => FirstPassLearns
<1> DEFINE Inv == Typed /\ CallsRecorded /\ AllLearnt
           Step == EveryBlockQueued /\ ~FirstPass
                   => Globals' = Globals /\ EnteredFunctions' = EnteredFunctions
<1>1. Init => Inv
  BY InitTyped, RecordedInit, InitPending, LearntInit
<1>2. Inv /\ [Next]_vars => Inv'
  BY NextTyped, RecordedNext, LearntNext
<1>3. Inv /\ [Next]_vars => [Step]_vars
  BY LearntFirst
<1>. QED  BY <1>1, <1>2, <1>3, PTL DEF Spec, FirstPassLearns

-----------------------------------------------------------------------------
(* Calls *)

(* What splitting ensures of such a block.                                   *)
LEMMA SiteLemma ==
  ASSUME Typed, NEW l \in Labels, NEW b \in ProperBlocks(l), NEW n \in CallsOf(FunctionOf(l), b)
  PROVE  LET f == FunctionOf(l) IN
         /\ b \in BlocksOf(l) /\ AllQueued(program[f])
         /\ b \in ToSet(program[f].ipost) /\ b # Back(program[f])
         /\ f \in DOMAIN program
         /\ n \in Nat \ {0} /\ Len(Code(f, b)) \in Nat /\ n < Len(Code(f, b))
         /\ <<f, b, n>> \in Instructions /\ CodeAt(<<f, b, n>>).op = "call"
         /\ LastIns(f, b) # <<f, b, n>>
         /\ ~IsLast(f, b) /\ HasCall(f, b)
         /\ \A m \in 1 .. Len(Code(f, b)) :
              /\ m # n => CodeAt(<<f, b, m>>).op # "call"
              /\ m > n => \/ CodeAt(<<f, b, m>>).op \in Builtin \cup {"br"}
                          \/ m = n + 1 /\ CodeAt(<<f, b, m>>).op \in {"addr", "copy"}
<1> DEFINE f  == FunctionOf(l)
           fn == program[f]
           len == Len(Code(f, b))
<1>1. /\ b \in Blocks(fn) /\ AllQueued(fn) /\ b \in ToSet(fn.ipost) /\ b # Back(fn)
  BY DEF ProperBlocks, Proper, BlocksOf
<1>2. f \in DOMAIN program /\ ProgramOK
  BY DEF Typed, ContextsOK, ContextRecord, FunctionOf
<1>3. SplitBlock(Code(f, b))
  BY <1>1, <1>2 DEF ProgramOK, IsProgram, IsFunction, Code
<1>4. /\ len \in Nat \ {0} /\ DOMAIN Code(f, b) = 1 .. len
      /\ \A i \in 1 .. len : <<f, b, i>> \in Instructions /\ CodeAt(<<f, b, i>>) = Code(f, b)[i]
  BY <1>1, <1>2, PositionLemma
<1>5. n \in 1 .. len /\ Code(f, b)[n].op = "call" /\ CodeAt(<<f, b, n>>).op = "call"
  BY <1>4 DEF CallsOf
<1>6. /\ Code(f, b)[len].op = "br"
      /\ \A m \in 1 .. n - 1 : Code(f, b)[m].op \in {"addr", "copy"}
      /\ \A m \in n + 1 .. len :
           \/ Code(f, b)[m].op \in Builtin \cup {"br"}
           \/ m = n + 1 /\ Code(f, b)[m].op \in {"addr", "copy"}
  BY <1>3, <1>4, <1>5 DEF SplitBlock
<1>7. n < len
  BY <1>4, <1>5, <1>6
<1>8. ASSUME NEW m \in 1 .. len
      PROVE  /\ m # n => CodeAt(<<f, b, m>>).op # "call"
             /\ m > n => \/ CodeAt(<<f, b, m>>).op \in Builtin \cup {"br"}
                         \/ m = n + 1 /\ CodeAt(<<f, b, m>>).op \in {"addr", "copy"}
  <2>1. CodeAt(<<f, b, m>>) = Code(f, b)[m]
    BY <1>4
  <2>2. m < n => CodeAt(<<f, b, m>>).op # "call"
    <3>1. m < n => m \in 1 .. n - 1
      BY <1>4, <1>5
    <3>. QED  BY <1>6, <2>1, <3>1
  <2>3. m > n => \/ CodeAt(<<f, b, m>>).op \in Builtin \cup {"br"}
                 \/ m = n + 1 /\ CodeAt(<<f, b, m>>).op \in {"addr", "copy"}
    <3>1. m > n => m \in n + 1 .. len
      BY <1>4, <1>5
    <3>. QED  BY <1>6, <2>1, <3>1
  <2>. QED  BY <1>4, <1>5, <2>2, <2>3 DEF Builtin
<1>9. ~IsLast(f, b)
  <2>1. Last(fn.code[b]).op # "ret"
    BY <1>6 DEF Last, Code
  <2>. QED  BY <2>1 DEF IsLast, getLastBasicBlock
<1>10. HasCall(f, b)
  BY <1>4, <1>5 DEF HasCall, HasOp, Code
<1>11. LastIns(f, b) # <<f, b, n>>
  BY <1>4, <1>7 DEF LastIns
<1>. QED
  BY <1>1, <1>2, <1>4, <1>5, <1>7, <1>8, <1>9, <1>10, <1>11 DEF BlocksOf

(* Places stay where they are.                                               *)
LEMMA SiteLater ==
  ASSUME Typed, Grows, NEW l \in Labels
  PROVE  /\ FunctionOf(l)' = FunctionOf(l) /\ BlocksOf(l)' = BlocksOf(l)
         /\ ProperBlocks(l)' = ProperBlocks(l)
         /\ \A b : CallsOf(FunctionOf(l), b)' = CallsOf(FunctionOf(l), b)
         /\ \A b, n, L : Came(FunctionOf(l), b, n, L)' = Came(FunctionOf(l), b, n, L)
         /\ \A x : CodeAt(x)' = CodeAt(x)
         /\ program' = program
<1>1. /\ FunctionOf(l)' = FunctionOf(l) /\ BlocksOf(l)' = BlocksOf(l)
      /\ program'[FunctionOf(l)'] = program[FunctionOf(l)]
      /\ program' = program
  BY FunctionLater DEF Grows
<1>2. \A x : CodeAt(x)' = CodeAt(x)
  BY GrowsLemma
<1>3. \A b : CallsOf(FunctionOf(l), b)' = CallsOf(FunctionOf(l), b)
  <2>1. \A f, b : Code(f, b)' = Code(f, b)
    BY GrowsLemma
  <2>. QED  BY <1>1, <1>2, <2>1 DEF CallsOf
<1>4. ProperBlocks(l)' = ProperBlocks(l)
  BY <1>1 DEF ProperBlocks, Proper
<1>5. \A b, n, L : Came(FunctionOf(l), b, n, L)' = Came(FunctionOf(l), b, n, L)
  BY <1>1, <1>2 DEF Came
<1>. QED  BY <1>1, <1>2, <1>3, <1>4, <1>5

(* What keeps a call in agreement: its values and its edge stay, and a new   *)
(* outflow of its context, or a change at an end of the block that is not    *)
(* remembered any more, queues the block.                                    *)
LEMMA SiteKept ==
  ASSUME Typed, Grows, direction' = direction,
         NEW l \in Labels, NEW b, NEW n, Agrees(l, b, n),
         Globals' = Globals \/ (~Unmarked' /\ Anew(forward_worklist', l, b)),
         CallIn(l, b, n)' = CallIn(l, b, n), CallOut(l, b, n)' = CallOut(l, b, n),
         Needed(l, b)' = Needed(l, b),
         Known(l, b, n)' <=> Known(l, b, n),
         Known(l, b, n) =>
           /\ Callee(l, b, n)'.inflow = Callee(l, b, n).inflow
           /\ \/ Callee(l, b, n)'.outflow.b = Callee(l, b, n).outflow.b
              \/ Queued(backward_worklist', l, b)
           /\ \/ Callee(l, b, n)'.outflow.f = Callee(l, b, n).outflow.f
              \/ Queued(forward_worklist', l, b),
         Queued(backward_worklist, l, b) => Queued(backward_worklist', l, b),
         Queued(forward_worklist, l, b) => Queued(forward_worklist', l, b),
         Anew(backward_worklist, l, b) => Anew(backward_worklist', l, b),
         Anew(forward_worklist, l, b) => Anew(forward_worklist', l, b),
         ToCome(l, b, n) => ToCome(l, b, n)' /\ work'.done = work.done,
         InChanged(l, b) => InChanged(l, b)' \/ Queued(backward_worklist', l, b),
         OutChanged(l, b) => OutChanged(l, b)' \/ Queued(forward_worklist', l, b)
  PROVE  Agrees(l, b, n)'
<1>1. /\ \A L : Came(FunctionOf(l), b, n, L)' = Came(FunctionOf(l), b, n, L)
      /\ FunctionOf(l)' = FunctionOf(l) /\ \A x : CodeAt(x)' = CodeAt(x)
      /\ program' = program
  BY SiteLater
<1>2. Globals' = Globals =>
        InflowAt(l, b, n)' = InflowAt(l, b, n) /\ (Unmarked' <=> Unmarked)
  BY <1>1 DEF InflowAt, Unmarked
<1>4. LiveAfter(l, b, n)'
  <2>1. LiveAfter(l, b, n)' <=>
          \/ (CallOut(l, b, n)').b = Came(FunctionOf(l), b, n, Needed(l, b))
          \/ /\ direction = "backward"
             /\ Queued(forward_worklist', l, b) \/ OutChanged(l, b)'
             /\ Anew(backward_worklist', l, b) \/ (ToCome(l, b, n)' /\ ~work'.done)
    <3>1. Came(FunctionOf(l), b, n, Needed(l, b))' = Came(FunctionOf(l), b, n, Needed(l, b))
      BY <1>1 DEF Came
    <3>. QED  BY <3>1 DEF LiveAfter, Queued, Anew, Element
  <2>. QED  BY <2>1 DEF Agrees, LiveAfter
<1>5. Entered(l, b, n)'
  <2>1. Entered(l, b, n)' <=>
          (Known(l, b, n)' =>
             \/ Callee(l, b, n)'.inflow = InflowAt(l, b, n)'
             \/ /\ Unmarked' => /\ direction = "forward"
                                /\ Queued(backward_worklist', l, b) \/ InChanged(l, b)'
                /\ \/ Anew(forward_worklist', l, b)
                   \/ direction = "forward" /\ ToCome(l, b, n)' /\ ~work'.done)
    BY DEF Entered, Queued, Anew, Element
  <2>2. CASE Globals' = Globals
    BY <1>2, <2>1, <2>2 DEF Agrees, Entered
  <2>3. CASE ~Unmarked' /\ Anew(forward_worklist', l, b)
    BY <2>1, <2>3
  <2>. QED  BY <2>2, <2>3
<1>6. Needs(l, b, n)'
  <2>1. Needs(l, b, n)' <=>
          (Unmarked' /\ Known(l, b, n)' /\ n = 1 =>
             \/ (Callee(l, b, n)').outflow.b \subseteq (CallIn(l, b, n)').b
             \/ Queued(backward_worklist', l, b) \/ InChanged(l, b)'
             \/ direction = "backward" /\ ToCome(l, b, n)')
    BY DEF Needs, Queued
  <2>. QED  BY <1>2, <2>1 DEF Agrees, Needs
<1>7. Returns(l, b, n)'
  <2>1. Returns(l, b, n)' <=>
          (Known(l, b, n)' =>
             \/ restrictByLivness((Callee(l, b, n)').outflow.f, (CallOut(l, b, n)').b)
                  \subseteq (CallOut(l, b, n)').f
             \/ Queued(forward_worklist', l, b) \/ OutChanged(l, b)'
             \/ direction = "forward" /\ ToCome(l, b, n)')
    BY DEF Returns, Queued, restrictByLivness
  <2>. QED  BY <2>1 DEF Agrees, Returns
<1>8. Unmet(l, b, n)'
  <2>1. Unmet(l, b, n)' <=>
          (Known(l, b, n)' \/
             /\ Queued(backward_worklist', l, b) \/ (direction = "backward" /\ ToCome(l, b, n)')
             /\ Queued(forward_worklist', l, b) \/ (direction = "forward" /\ ToCome(l, b, n)'))
    BY DEF Unmet, Queued
  <2>. QED  BY <2>1 DEF Agrees, Unmet
<1>. QED  BY <1>4, <1>5, <1>6, <1>7, <1>8 DEF Agrees

(* A context with all its blocks queued and no callees.                      *)
LEMMA PendingSite ==
  ASSUME NEW l, NEW b, NEW n, ~Known(l, b, n),
         Anew(backward_worklist, l, b), Anew(forward_worklist, l, b),
         \/ direction = "backward"
         \/ CallOut(l, b, n).b = Came(FunctionOf(l), b, n, Needed(l, b))
  PROVE  Agrees(l, b, n)
<1>1. Queued(backward_worklist, l, b) /\ Queued(forward_worklist, l, b)
  BY DEF Anew, Queued, Element
<1>. QED  BY <1>1 DEF Agrees, LiveAfter, Entered, Needs, Returns, Unmet

LEMMA PendingSiteLater ==
  ASSUME NEW l, NEW b, NEW n, ~Known(l, b, n)',
         Anew(backward_worklist', l, b), Anew(forward_worklist', l, b),
         \/ direction' = "backward"
         \/ (CallOut(l, b, n)').b = Came(FunctionOf(l), b, n, Needed(l, b))'
  PROVE  Agrees(l, b, n)'
<1>1. /\ Queued(backward_worklist', l, b) /\ Queued(forward_worklist', l, b)
      /\ Anew(backward_worklist, l, b)' /\ Anew(forward_worklist, l, b)'
  BY DEF Anew, Queued, Element
<1>2. Queued(backward_worklist, l, b)' /\ Queued(forward_worklist, l, b)'
  BY <1>1 DEF Queued
<1>. QED  BY <1>1, <1>2 DEF Agrees, LiveAfter, Entered, Needs, Returns, Unmet

(* Handling an instruction leaves the calls in agreement, but for a call it  *)
(* is itself.                                                                *)
LEMMA WalkSites ==
  ASSUME Typed, Grows, AllTold, EdgesSettled, work # NoBlock, Written,
         direction' = direction,
         Walks(work', IF direction = "backward" THEN work.i - 1 ELSE work.i + 1),
         work'.done = work.done,
         ToSet(backward_worklist) \subseteq ToSet(backward_worklist'),
         ToSet(forward_worklist) \subseteq ToSet(forward_worklist'),
         \A k \in Labels : contexts'[k].outflow = contexts[k].outflow,
         NEW to, \/ graph' = graph
                 \/ At.op = "call" /\ graph' = Put(graph, <<work.label, This>>, to),
         NEW l \in Labels, NEW b \in ProperBlocks(l), NEW n \in CallsOf(FunctionOf(l), b),
         Globals' = Globals \/ (~Unmarked' /\ Anew(forward_worklist, l, b)),
         Agrees(l, b, n),
         ~(At.op = "call" /\ l = work.label /\ b = work.bb)
  PROVE  Agrees(l, b, n)'
<1> DEFINE f == FunctionOf(l)
           x == <<f, b, n>>
           e == <<l, x>>
<1>1. /\ FunctionOf(l)' = f /\ BlocksOf(l)' = BlocksOf(l)
      /\ \A L : Came(f, b, n, L)' = Came(f, b, n, L)
      /\ \A g, c : InHand(g, c)' = InHand(g, c)
      /\ work'.in = work.in /\ work'.out = work.out
      /\ work'.i = IF direction = "backward" THEN work.i - 1 ELSE work.i + 1
  <2>1. \A g, c : InHand(g, c)' = InHand(g, c)
    BY DEF InHand, Walks, NoBlock
  <2>. QED  BY <2>1, SiteLater DEF Walks
<1>2. /\ b \in BlocksOf(l) /\ AllQueued(program[f]) /\ x \in Instructions
      /\ CodeAt(x).op = "call" /\ n \in Nat /\ LastIns(f, b) \in Instructions
  BY SiteLemma, EndsLemma
<1>3. direction \in {"forward", "backward"} /\ work.i \in Nat
  BY StepFields DEF Typed, RestOK
<1>4. /\ (CallIn(l, b, n))' = SLIM_IN'[l][x] /\ (CallOut(l, b, n))' = SLIM_OUT'[l][x]
      /\ CallIn(l, b, n) = SLIM_IN[l][x] /\ CallOut(l, b, n) = SLIM_OUT[l][x]
      /\ Needed(l, b) = SLIM_OUT[l][LastIns(f, b)].b
      /\ Needed(l, b)' = SLIM_OUT'[l][LastIns(f, b)].b
      /\ (Known(l, b, n)' <=> e \in DOMAIN graph') /\ (Known(l, b, n) <=> e \in DOMAIN graph)
  <2>1. LastIns(f, b)' = LastIns(f, b)
    BY FunctionLater
  <2>. QED  BY <1>1, <2>1 DEF CallIn, CallOut, Needed, Known
<1>5. work.label = l => b # work.bb \/ n # work.i
  <2>1. SUFFICES ASSUME work.label = l, b = work.bb, n = work.i PROVE FALSE
    OBVIOUS
  <2>2. At = CodeAt(x)
    BY <2>1 DEF At, This
  <2>. QED  BY <1>2, <2>1, <2>2
<1>6. work.label = l => x # This
  BY <1>5 DEF This
<1>. HIDE DEF x, f
<1>7. (e \in DOMAIN graph' <=> e \in DOMAIN graph) /\ (e \in DOMAIN graph => graph'[e] = graph[e])
  <2>1. e # <<work.label, This>>
    BY <1>6
  <2>. QED  BY <2>1 DEF Put
<1>8. CASE processing = l /\ processing # work.label
  <2>1. AllPending(l)
    BY <1>8 DEF AllTold, WalkTold
  <2>2. Anew(backward_worklist, l, b) /\ Anew(forward_worklist, l, b)
    BY <1>2, <2>1 DEF AllPending, f
  <2>3. Anew(backward_worklist', l, b) /\ Anew(forward_worklist', l, b)
    BY <2>2, AnewLater
  <2>4. ~Known(l, b, n)'
    BY <1>4, <1>7, <1>8 DEF EdgesSettled
  <2>5. CASE direction = "forward"
    <3>1. CallOut(l, b, n).b = Came(f, b, n, Needed(l, b))
      BY <2>5 DEF Agrees, LiveAfter, f
    <3>2. \A y \in Instructions : SLIM_OUT'[l][y].b = SLIM_OUT[l][y].b
      BY <1>8, <2>5 DEF Written
    <3>3. (CallOut(l, b, n)').b = CallOut(l, b, n).b /\ Needed(l, b)' = Needed(l, b)
      BY <1>2, <1>4, <3>2
    <3>4. Came(FunctionOf(l), b, n, Needed(l, b))' = Came(f, b, n, Needed(l, b)')
      BY SiteLater DEF Came, f
    <3>. QED  BY <2>3, <2>4, <3>1, <3>3, <3>4, PendingSiteLater
  <2>6. CASE direction = "backward"
    BY <2>3, <2>4, <2>6, PendingSiteLater
  <2>. QED  BY <1>3, <2>5, <2>6
<1>9. CASE ~(processing = l /\ processing # work.label)
  <2>1. Needed(l, b)' = Needed(l, b) /\ Entering(l, b)' = Entering(l, b)
    BY <1>2, <1>9, WalkValues
  <2>2. SLIM_IN'[l][x] = SLIM_IN[l][x] /\ SLIM_OUT'[l][x] = SLIM_OUT[l][x]
    BY <1>2, <1>6, <1>9 DEF Written
  <2>3. CallIn(l, b, n)' = CallIn(l, b, n) /\ CallOut(l, b, n)' = CallOut(l, b, n)
    BY <1>4, <2>2
  <2>4. Known(l, b, n)' <=> Known(l, b, n)
    BY <1>4, <1>7
  <2>5. Known(l, b, n) =>
          /\ Callee(l, b, n)'.inflow = Callee(l, b, n).inflow
          /\ Callee(l, b, n)'.outflow = Callee(l, b, n).outflow
    <3>. SUFFICES ASSUME e \in DOMAIN graph
                  PROVE  /\ Callee(l, b, n)'.inflow = Callee(l, b, n).inflow
                         /\ Callee(l, b, n)'.outflow = Callee(l, b, n).outflow
      BY <1>4
    <3>1. graph[e] \in Labels
      BY DEF Typed, GraphOK, IsEdge
    <3>2. Callee(l, b, n) = contexts[graph[e]] /\ Callee(l, b, n)' = contexts'[graph'[e]]
      BY <1>1 DEF Callee, x, f
    <3>3. graph'[e] = graph[e]
      BY <1>7
    <3>4. \A k \in Labels : contexts'[k].inflow = contexts[k].inflow
      BY DEF Grows
    <3>. QED  BY <3>1, <3>2, <3>3, <3>4
  <2>6. /\ Queued(backward_worklist, l, b) => Queued(backward_worklist', l, b)
        /\ Queued(forward_worklist, l, b) => Queued(forward_worklist', l, b)
        /\ Anew(backward_worklist, l, b) => Anew(backward_worklist', l, b)
        /\ Anew(forward_worklist, l, b) => Anew(forward_worklist', l, b)
    BY AnewLater DEF Queued
  <2>7. ToCome(l, b, n) => ToCome(l, b, n)' /\ work'.done = work.done
    <3>1. InHand(l, b) => n # work.i
      BY <1>5 DEF InHand
    <3>2. StillToCome(n) /\ n # work.i => StillToCome(n)'
      BY <1>1, <1>2, <1>3 DEF StillToCome
    <3>. QED  BY <1>1, <3>1, <3>2 DEF ToCome
  <2>8. /\ InChanged(l, b) => InChanged(l, b)'
        /\ OutChanged(l, b) => OutChanged(l, b)'
    BY <1>1, <2>1 DEF InChanged, OutChanged
  <2>9. Globals' = Globals \/ (~Unmarked' /\ Anew(forward_worklist', l, b))
    BY <2>6
  <2>. QED  BY <2>1, <2>3, <2>4, <2>5, <2>6, <2>7, <2>8, <2>9, SiteKept
<1>. QED  BY <1>8, <1>9

(* The one call of the block is behind.                                      *)
LEMMA WalkPast ==
  ASSUME Typed, Grows, work # NoBlock, direction' = direction, At.op = "call",
         Walks(work', IF direction = "backward" THEN work.i - 1 ELSE work.i + 1),
         work.i \in 1 .. Len(Code(FunctionOf(work.label), work.bb)),
         NEW l \in Labels, NEW b \in ProperBlocks(l), NEW n \in CallsOf(FunctionOf(l), b)
  PROVE  /\ ~ToCome(l, b, n)'
         /\ l = work.label /\ b = work.bb => n = work.i
<1>1. direction \in {"forward", "backward"} /\ work.i \in Nat /\ n \in Nat
  BY StepFields, SiteLemma DEF Typed, RestOK
<1>2. ASSUME l = work.label, b = work.bb PROVE n = work.i
  <2>1. At = CodeAt(<<FunctionOf(l), b, work.i>>)
    BY <1>2 DEF At, This
  <2>2. \A m \in 1 .. Len(Code(FunctionOf(l), b)) : m # n => CodeAt(<<FunctionOf(l), b, m>>).op # "call"
    BY SiteLemma
  <2>3. work.i \in 1 .. Len(Code(FunctionOf(l), b))
    BY <1>2
  <2>. QED  BY <2>1, <2>2, <2>3
<1>3. ToCome(l, b, n)' => l = work.label /\ b = work.bb
  BY DEF ToCome, InHand, Walks
<1>4. n = work.i => ~StillToCome(n)'
  BY <1>1 DEF StillToCome, Walks
<1>. QED  BY <1>2, <1>3, <1>4 DEF ToCome

(* What handling an instruction does to the work.                            *)
LEMMA WorkFields ==
  ASSUME Typed, work # NoBlock, NEW w, NEW i, NEW v
  PROVE  /\ w = [work EXCEPT !.i = i, !.prev = v] =>
              Walks(w, i) /\ w.done = work.done /\ w.prev = v
         /\ w = [work EXCEPT !.i = i] =>
              Walks(w, i) /\ w.done = work.done /\ w.prev = work.prev
<1>1. work \in WorkRecord
  BY ThisLemma DEF WorkIn
<1>2. ASSUME w = [work EXCEPT !.i = i, !.prev = v]
      PROVE  Walks(w, i) /\ w.done = work.done /\ w.prev = v
  <2>1. Walks([work EXCEPT !.i = i, !.prev = v], i)
    BY WalksFields
  <2>2. Walks(w, i)
    BY <1>2, <2>1
  <2>3. w.done = work.done /\ w.prev = v
    BY <1>1, <1>2 DEF WorkRecord
  <2>. QED  BY <2>2, <2>3
<1>3. ASSUME w = [work EXCEPT !.i = i]
      PROVE  Walks(w, i) /\ w.done = work.done /\ w.prev = work.prev
  <2>1. Walks([work EXCEPT !.i = i], i)
    BY WalksFields
  <2>2. Walks(w, i)
    BY <1>3, <2>1
  <2>3. w.done = work.done /\ w.prev = work.prev
    BY <1>1, <1>3 DEF WorkRecord
  <2>. QED  BY <2>2, <2>3
<1>. QED  BY <1>2, <1>3

LEMMA AddressFlow ==
  ASSUME NEW i, i.op \in {"addr", "copy"}, NEW L, NEW P
  PROVE  computeInFromOut(i, L, P) = computeInFromOut(i, L, {})
<1>1. \A Q : computeInFromOut(i, L, Q) = DirectIn(i, L, Q)
  BY DEF computeInFromOut, Direct
<1>2. \A Q, M : insertRhsLin(i, M, Q) = insertRhsLin(i, M, {})
  BY DEF insertRhsLin
<1>. QED  BY <1>1, <1>2 DEF DirectIn

LEMMA BranchFlow ==
  ASSUME NEW i, i.op = "br", NEW L, NEW P
  PROVE  computeInFromOut(i, L, P) = L
BY DEF computeInFromOut, Direct

(* Every label stays and no call is handled.                                 *)
LEMMA PlainSites ==
  ASSUME Typed, Grows, AllTold, AllAgree, work # NoBlock, Written, direction' = direction,
         processing' = processing, Labels' = Labels, At.op # "call", graph' = graph,
         MarkedInTime,
         Walks(work', IF direction = "backward" THEN work.i - 1 ELSE work.i + 1),
         work'.done = work.done,
         ToSet(backward_worklist) \subseteq ToSet(backward_worklist'),
         ToSet(forward_worklist) \subseteq ToSet(forward_worklist'),
         \A k \in Labels : contexts'[k].outflow = contexts[k].outflow,
         SitesAgree =>
           \A l \in Labels : \A b \in ProperBlocks(l) : \A n \in CallsOf(FunctionOf(l), b) :
             Aims(l, b, n)'
  PROVE  AllAgree'
<1>1. EdgesSettled'
  BY DEF AllAgree, EdgesSettled, Walks
<1>2. ASSUME EveryBlockQueued' \/ Unmarked' PROVE SitesAgree'
  <2>1. SitesAgree /\ EdgesSettled
    BY <1>2, HypothesisLater DEF AllAgree, MarkedInTime
  <2>2. \A l \in Labels : \A b \in ProperBlocks(l) : \A n \in CallsOf(FunctionOf(l), b) :
          Agrees(l, b, n)'
    <3>. SUFFICES ASSUME NEW l \in Labels, NEW b \in ProperBlocks(l), NEW n \in CallsOf(FunctionOf(l), b)
                  PROVE  Agrees(l, b, n)'
      OBVIOUS
    <3>1. Agrees(l, b, n)
      BY <2>1 DEF SitesAgree
    <3>2. Globals' = Globals \/ (~Unmarked' /\ Anew(forward_worklist, l, b))
      <4>1. b \in BlocksOf(l)
        BY SiteLemma
      <4>. QED  BY <1>2, <4>1, HypothesisLater DEF MarkedInTime
    <3>. QED  BY <2>1, <3>1, <3>2, WalkSites
  <2>3. \A l \in Labels : /\ ProperBlocks(l)' = ProperBlocks(l)
                          /\ \A b : CallsOf(FunctionOf(l), b)' = CallsOf(FunctionOf(l), b)
    BY SiteLater
  <2>. QED  BY <2>1, <2>2, <2>3 DEF SitesAgree
<1>. QED  BY <1>1, <1>2 DEF AllAgree

LEMMA BackwardPlainAgrees ==
  ASSUME Typed, AllTold, AllLearnt, AllAgree, BackwardPlain
  PROVE  AllAgree'
<1>1. /\ work # NoBlock /\ direction = "backward" /\ direction' = direction
      /\ processing' = processing /\ processing \in Labels
      /\ backward_worklist' = backward_worklist /\ graph' = graph
      /\ SLIM_IN \in Value /\ SLIM_OUT \in Value
      /\ forward_worklist' \in {forward_worklist, workInsert(forward_worklist, Pair)}
      /\ work.i >= 1 /\ At.op # "call"
      /\ contexts' \in {contexts, Changed(work.label)}
  BY DEF BackwardPlain, Going, Typed, RestOK, ValuesOK
<1>2. Typed' /\ Grows /\ Labels' = Labels
  BY BackwardPlainTyped
<1>3. This \in Instructions /\ work.i \in 1 .. Len(Code(FunctionOf(work.label), work.bb))
  BY <1>1, ThisLemma DEF WorkIn
<1>4. \/ /\ InCallBlock /\ At.op \in Builtin
         /\ SLIM_IN' = SLIM_IN /\ SLIM_OUT' = SLIM_OUT
         /\ work' = [work EXCEPT !.i = work.i - 1]
      \/ \E new :
           /\ new = computeInFromOut(At, work.prev, SLIM_IN[processing][This].f)
           /\ ~(InCallBlock /\ At.op \in Builtin)
           /\ SLIM_OUT' = SetAt(SLIM_OUT, This, "b", work.prev)
           /\ SLIM_IN' = SetAt(SLIM_IN, This, "b", new)
           /\ work' = [work EXCEPT !.i = work.i - 1, !.prev = new]
  <2>1. CASE InCallBlock /\ At.op \in Builtin
    BY <2>1 DEF BackwardPlain, values
  <2>2. CASE ~(InCallBlock /\ At.op \in Builtin)
    BY <2>2 DEF BackwardPlain
  <2>. QED  BY <2>1, <2>2
<1>5. /\ Walks(work', work.i - 1) /\ work'.done = work.done
      /\ \/ /\ InCallBlock /\ At.op \in Builtin
            /\ SLIM_IN' = SLIM_IN /\ SLIM_OUT' = SLIM_OUT /\ work'.prev = work.prev
         \/ /\ ~(InCallBlock /\ At.op \in Builtin)
            /\ SLIM_OUT' = SetAt(SLIM_OUT, This, "b", work.prev)
            /\ SLIM_IN' = SetAt(SLIM_IN, This, "b",
                                computeInFromOut(At, work.prev, SLIM_IN[processing][This].f))
            /\ work'.prev = computeInFromOut(At, work.prev, SLIM_IN[processing][This].f)
  <2>1. CASE /\ InCallBlock /\ At.op \in Builtin
             /\ SLIM_IN' = SLIM_IN /\ SLIM_OUT' = SLIM_OUT
             /\ work' = [work EXCEPT !.i = work.i - 1]
    <3>1. Walks(work', work.i - 1) /\ work'.done = work.done /\ work'.prev = work.prev
      BY <1>1, <2>1, WorkFields
    <3>. QED  BY <2>1, <3>1
  <2>2. ASSUME NEW new,
               new = computeInFromOut(At, work.prev, SLIM_IN[processing][This].f),
               ~(InCallBlock /\ At.op \in Builtin),
               SLIM_OUT' = SetAt(SLIM_OUT, This, "b", work.prev),
               SLIM_IN' = SetAt(SLIM_IN, This, "b", new),
               work' = [work EXCEPT !.i = work.i - 1, !.prev = new]
        PROVE  /\ Walks(work', work.i - 1) /\ work'.done = work.done
               /\ ~(InCallBlock /\ At.op \in Builtin)
               /\ SLIM_OUT' = SetAt(SLIM_OUT, This, "b", work.prev)
               /\ SLIM_IN' = SetAt(SLIM_IN, This, "b",
                                   computeInFromOut(At, work.prev, SLIM_IN[processing][This].f))
               /\ work'.prev = computeInFromOut(At, work.prev, SLIM_IN[processing][This].f)
    <3>1. Walks(work', work.i - 1) /\ work'.done = work.done /\ work'.prev = new
      BY <1>1, <2>2, WorkFields
    <3>. QED  BY <2>2, <3>1
  <2>. QED  BY <1>4, <2>1, <2>2
<1>6. Written
  BY <1>1, <1>3, <1>5, SetAtWrites DEF Written
<1>7. ToSet(forward_worklist) \subseteq ToSet(forward_worklist')
  <2>1. Stack(forward_worklist) /\ Pair \in Pending
    BY <1>1, ThisLemma DEF Typed, WorklistsOK
  <2>2. ToSet(workInsert(forward_worklist, Pair)) = ToSet(forward_worklist) \cup {Pair}
    BY <2>1, StackInsert
  <2>. QED  BY <1>1, <2>2
<1>8. \A k \in Labels : contexts'[k].outflow = contexts[k].outflow
  BY <1>1 DEF Changed, Typed, ContextsOK, ContextRecord
<1>9. ASSUME SitesAgree,
             NEW l \in Labels, NEW b \in ProperBlocks(l), NEW n \in CallsOf(FunctionOf(l), b)
      PROVE  Aims(l, b, n)'
  <2> DEFINE f == FunctionOf(l)
  <2>1. SUFFICES ASSUME ToCome(l, b, n)'
                 PROVE  processing' = l /\ work'.prev = IF work'.i > n THEN Needed(l, b)'
                                                        ELSE Came(f, b, n, Needed(l, b)')
    <3>1. \A L : Came(f, b, n, L)' = Came(f, b, n, L)
      BY <1>2, SiteLater
    <3>2. Came(FunctionOf(l), b, n, Needed(l, b))' = Came(f, b, n, Needed(l, b)')
      BY <1>2, SiteLater DEF Came
    <3>. QED  BY <3>2 DEF Aims
  <2>2. /\ l = work.label /\ b = work.bb /\ work'.i = work.i - 1 /\ n <= work.i - 1
    BY <1>1, <1>5, <2>1 DEF ToCome, InHand, StillToCome, Walks
  <2>3. n \in Nat /\ work.i \in Nat /\ b \in BlocksOf(l)
    BY <1>1, StepFields, SiteLemma
  <2>4. ToCome(l, b, n)
    BY <1>1, <2>2, <2>3 DEF ToCome, InHand, StillToCome
  <2>5. processing = l /\ work.prev = Needed(l, b)
    <3>1. Aims(l, b, n)
      BY <1>9 DEF SitesAgree
    <3>. QED  BY <1>1, <2>2, <2>3, <2>4, <3>1 DEF Aims
  <2>6. Needed(l, b)' = Needed(l, b)
    BY <1>1, <1>2, <1>5, <1>6, <2>2, <2>3, <2>5, WalkValues
  <2>7. /\ At = CodeAt(<<f, b, work.i>>) /\ InCallBlock
        /\ work.i \in 1 .. Len(Code(f, b)) /\ work.i > n
    <3>1. HasCall(f, b)
      BY SiteLemma
    <3>2. f = FunctionOf(work.label)
      BY <2>2
    <3>3. At = CodeAt(<<f, b, work.i>>)
      BY <2>2, <3>2 DEF At, This
    <3>4. InCallBlock
      BY <2>2, <3>1, <3>2 DEF InCallBlock
    <3>. QED  BY <1>3, <2>2, <2>3, <3>2, <3>3, <3>4
  <2>8. \/ At.op \in Builtin \cup {"br"}
        \/ work.i = n + 1 /\ At.op \in {"addr", "copy"}
    BY <2>7, SiteLemma
  <2>9. work.i = n + 1 => CodeAt(<<f, b, n + 1>>) = At
    BY <2>7
  <2>10. CASE At.op \in Builtin \cup {"br"}
    <3>1. work'.prev = work.prev
      BY <1>5, <2>7, <2>10, BranchFlow
    <3>2. work'.i = n => Came(f, b, n, Needed(l, b)) = Needed(l, b)
      BY <2>2, <2>3, <2>9, <2>10 DEF Came, Builtin
    <3>. QED  BY <1>1, <2>2, <2>3, <2>5, <2>6, <3>1, <3>2
  <2>11. CASE work.i = n + 1 /\ At.op \in {"addr", "copy"}
    <3>1. At.op \notin Builtin
      BY <2>11 DEF Builtin
    <3>2. work'.prev = computeInFromOut(At, Needed(l, b), {})
      BY <1>5, <2>5, <2>11, <3>1, AddressFlow
    <3>3. Came(f, b, n, Needed(l, b)) = computeInFromOut(At, Needed(l, b), {})
      BY <2>9, <2>11 DEF Came
    <3>. QED  BY <1>1, <2>2, <2>3, <2>5, <2>6, <2>11, <3>2, <3>3
  <2>. QED  BY <2>8, <2>10, <2>11
<1>10. MarkedInTime
  BY MarkedLater
<1>. QED  BY <1>1, <1>2, <1>5, <1>6, <1>7, <1>8, <1>9, <1>10, PlainSites

LEMMA ForwardPlainAgrees ==
  ASSUME Typed, AllTold, AllAgree, ForwardPlain
  PROVE  AllAgree'
<1>1. /\ work # NoBlock /\ direction = "forward" /\ direction' = direction
      /\ processing' = processing /\ processing \in Labels
      /\ forward_worklist' = forward_worklist /\ graph' = graph /\ marked' = marked
      /\ SLIM_IN \in Value /\ SLIM_OUT \in Value
      /\ backward_worklist' \in {backward_worklist, workInsert(backward_worklist, Pair)}
      /\ work.i <= Len(Code(FunctionOf(work.label), work.bb)) /\ At.op # "call"
      /\ contexts' \in {contexts, Changed(work.label)}
  BY DEF ForwardPlain, Going, Typed, RestOK, ValuesOK, Instruction
<1>2. Typed' /\ Grows /\ Labels' = Labels
  BY ForwardPlainTyped
<1>3. This \in Instructions
  BY <1>1, ThisLemma DEF WorkIn
<1>4. Walks(work', work.i + 1) /\ work'.done = work.done
  <2>1. \/ work' = [work EXCEPT !.i = work.i + 1]
        \/ \E new : work' = [work EXCEPT !.i = work.i + 1, !.prev = new]
    BY DEF ForwardPlain
  <2>2. CASE work' = [work EXCEPT !.i = work.i + 1]
    BY <1>1, <2>2, WorkFields
  <2>3. ASSUME NEW new, work' = [work EXCEPT !.i = work.i + 1, !.prev = new]
        PROVE  Walks(work', work.i + 1) /\ work'.done = work.done
    BY <1>1, <2>3, WorkFields
  <2>. QED  BY <2>1, <2>2, <2>3
<1>5. Written
  <2>1. CASE InCallBlock /\ At.op \in Builtin
    <3>1. SLIM_IN' = SLIM_IN /\ SLIM_OUT' = SLIM_OUT
      BY <2>1 DEF ForwardPlain, values
    <3>. QED  BY <1>1, <3>1 DEF Written
  <2>2. CASE ~(InCallBlock /\ At.op \in Builtin)
    <3>1. PICK new : /\ SLIM_IN' = SetAt(SLIM_IN, This, "f", work.prev)
                     /\ SLIM_OUT' = SetAt(SLIM_OUT, This, "f", new)
      BY <2>2 DEF ForwardPlain
    <3>. QED  BY <1>1, <1>3, <3>1, SetAtWrites DEF Written
  <2>. QED  BY <2>1, <2>2
<1>6. ToSet(backward_worklist) \subseteq ToSet(backward_worklist')
  <2>1. Stack(backward_worklist) /\ Pair \in Pending
    BY <1>1, ThisLemma DEF Typed, WorklistsOK
  <2>2. ToSet(workInsert(backward_worklist, Pair)) = ToSet(backward_worklist) \cup {Pair}
    BY <2>1, StackInsert
  <2>. QED  BY <1>1, <2>2
<1>7. \A k \in Labels : contexts'[k].outflow = contexts[k].outflow
  BY <1>1 DEF Changed, Typed, ContextsOK, ContextRecord
<1>8. ASSUME SitesAgree,
             NEW l \in Labels, NEW b \in ProperBlocks(l), NEW n \in CallsOf(FunctionOf(l), b)
      PROVE  Aims(l, b, n)'
  <2>1. ToCome(l, b, n)' => ToCome(l, b, n)
    <3>1. work.i \in Nat /\ n \in Nat
      BY <1>1, StepFields, SiteLemma
    <3>. QED  BY <1>1, <1>4, <3>1 DEF ToCome, InHand, StillToCome, Walks
  <2>2. Aims(l, b, n)
    BY <1>8 DEF SitesAgree
  <2>. QED  BY <1>1, <2>1, <2>2 DEF Aims
<1>9. MarkedInTime
  BY <1>1 DEF MarkedInTime, Globals
<1>. QED  BY <1>1, <1>2, <1>4, <1>5, <1>6, <1>7, <1>8, <1>9, PlainSites

LEMMA OneCall ==
  ASSUME Typed, NEW l \in Labels, NEW b \in ProperBlocks(l), NEW n \in CallsOf(FunctionOf(l), b),
         NEW m \in 1 .. Len(Code(FunctionOf(l), b)), m # n
  PROVE  CodeAt(<<FunctionOf(l), b, m>>).op # "call"
BY SiteLemma

(* A call of such a block is the one its block is handled for.               *)
LEMMA CallSite ==
  ASSUME Typed, work # NoBlock, At.op = "call", SitesAgree,
         work.i \in 1 .. Len(Code(FunctionOf(work.label), work.bb)),
         NEW l \in Labels, NEW b \in ProperBlocks(l), NEW n \in CallsOf(FunctionOf(l), b),
         l = work.label, b = work.bb
  PROVE  /\ n = work.i /\ This = <<FunctionOf(l), b, n>> /\ This \in Instructions
         /\ b \in BlocksOf(l) /\ InHand(l, b) /\ ToCome(l, b, n) /\ Agrees(l, b, n)
         /\ processing = l /\ n \in Nat
         /\ direction = "backward" => work.prev = Came(FunctionOf(l), b, n, Needed(l, b))
<1>1. direction \in {"forward", "backward"} /\ work.i \in Nat /\ n \in Nat
  BY StepFields, SiteLemma DEF Typed, RestOK
<1>2. At = CodeAt(<<FunctionOf(l), b, work.i>>)
  BY DEF At, This
<1>4. n = work.i
  <2>1. ASSUME NEW m \in 1 .. Len(Code(FunctionOf(l), b)), m # n
        PROVE  CodeAt(<<FunctionOf(l), b, m>>).op # "call"
    BY <2>1, OneCall
  <2>2. work.i \in 1 .. Len(Code(FunctionOf(l), b))
    OBVIOUS
  <2>. QED  BY <1>2, <2>1, <2>2
<1>5. This = <<FunctionOf(l), b, n>>
  BY <1>4 DEF This
<1>6. InHand(l, b) /\ ToCome(l, b, n)
  BY <1>1, <1>4 DEF InHand, ToCome, StillToCome
<1>7. Agrees(l, b, n) /\ Aims(l, b, n)
  BY DEF SitesAgree
<1>8. ~(work.i > n)
  BY <1>1, <1>4
<1>9. <<FunctionOf(l), b, n>> \in Instructions /\ b \in BlocksOf(l)
  BY SiteLemma
<1>. QED  BY <1>1, <1>4, <1>5, <1>6, <1>7, <1>8, <1>9 DEF Aims

LEMMA CallSiteLater ==
  ASSUME Typed, Grows, AllTold, work # NoBlock, Written, direction' = direction,
         NEW i, Walks(work', i), NEW l \in Labels, l = work.label, processing = l,
         NEW b \in BlocksOf(l), b = work.bb, NEW n
  PROVE  /\ Needed(l, b)' = Needed(l, b) /\ Entering(l, b)' = Entering(l, b)
         /\ \A L : Came(FunctionOf(l), b, n, L)' = Came(FunctionOf(l), b, n, L)
         /\ FunctionOf(l)' = FunctionOf(l)
         /\ InChanged(l, b) => InChanged(l, b)'
         /\ OutChanged(l, b) => OutChanged(l, b)'
         /\ CallIn(l, b, n) = SLIM_IN[l][<<FunctionOf(l), b, n>>]
         /\ CallOut(l, b, n) = SLIM_OUT[l][<<FunctionOf(l), b, n>>]
         /\ CallIn(l, b, n)' = SLIM_IN'[l][<<FunctionOf(l), b, n>>]
         /\ CallOut(l, b, n)' = SLIM_OUT'[l][<<FunctionOf(l), b, n>>]
         /\ Known(l, b, n)' <=> <<l, <<FunctionOf(l), b, n>>>> \in DOMAIN graph'
         /\ Callee(l, b, n)' = contexts'[graph'[<<l, <<FunctionOf(l), b, n>>>>]]
<1>1. Needed(l, b)' = Needed(l, b) /\ Entering(l, b)' = Entering(l, b)
  BY WalkValues
<1>2. /\ FunctionOf(l)' = FunctionOf(l)
      /\ \A L : Came(FunctionOf(l), b, n, L)' = Came(FunctionOf(l), b, n, L)
  BY SiteLater
<1>3. InHand(l, b)' /\ work'.in = work.in /\ work'.out = work.out
  BY DEF InHand, Walks, NoBlock
<1>4. /\ InChanged(l, b) => InChanged(l, b)'
      /\ OutChanged(l, b) => OutChanged(l, b)'
  BY <1>1, <1>3 DEF InChanged, OutChanged
<1>. QED  BY <1>1, <1>2, <1>4 DEF CallIn, CallOut, Known, Callee

(* What a call that has been handled must have.                              *)
LEMMA HandledSite ==
  ASSUME direction' = direction, NEW l, NEW b, NEW n,
         \/ (CallOut(l, b, n)').b = Came(FunctionOf(l), b, n, Needed(l, b))'
         \/ /\ direction = "backward"
            /\ Queued(forward_worklist', l, b) \/ OutChanged(l, b)'
            /\ Anew(backward_worklist', l, b),
         \/ Callee(l, b, n)'.inflow = InflowAt(l, b, n)'
         \/ /\ Unmarked' => /\ direction = "forward"
                            /\ Queued(backward_worklist', l, b) \/ InChanged(l, b)'
            /\ Anew(forward_worklist', l, b),
         Unmarked' /\ n = 1 =>
                  \/ (Callee(l, b, n)').outflow.b \subseteq (CallIn(l, b, n)').b
                  \/ Queued(backward_worklist', l, b) \/ InChanged(l, b)',
         \/ restrictByLivness((Callee(l, b, n)').outflow.f, (CallOut(l, b, n)').b)
              \subseteq (CallOut(l, b, n)').f
         \/ Queued(forward_worklist', l, b) \/ OutChanged(l, b)',
         Known(l, b, n)'
  PROVE  Agrees(l, b, n)'
<1>2. /\ Queued(backward_worklist', l, b) <=> Queued(backward_worklist, l, b)'
      /\ Queued(forward_worklist', l, b) <=> Queued(forward_worklist, l, b)'
      /\ Anew(backward_worklist', l, b) <=> Anew(backward_worklist, l, b)'
      /\ Anew(forward_worklist', l, b) <=> Anew(forward_worklist, l, b)'
  BY DEF Queued, Anew, Element
<1>3. LiveAfter(l, b, n)'
  BY <1>2 DEF LiveAfter
<1>4. Entered(l, b, n)'
  BY <1>2 DEF Entered
<1>5. Needs(l, b, n)'
  BY <1>2 DEF Needs
<1>6. Returns(l, b, n)'
  BY <1>2 DEF Returns, restrictByLivness
<1>7. Unmet(l, b, n)'
  BY DEF Unmet
<1>. QED  BY <1>3, <1>4, <1>5, <1>6, <1>7 DEF Agrees

(* The context found for a call is the one it has while what flows in stays. *)
LEMMA SameCallee ==
  ASSUME Typed, ContextsUnique, EdgesSettled, work # NoBlock, At.op = "call",
         NEW l \in Labels, NEW x, x = This, l = work.label,
         NEW k, NEW inflow, k \in Matching(inflow),
         <<l, x>> \in DOMAIN graph
  PROVE  /\ work.done => k = graph[<<l, x>>]
         /\ ~work.done => /\ contexts[k].inflow = inflow
                          /\ contexts[graph[<<l, x>>]].inflow = inflow => k = graph[<<l, x>>]
<1>1. ASSUME work.done PROVE k = graph[<<l, x>>]
  BY <1>1 DEF Matching, getCalleeContext
<1>2. ASSUME ~work.done
      PROVE  /\ contexts[k].inflow = inflow
             /\ contexts[graph[<<l, x>>]].inflow = inflow => k = graph[<<l, x>>]
  <2>1. k # 0 /\ k \in check_if_context_already_exists(At.rhs, inflow)
    BY <1>2 DEF Matching
  <2>2. k \in Labels \ {0} /\ contexts[k].function = At.rhs /\ contexts[k].inflow = inflow
    BY <2>1 DEF check_if_context_already_exists, Labels
  <2>3. IsEdge(<<l, x>>, graph[<<l, x>>]) /\ graph[<<l, x>>] # 0
    BY DEF Typed, GraphOK, EdgesSettled
  <2>4. /\ graph[<<l, x>>] \in Labels \ {0}
        /\ contexts[graph[<<l, x>>]].function = At.rhs
    BY <2>3 DEF IsEdge, FunctionOf, At
  <2>5. contexts[graph[<<l, x>>]].inflow = inflow => k = graph[<<l, x>>]
    BY <2>2, <2>4 DEF ContextsUnique
  <2>. QED  BY <2>2, <2>5
<1>. QED  BY <1>1, <1>2

LEMMA MatchingInflow ==
  ASSUME NEW inflow, NEW k \in Matching(inflow), ~work.done
  PROVE  contexts[k].inflow = inflow /\ k # 0
<1>1. k # 0 /\ k \in check_if_context_already_exists(At.rhs, inflow)
  BY DEF Matching
<1>. QED  BY <1>1 DEF check_if_context_already_exists

LEMMA BackwardCallSite ==
  ASSUME Typed, CallsRecorded, ContextsUnique, AllTold, EdgesSettled, SitesAgree,
         Globals' = Globals, BackwardCall,
         NEW l \in Labels, NEW b \in ProperBlocks(l), NEW n \in CallsOf(FunctionOf(l), b),
         l = work.label, b = work.bb
  PROVE  Agrees(l, b, n)'
<1> DEFINE f == FunctionOf(l)
           x == <<f, b, n>>
           e == <<l, x>>
<1>1. /\ work # NoBlock /\ direction = "backward" /\ direction' = direction
      /\ backward_worklist' = backward_worklist /\ forward_worklist' = forward_worklist
      /\ SLIM_IN \in Value /\ SLIM_OUT \in Value /\ processing \in Labels
      /\ work.i >= 1 /\ At.op = "call" /\ contexts' = contexts
  BY DEF BackwardCall, Going, Typed, RestOK, ValuesOK, worklists
<1>2. Typed' /\ Grows /\ Labels' = Labels
  BY BackwardCallTyped
<1>3. This \in Instructions /\ work.i \in 1 .. Len(Code(FunctionOf(work.label), work.bb))
  BY <1>1, ThisLemma DEF WorkIn
<1>4. PICK k \in Matching(BackwardInflow) :
        LET new == SLIM_IN[processing][This].b
                     \cup contexts[k].outflow.b
                     \cup CallerLocal(At, work.prev, Globals, Returned)
        IN  /\ graph' = addEdge(work.label, This, k)
            /\ SLIM_OUT' = BackwardOut
            /\ SLIM_IN' = SetAt(SLIM_IN, This, "b", new)
            /\ work' = [work EXCEPT !.i = work.i - 1, !.prev = new]
  BY <1>1, Zenon DEF BackwardCall
<1>5. PICK new : /\ new = SLIM_IN[processing][This].b \cup contexts[k].outflow.b
                            \cup CallerLocal(At, work.prev, Globals, Returned)
                 /\ graph' = Put(graph, <<work.label, This>>, k)
                 /\ SLIM_OUT' = BackwardOut
                 /\ SLIM_IN' = SetAt(SLIM_IN, This, "b", new)
                 /\ work' = [work EXCEPT !.i = work.i - 1, !.prev = new]
  BY <1>4 DEF addEdge
<1>6. BackwardOut \in {SLIM_OUT, SetAt(SLIM_OUT, This, "b", work.prev)}
  BY DEF BackwardOut
<1>7. Written
  BY <1>1, <1>3, <1>5, <1>6, SetAtWrites DEF Written
<1>8. Walks(work', work.i - 1) /\ work'.done = work.done
  BY <1>1, <1>5, WorkFields
<1>9. /\ n = work.i /\ This = x /\ b \in BlocksOf(l) /\ Agrees(l, b, n)
      /\ processing = l /\ work.prev = Came(f, b, n, Needed(l, b))
  BY <1>1, <1>3, CallSite
<1>10. /\ Needed(l, b)' = Needed(l, b)
       /\ \A L : Came(f, b, n, L)' = Came(f, b, n, L)
       /\ FunctionOf(l)' = FunctionOf(l)
       /\ OutChanged(l, b) => OutChanged(l, b)'
       /\ CallIn(l, b, n) = SLIM_IN[l][x] /\ CallOut(l, b, n) = SLIM_OUT[l][x]
       /\ CallIn(l, b, n)' = SLIM_IN'[l][x] /\ CallOut(l, b, n)' = SLIM_OUT'[l][x]
       /\ Known(l, b, n)' <=> e \in DOMAIN graph'
       /\ Callee(l, b, n)' = contexts'[graph'[e]]
  BY <1>1, <1>2, <1>7, <1>8, <1>9, CallSiteLater
<1>11. /\ SLIM_IN'[l][x].b = new /\ SLIM_IN'[l][x].f = SLIM_IN[l][x].f
       /\ SLIM_OUT'[l][x].f = SLIM_OUT[l][x].f
       /\ SLIM_OUT'[l][x].b = IF work.done THEN SLIM_OUT[l][x].b ELSE work.prev
  <2>1. /\ SLIM_IN'[processing][This].b = new
        /\ SLIM_IN'[processing][This].f = SLIM_IN[processing][This].f
    BY <1>1, <1>3, <1>5, SetAtWrites
  <2>2. /\ SLIM_OUT'[processing][This].f = SLIM_OUT[processing][This].f
        /\ SLIM_OUT'[processing][This].b =
             IF work.done THEN SLIM_OUT[processing][This].b ELSE work.prev
    <3>1. CASE work.done
      BY <1>5, <3>1 DEF BackwardOut
    <3>2. CASE ~work.done
      <4>1. SLIM_OUT' = SetAt(SLIM_OUT, This, "b", work.prev)
        BY <1>5, <3>2 DEF BackwardOut
      <4>. QED  BY <1>1, <1>3, <3>2, <4>1, SetAtWrites
    <3>. QED  BY <3>1, <3>2
  <2>. QED  BY <1>9, <2>1, <2>2
<1>12. Known(l, b, n)' /\ Callee(l, b, n)' = contexts[k]
  BY <1>1, <1>5, <1>9, <1>10 DEF Put
<1>13. contexts[k].outflow.b \subseteq SLIM_IN'[l][x].b
  BY <1>5, <1>11
<1>14. Came(FunctionOf(l), b, n, Needed(l, b))' = Came(f, b, n, Needed(l, b))
  BY <1>2, <1>10, SiteLater DEF Came
<1>15. Came(f, b, n, Needed(l, b)) = work.prev
  BY <1>9
<1>16. BackwardInflow = CallInflow(CodeAt(x), SLIM_IN[l][x].f, work.prev, Globals,
                                   ReturnOperand(program[CodeAt(x).rhs]))
  BY <1>9 DEF BackwardInflow, Returned, At
<1>17. InflowAt(l, b, n)' = CallInflow(CodeAt(x), SLIM_IN'[l][x].f, SLIM_OUT'[l][x].b, Globals,
                                       ReturnOperand(program[CodeAt(x).rhs]))
  <2>1. CodeAt(<<FunctionOf(l), b, n>>)' = CodeAt(x) /\ program' = program
    BY <1>2, <1>10, SiteLater
  <2>. QED  BY <1>10, <2>1 DEF InflowAt
<1>18. e \in DOMAIN graph =>
         /\ Known(l, b, n) /\ Callee(l, b, n) = contexts[graph[e]]
         /\ work.done => k = graph[e]
         /\ ~work.done /\ contexts[graph[e]].inflow = BackwardInflow => k = graph[e]
  BY <1>1, <1>4, <1>9, SameCallee DEF Known, Callee
<1>19. work.done => e \in DOMAIN graph
  <2>1. work.done => Known(l, b, n)
    BY <1>1, <1>9 DEF CallsRecorded, WalkRecorded
  <2>. QED  BY <2>1 DEF Known
<1>20. InflowAt(l, b, n) = CallInflow(CodeAt(x), SLIM_IN[l][x].f, SLIM_OUT[l][x].b, Globals,
                                       ReturnOperand(program[CodeAt(x).rhs]))
  BY <1>10 DEF InflowAt
<1>21. /\ LiveAfter(l, b, n) /\ Entered(l, b, n) /\ Returns(l, b, n) /\ Unmet(l, b, n)
  BY <1>9 DEF Agrees
<1>22. \/ SLIM_OUT[l][x].b = work.prev
       \/ /\ Queued(forward_worklist, l, b) \/ OutChanged(l, b)
          /\ Anew(backward_worklist, l, b) \/ ~work.done
  BY <1>9, <1>10, <1>21 DEF LiveAfter
<1>23. e \in DOMAIN graph =>
         \/ contexts[graph[e]].inflow = InflowAt(l, b, n)
         \/ ~Unmarked /\ Anew(forward_worklist, l, b) /\ Queued(forward_worklist, l, b)
  <2>1. Anew(forward_worklist, l, b) => Queued(forward_worklist, l, b)
    BY DEF Anew, Queued, Element
  <2>. QED  BY <1>1, <1>18, <1>21, <2>1 DEF Entered
<1>24. e \in DOMAIN graph =>
         \/ restrictByLivness(contexts[graph[e]].outflow.f, SLIM_OUT[l][x].b) \subseteq SLIM_OUT[l][x].f
         \/ Queued(forward_worklist, l, b) \/ OutChanged(l, b)
  BY <1>1, <1>10, <1>18, <1>21 DEF Returns
<1>25. e \notin DOMAIN graph => Queued(forward_worklist, l, b)
  BY <1>1, <1>21 DEF Unmet, Known
<1>26. \/ contexts[k].inflow = InflowAt(l, b, n)'
       \/ ~Unmarked /\ Anew(forward_worklist, l, b)
  <2>1. CASE work.done
    BY <1>11, <1>17, <1>18, <1>19, <1>20, <1>23, <2>1
  <2>2. CASE ~work.done
    BY <1>4, <1>11, <1>16, <1>17, <2>2, MatchingInflow
  <2>. QED  BY <2>1, <2>2
<1>. HIDE DEF f, x, e
<1>27. \/ restrictByLivness(contexts[k].outflow.f, SLIM_OUT'[l][x].b) \subseteq SLIM_OUT'[l][x].f
       \/ Queued(forward_worklist, l, b) \/ OutChanged(l, b)
  <2>1. CASE e \in DOMAIN graph /\ SLIM_OUT[l][x].b = work.prev
    <3>1. k = graph[e] \/ Queued(forward_worklist, l, b)
      BY <1>16, <1>18, <1>20, <1>23, <2>1
    <3>2. SLIM_OUT'[l][x].b = SLIM_OUT[l][x].b
      BY <1>11, <2>1
    <3>. QED  BY <1>11, <1>24, <2>1, <3>1, <3>2
  <2>2. CASE e \in DOMAIN graph /\ SLIM_OUT[l][x].b # work.prev
    BY <1>22, <2>2
  <2>3. CASE e \notin DOMAIN graph
    BY <1>25, <2>3
  <2>. QED  BY <2>1, <2>2, <2>3
<1>28. \/ (CallOut(l, b, n)').b = Came(FunctionOf(l), b, n, Needed(l, b))'
       \/ /\ Queued(forward_worklist, l, b) \/ OutChanged(l, b)
          /\ Anew(backward_worklist, l, b)
  BY <1>10, <1>11, <1>14, <1>15, <1>22
<1>29. Unmarked' <=> Unmarked
  BY DEF Unmarked
<1>. QED
  BY <1>1, <1>10, <1>12, <1>13, <1>26, <1>27, <1>28, <1>29, HandledSite

LEMMA ForwardCallSite ==
  ASSUME Typed, CallsRecorded, ContextsUnique, AllTold, EdgesSettled, SitesAgree,
         Globals' = Globals, ForwardCall,
         NEW l \in Labels, NEW b \in ProperBlocks(l), NEW n \in CallsOf(FunctionOf(l), b),
         l = work.label, b = work.bb
  PROVE  Agrees(l, b, n)'
<1> DEFINE f == FunctionOf(l)
           x == <<f, b, n>>
           e == <<l, x>>
<1>1. /\ work # NoBlock /\ direction = "forward" /\ direction' = direction
      /\ backward_worklist' = backward_worklist /\ forward_worklist' = forward_worklist
      /\ SLIM_IN \in Value /\ SLIM_OUT \in Value /\ processing \in Labels
      /\ work.i <= Len(Code(FunctionOf(work.label), work.bb))
      /\ At.op = "call" /\ contexts' = contexts
  BY DEF ForwardCall, Going, Typed, RestOK, ValuesOK, worklists, Instruction
<1>2. Typed' /\ Grows /\ Labels' = Labels
  BY ForwardCallTyped
<1>3. This \in Instructions /\ work.i \in 1 .. Len(Code(FunctionOf(work.label), work.bb))
  BY <1>1, ThisLemma DEF WorkIn
<1>4. PICK k \in Matching(ForwardInflow) :
        LET O   == SLIM_OUT[processing][This]
            new == performMeetForward(
                     O.f, performMeetForward(contexts[k].outflow.f,
                                             PurelyLocalForward(ForwardPrev, Globals), O.b), O.b)
        IN  /\ graph' = addEdge(work.label, This, k)
            /\ SLIM_IN' = ForwardIn
            /\ SLIM_OUT' = SetAt(SLIM_OUT, This, "f", new)
            /\ work' = [work EXCEPT !.i = work.i + 1, !.prev = new]
  BY <1>1, Zenon DEF ForwardCall
<1>5. PICK new : /\ new = performMeetForward(
                            SLIM_OUT[processing][This].f,
                            performMeetForward(contexts[k].outflow.f,
                                               PurelyLocalForward(ForwardPrev, Globals),
                                               SLIM_OUT[processing][This].b),
                            SLIM_OUT[processing][This].b)
                 /\ graph' = Put(graph, <<work.label, This>>, k)
                 /\ SLIM_IN' = ForwardIn
                 /\ SLIM_OUT' = SetAt(SLIM_OUT, This, "f", new)
                 /\ work' = [work EXCEPT !.i = work.i + 1, !.prev = new]
  BY <1>4 DEF addEdge
<1>6. /\ ForwardIn \in {SLIM_IN, SetAt(SLIM_IN, This, "f", ForwardPrev)}
      /\ ForwardPrev \in {work.prev, SLIM_IN[processing][This].f \cup work.prev}
  BY DEF ForwardIn, ForwardPrev
<1>7. Written
  <2>1. PICK v : SLIM_IN' = ForwardIn /\ SLIM_OUT' = SetAt(SLIM_OUT, This, "f", v)
    BY <1>5
  <2>. QED  BY <1>1, <1>3, <1>6, <2>1, SetAtWrites DEF Written
<1>8. Walks(work', work.i + 1) /\ work'.done = work.done
  BY <1>1, <1>5, WorkFields
<1>9. /\ n = work.i /\ This = x /\ b \in BlocksOf(l) /\ Agrees(l, b, n) /\ processing = l
  BY <1>1, <1>3, CallSite
<1>10. /\ Needed(l, b)' = Needed(l, b)
       /\ \A L : Came(f, b, n, L)' = Came(f, b, n, L)
       /\ FunctionOf(l)' = FunctionOf(l)
       /\ InChanged(l, b) => InChanged(l, b)'
       /\ CallIn(l, b, n) = SLIM_IN[l][x] /\ CallOut(l, b, n) = SLIM_OUT[l][x]
       /\ CallIn(l, b, n)' = SLIM_IN'[l][x] /\ CallOut(l, b, n)' = SLIM_OUT'[l][x]
       /\ Known(l, b, n)' <=> e \in DOMAIN graph'
       /\ Callee(l, b, n)' = contexts'[graph'[e]]
  BY <1>1, <1>2, <1>7, <1>8, <1>9, CallSiteLater
<1>11. /\ SLIM_OUT'[l][x].f = new /\ SLIM_OUT'[l][x].b = SLIM_OUT[l][x].b
       /\ SLIM_IN'[l][x].b = SLIM_IN[l][x].b
       /\ SLIM_IN'[l][x].f = IF work.done THEN SLIM_IN[l][x].f ELSE ForwardPrev
  <2>1. /\ SLIM_OUT'[processing][This].f = new
        /\ SLIM_OUT'[processing][This].b = SLIM_OUT[processing][This].b
    BY <1>1, <1>3, <1>5, SetAtWrites
  <2>2. /\ SLIM_IN'[processing][This].b = SLIM_IN[processing][This].b
        /\ SLIM_IN'[processing][This].f =
             IF work.done THEN SLIM_IN[processing][This].f ELSE ForwardPrev
    <3>1. CASE work.done
      BY <1>5, <3>1 DEF ForwardIn
    <3>2. CASE ~work.done
      <4>1. SLIM_IN' = SetAt(SLIM_IN, This, "f", ForwardPrev)
        BY <1>5, <3>2 DEF ForwardIn
      <4>. QED  BY <1>1, <1>3, <3>2, <4>1, SetAtWrites
    <3>. QED  BY <3>1, <3>2
  <2>. QED  BY <1>9, <2>1, <2>2
<1>12. Known(l, b, n)' /\ Callee(l, b, n)' = contexts[k]
  BY <1>1, <1>5, <1>9, <1>10 DEF Put
<1>13. restrictByLivness(contexts[k].outflow.f, SLIM_OUT'[l][x].b) \subseteq SLIM_OUT'[l][x].f
  <2>1. new = performMeetForward(
                SLIM_OUT[l][x].f,
                performMeetForward(contexts[k].outflow.f,
                                   PurelyLocalForward(ForwardPrev, Globals), SLIM_OUT[l][x].b),
                SLIM_OUT[l][x].b)
    BY <1>5, <1>9
  <2>2. \A P, Q, R, L : restrictByLivness(Q, L) \subseteq
                          performMeetForward(P, performMeetForward(Q, R, L), L)
    BY DEF performMeetForward, restrictByLivness
  <2>. QED  BY <1>11, <2>1, <2>2
<1>14. Came(FunctionOf(l), b, n, Needed(l, b))' = Came(f, b, n, Needed(l, b))
  BY <1>2, <1>10, SiteLater DEF Came
<1>16. ForwardInflow = CallInflow(CodeAt(x), ForwardPrev, SLIM_OUT[l][x].b, Globals,
                                  ReturnOperand(program[CodeAt(x).rhs]))
  BY <1>9 DEF ForwardInflow, Returned, At
<1>17. InflowAt(l, b, n)' = CallInflow(CodeAt(x), SLIM_IN'[l][x].f, SLIM_OUT'[l][x].b, Globals,
                                       ReturnOperand(program[CodeAt(x).rhs]))
  <2>1. CodeAt(<<FunctionOf(l), b, n>>)' = CodeAt(x) /\ program' = program
    BY <1>2, <1>10, SiteLater
  <2>. QED  BY <1>10, <2>1 DEF InflowAt
<1>18. e \in DOMAIN graph =>
         /\ Known(l, b, n) /\ Callee(l, b, n) = contexts[graph[e]]
         /\ work.done => k = graph[e]
         /\ ~work.done /\ contexts[graph[e]].inflow = ForwardInflow => k = graph[e]
  BY <1>1, <1>4, <1>9, SameCallee DEF Known, Callee
<1>19. work.done => e \in DOMAIN graph
  <2>1. work.done => Known(l, b, n)
    BY <1>1, <1>9 DEF CallsRecorded, WalkRecorded
  <2>. QED  BY <2>1 DEF Known
<1>20. InflowAt(l, b, n) = CallInflow(CodeAt(x), SLIM_IN[l][x].f, SLIM_OUT[l][x].b, Globals,
                                       ReturnOperand(program[CodeAt(x).rhs]))
  BY <1>10 DEF InflowAt
<1>21. /\ LiveAfter(l, b, n) /\ Entered(l, b, n) /\ Needs(l, b, n) /\ Unmet(l, b, n)
  BY <1>9 DEF Agrees
<1>22. CallOut(l, b, n).b = Came(f, b, n, Needed(l, b))
  BY <1>1, <1>21 DEF LiveAfter
<1>23. e \in DOMAIN graph =>
         \/ contexts[graph[e]].inflow = InflowAt(l, b, n)
         \/ /\ Unmarked => Queued(backward_worklist, l, b) \/ InChanged(l, b)
            /\ Anew(forward_worklist, l, b) \/ ~work.done
  BY <1>1, <1>18, <1>21 DEF Entered
<1>24. Unmarked /\ e \in DOMAIN graph /\ n = 1 =>
         \/ contexts[graph[e]].outflow.b \subseteq SLIM_IN[l][x].b
         \/ Queued(backward_worklist, l, b) \/ InChanged(l, b)
  BY <1>1, <1>10, <1>18, <1>21 DEF Needs
<1>25. e \notin DOMAIN graph => Queued(backward_worklist, l, b)
  BY <1>1, <1>21 DEF Unmet, Known
(* The pairs before the call are those at the start of the block.            *)
<1>26. n = 1 /\ ~work.done => ForwardPrev = SLIM_IN[l][x].f
  <2>1. n = 1 => work.prev = Entering(work.label, work.bb)
    BY <1>1, <1>9 DEF AllTold, WalkTold
  <2>2. n = 1 => Entering(work.label, work.bb) = SLIM_IN[l][x].f
    BY <1>9 DEF Entering, FirstIns
  <2>3. ~work.done => ForwardPrev = SLIM_IN[l][x].f \cup work.prev
    BY <1>9 DEF ForwardPrev
  <2>. QED  BY <2>1, <2>2, <2>3
<1>. HIDE DEF f, x, e
<1>27. \/ contexts[k].inflow = InflowAt(l, b, n)'
       \/ /\ Unmarked => Queued(backward_worklist, l, b) \/ InChanged(l, b)
          /\ Anew(forward_worklist, l, b)
  <2>1. CASE work.done
    BY <1>11, <1>17, <1>18, <1>19, <1>20, <1>23, <2>1
  <2>2. CASE ~work.done
    BY <1>4, <1>11, <1>16, <1>17, <2>2, MatchingInflow
  <2>. QED  BY <2>1, <2>2
<1>28. Unmarked /\ n = 1 =>
         \/ contexts[k].outflow.b \subseteq SLIM_IN'[l][x].b
         \/ Queued(backward_worklist, l, b) \/ InChanged(l, b)
  <2>1. CASE e \in DOMAIN graph /\ contexts[graph[e]].inflow = InflowAt(l, b, n)
    <3>1. n = 1 => k = graph[e]
      BY <1>16, <1>18, <1>20, <1>26, <2>1
    <3>. QED  BY <1>11, <1>24, <2>1, <3>1
  <2>2. CASE e \in DOMAIN graph /\ contexts[graph[e]].inflow # InflowAt(l, b, n)
    BY <1>23, <2>2
  <2>3. CASE e \notin DOMAIN graph
    BY <1>25, <2>3
  <2>. QED  BY <2>1, <2>2, <2>3
<1>29. Unmarked' <=> Unmarked
  BY DEF Unmarked
<1>. QED
  BY <1>1, <1>10, <1>11, <1>12, <1>13, <1>14, <1>22, <1>27, <1>28, <1>29, HandledSite

LEMMA SettledCall ==
  ASSUME Typed, EdgesSettled, NEW i, Walks(work', i), work # NoBlock, processing' = processing,
         NEW inflow, NEW k \in Matching(inflow), graph' = Put(graph, <<work.label, This>>, k)
  PROVE  EdgesSettled'
<1> DEFINE e == <<work.label, This>>
<1>1. k # 0
  <2>1. CASE work.done
    <3>1. e \in DOMAIN graph /\ k = graph[e]
      BY <2>1 DEF Matching, getCalleeContext
    <3>. QED  BY <3>1 DEF EdgesSettled
  <2>2. CASE ~work.done
    BY <2>2, MatchingInflow
  <2>. QED  BY <2>1, <2>2
<1>2. /\ DOMAIN graph' = DOMAIN graph \cup {e}
      /\ \A d \in DOMAIN graph' : graph'[d] = IF d = e THEN k ELSE graph[d]
  BY DEF Put
<1>3. e[1] = work.label
  OBVIOUS
<1>. HIDE DEF e
<1>4. work'.label = work.label
  BY DEF Walks
<1>5. work # NoBlock /\ processing # work.label => \A d \in DOMAIN graph : d[1] # processing
  BY DEF EdgesSettled
<1>6. work' # NoBlock /\ processing' # work'.label => \A d \in DOMAIN graph' : d[1] # processing'
  BY <1>2, <1>3, <1>4, <1>5
<1>7. \A d \in DOMAIN graph' : graph'[d] # 0
  BY <1>1, <1>2 DEF EdgesSettled
<1>. QED  BY <1>6, <1>7 DEF EdgesSettled, NoBlock

(* A call of the block in hand is handled, in the context it has or another. *)
LEMMA CallSites ==
  ASSUME Typed, Grows, AllTold, EdgesSettled, SitesAgree, Globals' = Globals,
         work # NoBlock, At.op = "call", Written,
         direction' = direction, Labels \subseteq Labels',
         Walks(work', IF direction = "backward" THEN work.i - 1 ELSE work.i + 1),
         work'.done = work.done,
         work.i \in 1 .. Len(Code(FunctionOf(work.label), work.bb)),
         ToSet(backward_worklist) \subseteq ToSet(backward_worklist'),
         ToSet(forward_worklist) \subseteq ToSet(forward_worklist'),
         \A k \in Labels : contexts'[k].outflow = contexts[k].outflow,
         NEW to, graph' = Put(graph, <<work.label, This>>, to),
         \A l \in Labels : \A b \in ProperBlocks(l) : \A n \in CallsOf(FunctionOf(l), b) :
           l = work.label /\ b = work.bb => Agrees(l, b, n)'
  PROVE  \A l \in Labels : \A b \in ProperBlocks(l)' : \A n \in CallsOf(FunctionOf(l), b)' :
           Agrees(l, b, n)' /\ Aims(l, b, n)'
<1>1. ASSUME NEW l \in Labels, NEW b \in ProperBlocks(l), NEW n \in CallsOf(FunctionOf(l), b)
      PROVE  Agrees(l, b, n)'
  <2>1. Agrees(l, b, n)
    BY DEF SitesAgree
  <2>2. CASE l = work.label /\ b = work.bb
    BY <2>2
  <2>3. CASE ~(l = work.label /\ b = work.bb)
    BY <2>1, <2>3, WalkSites
  <2>. QED  BY <2>2, <2>3
<1>2. ASSUME NEW l \in Labels, NEW b \in ProperBlocks(l), NEW n \in CallsOf(FunctionOf(l), b)
      PROVE  Aims(l, b, n)'
  <2>1. ~ToCome(l, b, n)'
    BY WalkPast
  <2>. QED  BY <2>1 DEF Aims
<1>3. \A l \in Labels : /\ ProperBlocks(l)' = ProperBlocks(l)
                        /\ \A b : CallsOf(FunctionOf(l), b)' = CallsOf(FunctionOf(l), b)
  BY SiteLater
<1>. QED  BY <1>1, <1>2, <1>3

LEMMA BackwardCallAgrees ==
  ASSUME Typed, CallsRecorded, ContextsUnique, AllTold, AllAgree, BackwardCall
  PROVE  AllAgree'
<1>1. /\ work # NoBlock /\ direction = "backward" /\ direction' = direction
      /\ backward_worklist' = backward_worklist /\ forward_worklist' = forward_worklist
      /\ SLIM_IN \in Value /\ SLIM_OUT \in Value /\ processing \in Labels
      /\ processing' = processing /\ marked' = marked
      /\ work.i >= 1 /\ At.op = "call" /\ contexts' = contexts
  BY DEF BackwardCall, Going, Typed, RestOK, ValuesOK, worklists
<1>2. Typed' /\ Grows /\ Labels' = Labels
  BY BackwardCallTyped
<1>3. This \in Instructions /\ work.i \in 1 .. Len(Code(FunctionOf(work.label), work.bb))
  BY <1>1, ThisLemma DEF WorkIn
<1>4. PICK k \in Matching(BackwardInflow) :
        /\ graph' = Put(graph, <<work.label, This>>, k)
        /\ SLIM_OUT' = BackwardOut
        /\ \E new : /\ SLIM_IN' = SetAt(SLIM_IN, This, "b", new)
                    /\ work' = [work EXCEPT !.i = work.i - 1, !.prev = new]
  BY Zenon DEF BackwardCall, addEdge
<1>5. PICK new : /\ SLIM_IN' = SetAt(SLIM_IN, This, "b", new)
                 /\ work' = [work EXCEPT !.i = work.i - 1, !.prev = new]
  BY <1>4
<1>6. BackwardOut \in {SLIM_OUT, SetAt(SLIM_OUT, This, "b", work.prev)}
  BY DEF BackwardOut
<1>7. Written
  BY <1>1, <1>3, <1>4, <1>5, <1>6, SetAtWrites DEF Written
<1>8. Walks(work', work.i - 1) /\ work'.done = work.done
  BY <1>1, <1>5, WorkFields
<1>9. EdgesSettled'
  BY <1>1, <1>4, <1>8, SettledCall DEF AllAgree
<1>10. ASSUME EveryBlockQueued' \/ Unmarked' PROVE SitesAgree'
  <2>1. SitesAgree /\ EdgesSettled /\ Globals' = Globals
    BY <1>1, <1>2, <1>10, HypothesisLater DEF AllAgree, Globals
  <2>2. \A l \in Labels : \A b \in ProperBlocks(l) : \A n \in CallsOf(FunctionOf(l), b) :
          l = work.label /\ b = work.bb => Agrees(l, b, n)'
    BY <2>1, BackwardCallSite
  <2>3. \A l \in Labels : \A b \in ProperBlocks(l)' : \A n \in CallsOf(FunctionOf(l), b)' :
          Agrees(l, b, n)' /\ Aims(l, b, n)'
    BY <1>1, <1>2, <1>3, <1>4, <1>7, <1>8, <2>1, <2>2, CallSites
  <2>. QED  BY <1>2, <2>3 DEF SitesAgree
<1>. QED  BY <1>9, <1>10 DEF AllAgree

LEMMA ForwardCallAgrees ==
  ASSUME Typed, CallsRecorded, ContextsUnique, AllTold, AllAgree, ForwardCall
  PROVE  AllAgree'
<1>1. /\ work # NoBlock /\ direction = "forward" /\ direction' = direction
      /\ backward_worklist' = backward_worklist /\ forward_worklist' = forward_worklist
      /\ SLIM_IN \in Value /\ SLIM_OUT \in Value /\ processing \in Labels
      /\ processing' = processing /\ marked' = marked
      /\ work.i <= Len(Code(FunctionOf(work.label), work.bb))
      /\ At.op = "call" /\ contexts' = contexts
  BY DEF ForwardCall, Going, Typed, RestOK, ValuesOK, worklists, Instruction
<1>2. Typed' /\ Grows /\ Labels' = Labels
  BY ForwardCallTyped
<1>3. This \in Instructions /\ work.i \in 1 .. Len(Code(FunctionOf(work.label), work.bb))
  BY <1>1, ThisLemma DEF WorkIn
<1>4. PICK k \in Matching(ForwardInflow) :
        /\ graph' = Put(graph, <<work.label, This>>, k)
        /\ SLIM_IN' = ForwardIn
        /\ \E new : /\ SLIM_OUT' = SetAt(SLIM_OUT, This, "f", new)
                    /\ work' = [work EXCEPT !.i = work.i + 1, !.prev = new]
  BY Zenon DEF ForwardCall, addEdge
<1>5. PICK new : /\ SLIM_OUT' = SetAt(SLIM_OUT, This, "f", new)
                 /\ work' = [work EXCEPT !.i = work.i + 1, !.prev = new]
  BY <1>4
<1>6. /\ ForwardIn \in {SLIM_IN, SetAt(SLIM_IN, This, "f", ForwardPrev)}
      /\ ForwardPrev \in {work.prev, SLIM_IN[processing][This].f \cup work.prev}
  BY DEF ForwardIn, ForwardPrev
<1>7. Written
  BY <1>1, <1>3, <1>4, <1>5, <1>6, SetAtWrites DEF Written
<1>8. Walks(work', work.i + 1) /\ work'.done = work.done
  BY <1>1, <1>5, WorkFields
<1>9. EdgesSettled'
  BY <1>1, <1>4, <1>8, SettledCall DEF AllAgree
<1>10. ASSUME EveryBlockQueued' \/ Unmarked' PROVE SitesAgree'
  <2>1. SitesAgree /\ EdgesSettled /\ Globals' = Globals
    BY <1>1, <1>2, <1>10, HypothesisLater DEF AllAgree, Globals
  <2>2. \A l \in Labels : \A b \in ProperBlocks(l) : \A n \in CallsOf(FunctionOf(l), b) :
          l = work.label /\ b = work.bb => Agrees(l, b, n)'
    BY <2>1, ForwardCallSite
  <2>3. \A l \in Labels : \A b \in ProperBlocks(l)' : \A n \in CallsOf(FunctionOf(l), b)' :
          Agrees(l, b, n)' /\ Aims(l, b, n)'
    BY <1>1, <1>2, <1>3, <1>4, <1>7, <1>8, <2>1, <2>2, CallSites
  <2>. QED  BY <1>2, <2>3 DEF SitesAgree
<1>. QED  BY <1>9, <1>10 DEF AllAgree

LEMMA CameNothing ==
  ASSUME NEW f, NEW b, NEW n
  PROVE  Came(f, b, n, {}) = {}
BY DEF Came, computeInFromOut, Direct, DirectIn

(* What a new context starts with: what the one the call was in had.         *)
LEMMA NewValues ==
  ASSUME Typed, NEW f \in DOMAIN program, NEW inflow, NEW source,
         NEW I, NEW O, NEW fw, NEW bw, INIT_CONTEXT(f, inflow, source, I, O, fw, bw)
  PROVE  LET new == Cardinality(DOMAIN contexts) IN
         /\ contexts'[new].inflow = inflow
         /\ contexts'[new].outflow = IF source = None THEN NoValue ELSE contexts[source].outflow
         /\ new \notin Labels /\ Labels' = Labels \cup {new} /\ processing' = new /\ new # 0
         /\ \A l \in Labels : contexts'[l] = contexts[l]
         /\ \A x \in Instructions :
              x[1] = f /\ x[2] \in ToSet(program[f].ipost) \ {Back(program[f])} =>
                SLIM_OUT'[new][x].b = IF source = None THEN {} ELSE O[source][x].b
<1> DEFINE new == Cardinality(DOMAIN contexts)
           fn == program[f]
           c == NewContext(f, inflow, IF source = None THEN NoValue ELSE contexts[source].outflow,
                           source)
           start == Initialised(O, f, source)
           last == LastIns(f, Back(fn))
           Out == [start EXCEPT ![last].b = inflow.b]
<1>1. contexts' = Put(contexts, new, c) /\ SLIM_OUT' = Put(O, new, Out) /\ processing' = new
  BY DEF INIT_CONTEXT
<1>2. new \notin Labels /\ new # 0
  BY DEF Typed, ContextsOK, Labels
<1>3. contexts'[new] = c /\ \A l \in Labels : contexts'[l] = contexts[l]
  BY <1>1, <1>2 DEF Put, Labels
<1>4. Labels' = Labels \cup {new}
  BY <1>1 DEF Put, Labels
<1>5. c.inflow = inflow /\ c.outflow = IF source = None THEN NoValue ELSE contexts[source].outflow
  BY DEF NewContext
<1>6. SLIM_OUT'[new] = Out
  BY <1>1 DEF Put
<1>7. ASSUME NEW x \in Instructions, x[1] = f, x[2] \in ToSet(fn.ipost) \ {Back(fn)}
      PROVE  SLIM_OUT'[new][x].b = IF source = None THEN {} ELSE O[source][x].b
  <2>1. x # last
    BY <1>7 DEF LastIns
  <2>2. DOMAIN start = Instructions
    BY DEF Initialised
  <2>3. Out[x] = start[x]
    BY <2>1, <2>2
  <2>4. start[x].b = IF source = None THEN {} ELSE O[source][x].b
    <3>1. CASE source = None
      BY <1>7, <3>1 DEF Initialised, NoValue
    <3>2. CASE source # None
      BY <1>7, <3>2 DEF Initialised
    <3>. QED  BY <3>1, <3>2
  <2>. QED  BY <1>6, <2>3, <2>4
<1>. QED  BY <1>1, <1>2, <1>3, <1>4, <1>5, <1>7

(* The calls of a new context are all still to be handled.                   *)
LEMMA NewSites ==
  ASSUME Typed, Grows, SitesAgree, work # NoBlock, direction' = direction,
         NEW i, Walks(work', i), NEW new, new \notin Labels, NEW f \in DOMAIN program,
         contexts'[new].function = f, AllPending(new)',
         NEW to, graph' = Put(graph, <<work.label, This>>, to),
         NEW source, source = None \/ (source \in Labels /\ FunctionOf(source) = f),
         direction = "forward" =>
           \A x \in Instructions :
             x[1] = f /\ x[2] \in ToSet(program[f].ipost) \ {Back(program[f])} =>
               SLIM_OUT'[new][x].b = IF source = None THEN {} ELSE SLIM_OUT[source][x].b
  PROVE  \A b \in ProperBlocks(new)' : \A n \in CallsOf(FunctionOf(new), b)' :
           Agrees(new, b, n)' /\ Aims(new, b, n)'
<1>1. /\ FunctionOf(new)' = f /\ program' = program
      /\ \A g, b : LastIns(g, b)' = LastIns(g, b)
      /\ \A g, b : CallsOf(g, b)' = CallsOf(g, b)
      /\ \A x : CodeAt(x)' = CodeAt(x)
  <2>1. FunctionOf(new)' = f /\ program' = program
    BY DEF FunctionOf, Grows
  <2>. QED  BY <2>1 DEF LastIns, CallsOf, Code, CodeAt
<1>. SUFFICES ASSUME NEW b \in ProperBlocks(new)', NEW n \in CallsOf(FunctionOf(new), b)'
              PROVE  Agrees(new, b, n)' /\ Aims(new, b, n)'
  OBVIOUS
<1> DEFINE x == <<f, b, n>>
<1>2. /\ b \in Blocks(program[f]) /\ AllQueued(program[f]) /\ n \in CallsOf(f, b)
      /\ b \in ToSet(program[f].ipost) \ {Back(program[f])} /\ Proper(f, b)
  <2>1. ProperBlocks(new)' = {c \in Blocks(program[f]) : Proper(f, c)}
    BY <1>1 DEF ProperBlocks, BlocksOf, Proper
  <2>2. CallsOf(FunctionOf(new), b)' = CallsOf(f, b)
    BY <1>1 DEF CallsOf
  <2>. QED  BY <2>1, <2>2 DEF Proper
<1>3. x \in Instructions /\ LastIns(f, b) \in Instructions
  BY <1>2, PositionLemma DEF Typed, CallsOf, LastIns
<1>4. ~Known(new, b, n)'
  <2>1. Known(new, b, n)' <=> <<new, x>> \in DOMAIN graph'
    BY <1>1 DEF Known
  <2>2. DOMAIN graph' = DOMAIN graph \cup {<<work.label, This>>}
    BY DEF Put
  <2>3. \A e \in DOMAIN graph : e[1] \in Labels
    BY QueuedPending
  <2>4. work.label \in Labels
    BY ThisLemma
  <2>5. <<new, x>>[1] = new /\ <<work.label, This>>[1] = work.label
    OBVIOUS
  <2>. HIDE DEF x
  <2>. QED  BY <2>1, <2>2, <2>3, <2>4, <2>5
<1>5. Anew(backward_worklist', new, b) /\ Anew(forward_worklist', new, b)
  <2>1. BlocksOf(new)' = Blocks(program[f]) /\ AllQueued(program'[FunctionOf(new)'])
    BY <1>1, <1>2 DEF BlocksOf
  <2>2. Anew(backward_worklist, new, b)' /\ Anew(forward_worklist, new, b)'
    BY <1>2, <2>1 DEF AllPending
  <2>. QED  BY <2>2 DEF Anew, Element
<1>6. direction' = "backward" \/
        (CallOut(new, b, n)').b = Came(FunctionOf(new), b, n, Needed(new, b))'
  <2>. SUFFICES ASSUME direction = "forward"
                PROVE  (CallOut(new, b, n)').b = Came(FunctionOf(new), b, n, Needed(new, b))'
    BY DEF Typed, RestOK
  <2>1. /\ (CallOut(new, b, n)').b = SLIM_OUT'[new][x].b
        /\ Needed(new, b)' = SLIM_OUT'[new][LastIns(f, b)].b
    BY <1>1 DEF CallOut, Needed
  <2>2. Came(FunctionOf(new), b, n, Needed(new, b))' = Came(f, b, n, Needed(new, b)')
    BY <1>1 DEF Came
  <2>3. /\ SLIM_OUT'[new][x].b = IF source = None THEN {} ELSE SLIM_OUT[source][x].b
        /\ SLIM_OUT'[new][LastIns(f, b)].b =
             IF source = None THEN {} ELSE SLIM_OUT[source][LastIns(f, b)].b
    <3>1. LastIns(f, b)[1] = f /\ LastIns(f, b)[2] = b
      BY DEF LastIns
    <3>2. x[1] = f /\ x[2] = b
      OBVIOUS
    <3>. HIDE DEF x
    <3>. QED  BY <1>2, <1>3, <3>1, <3>2
  <2>4. CASE source = None
    BY <2>1, <2>2, <2>3, <2>4, CameNothing
  <2>5. CASE source # None
    <3>1. source \in Labels /\ FunctionOf(source) = f
      BY <2>5
    <3>2. b \in ProperBlocks(source) /\ n \in CallsOf(FunctionOf(source), b)
      BY <1>2, <3>1 DEF ProperBlocks, BlocksOf
    <3>3. LiveAfter(source, b, n)
      BY <3>1, <3>2 DEF SitesAgree, Agrees
    <3>4. SLIM_OUT[source][x].b = Came(f, b, n, SLIM_OUT[source][LastIns(f, b)].b)
      BY <3>1, <3>3 DEF LiveAfter, CallOut, Needed
    <3>. QED  BY <2>1, <2>2, <2>3, <2>5, <3>4
  <2>. QED  BY <2>4, <2>5
<1>7. ~ToCome(new, b, n)'
  <2>1. work'.label = work.label /\ work.label \in Labels
    BY ThisLemma DEF Walks
  <2>. QED  BY <2>1 DEF ToCome, InHand
<1>8. Agrees(new, b, n)'
  BY <1>4, <1>5, <1>6, PendingSiteLater
<1>. QED  BY <1>7, <1>8 DEF Aims

LEMMA SettledNew ==
  ASSUME Typed, EdgesSettled, work # NoBlock, NEW i, Walks(work', i),
         NEW new, new \notin Labels, new # 0, processing' = new,
         graph' = Put(graph, <<work.label, This>>, new)
  PROVE  EdgesSettled'
<1> DEFINE e == <<work.label, This>>
<1>1. /\ DOMAIN graph' = DOMAIN graph \cup {e}
      /\ \A d \in DOMAIN graph' : graph'[d] = IF d = e THEN new ELSE graph[d]
  BY DEF Put
<1>2. e[1] \in Labels
  BY ThisLemma
<1>. HIDE DEF e
<1>3. \A d \in DOMAIN graph : d[1] \in Labels
  BY QueuedPending
<1>4. \A d \in DOMAIN graph' : d[1] # processing' /\ graph'[d] # 0
  BY <1>1, <1>2, <1>3 DEF EdgesSettled
<1>. QED  BY <1>4 DEF EdgesSettled

(* The context the call has until then is what the new one starts from.      *)
LEMMA SourceCallee ==
  ASSUME Typed, NEW l \in Labels, NEW x, <<l, x>> \in DOMAIN graph
  PROVE  getSourceContextAtCallSite(l, x) = graph[<<l, x>>] /\ graph[<<l, x>>] # None
<1>1. graph[<<l, x>>] \in Labels /\ Labels \subseteq Nat
  BY DEF Typed, GraphOK, IsEdge, ContextsOK
<1>. QED
  BY <1>1, NoneDiffers DEF getSourceContextAtCallSite, getCalleeContext

LEMMA BackwardNewContextAgrees ==
  ASSUME Typed, CallsRecorded, AllTold, AllAgree, BackwardNewContext
  PROVE  AllAgree'
<1>0. PICK new : new = Cardinality(DOMAIN contexts)
  OBVIOUS
<1> DEFINE source == getSourceContextAtCallSite(work.label, This)
           bw == workInsert(backward_worklist, PairDone)
<1>1. /\ work # NoBlock /\ direction = "backward" /\ direction' = direction
      /\ SLIM_IN \in Value /\ SLIM_OUT \in Value /\ processing \in Labels
      /\ marked' = marked /\ work.i >= 1 /\ At.op = "call"
      /\ work' = [work EXCEPT !.i = work.i - 1] /\ work.label \in Labels
      /\ graph' = Put(graph, <<work.label, This>>, new)
  BY <1>0, ThisLemma DEF BackwardNewContext, Going, Typed, RestOK, ValuesOK, addEdge
<1>2. /\ This \in Instructions /\ work.i \in 1 .. Len(Code(FunctionOf(work.label), work.bb))
      /\ This[1] = FunctionOf(work.label) /\ At = CodeAt(This)
      /\ At.rhs \in DOMAIN program
  <2>1. /\ This \in Instructions /\ work.i \in 1 .. Len(Code(FunctionOf(work.label), work.bb))
        /\ IsInstruction(At, program) /\ This[1] = FunctionOf(work.label) /\ At = CodeAt(This)
    BY <1>1, ThisLemma DEF WorkIn
  <2>. QED  BY <1>1, <2>1, InflowLemma
<1>3. ~work.done
  <2>1. \E inflow : Matching(inflow) = {}
    BY DEF BackwardNewContext
  <2>. QED  BY <1>1, <1>2, <2>1, NewAnew
<1>4. INIT_CONTEXT(At.rhs, BackwardInflow, source, SLIM_IN, BackwardOut, forward_worklist, bw)
  BY <1>3 DEF BackwardNewContext
<1>5. Typed' /\ Grows
      /\ Created(At.rhs, BackwardInflow, SLIM_IN, BackwardOut, forward_worklist, bw)
  BY <1>3, BackwardNewContextTyped
<1>6. source = None \/ (source \in Labels /\ FunctionOf(source) = At.rhs)
  BY <1>1, <1>2, SourceLemma
<1>7. /\ contexts'[new].inflow = BackwardInflow
      /\ contexts'[new].outflow = IF source = None THEN NoValue ELSE contexts[source].outflow
      /\ new \notin Labels /\ Labels' = Labels \cup {new} /\ processing' = new /\ new # 0
      /\ \A k \in Labels : contexts'[k] = contexts[k]
  BY <1>0, <1>2, <1>4, NewValues
<1>8. contexts'[new].function = At.rhs /\ AllPending(new)'
  <2>1. AllPending(processing)'
    BY <1>5, CreatedPending
  <2>. QED
    BY <1>0, <1>5, <1>7, <2>1 DEF Created, AllPending, FunctionOf, BlocksOf
<1>9. /\ \A l \in Labels : SLIM_IN'[l] = SLIM_IN[l] /\ SLIM_OUT'[l] = BackwardOut[l]
      /\ ToSet(backward_worklist) \cup {PairDone} \subseteq ToSet(backward_worklist')
      /\ ToSet(forward_worklist) \subseteq ToSet(forward_worklist')
  <2>1. Stack(backward_worklist) /\ PairDone \in Pending
    BY <1>1, ThisLemma DEF Typed, WorklistsOK
  <2>2. ToSet(bw) = ToSet(backward_worklist) \cup {PairDone}
    BY <2>1, StackInsert
  <2>. QED  BY <1>5, <2>2 DEF Created
<1>10. BackwardOut = SetAt(SLIM_OUT, This, "b", work.prev)
  BY <1>3 DEF BackwardOut
<1>11. Written
  BY <1>1, <1>2, <1>9, <1>10, SetAtWrites DEF Written
<1>12. Walks(work', work.i - 1) /\ work'.done = work.done
  BY <1>1, WorkFields
<1>. HIDE DEF source, bw
<1>13. EdgesSettled'
  BY <1>1, <1>7, <1>12, SettledNew DEF AllAgree
<1>14. ASSUME SitesAgree, Globals' = Globals,
              NEW l \in Labels, NEW b \in ProperBlocks(l), NEW n \in CallsOf(FunctionOf(l), b),
              l = work.label, b = work.bb
       PROVE  Agrees(l, b, n)'
  <2> DEFINE f == FunctionOf(l)
             x == <<f, b, n>>
             e == <<l, x>>
  <2>1. /\ n = work.i /\ This = x /\ b \in BlocksOf(l) /\ Agrees(l, b, n)
        /\ processing = l /\ work.prev = Came(f, b, n, Needed(l, b))
    BY <1>1, <1>2, <1>14, CallSite
  <2>2. /\ Needed(l, b)' = Needed(l, b)
        /\ FunctionOf(l)' = FunctionOf(l)
        /\ OutChanged(l, b) => OutChanged(l, b)'
        /\ CallIn(l, b, n) = SLIM_IN[l][x] /\ CallOut(l, b, n) = SLIM_OUT[l][x]
        /\ CallIn(l, b, n)' = SLIM_IN'[l][x] /\ CallOut(l, b, n)' = SLIM_OUT'[l][x]
        /\ Known(l, b, n)' <=> e \in DOMAIN graph'
        /\ Callee(l, b, n)' = contexts'[graph'[e]]
    BY <1>1, <1>5, <1>11, <1>12, <1>14, <2>1, CallSiteLater
  <2>3. /\ SLIM_IN'[l][x] = SLIM_IN[l][x]
        /\ SLIM_OUT'[l][x].f = SLIM_OUT[l][x].f /\ SLIM_OUT'[l][x].b = work.prev
    <3>1. /\ BackwardOut[processing][This].f = SLIM_OUT[processing][This].f
          /\ BackwardOut[processing][This].b = work.prev
      BY <1>1, <1>2, <1>10, SetAtWrites
    <3>. QED  BY <1>9, <2>1, <3>1
  <2>4. Known(l, b, n)' /\ Callee(l, b, n)' = contexts'[new]
    BY <1>1, <1>14, <2>1, <2>2 DEF Put
  <2>5. Came(FunctionOf(l), b, n, Needed(l, b))' = work.prev
    BY <1>5, <2>1, <2>2, SiteLater DEF Came
  <2>6. InflowAt(l, b, n)' = BackwardInflow
    <3>1. CodeAt(<<FunctionOf(l), b, n>>)' = CodeAt(x) /\ program' = program
      BY <1>5, <2>2, SiteLater
    <3>2. InflowAt(l, b, n)' = CallInflow(CodeAt(x), SLIM_IN'[l][x].f, SLIM_OUT'[l][x].b, Globals,
                                          ReturnOperand(program[CodeAt(x).rhs]))
      BY <1>14, <2>2, <3>1 DEF InflowAt
    <3>. QED  BY <2>1, <2>3, <3>2 DEF BackwardInflow, Returned, At
  <2>7. Queued(backward_worklist', l, b)
    <3>1. PairDone.label = l /\ PairDone.bb = b
      BY <1>14 DEF PairDone, Element
    <3>. QED  BY <1>9, <3>1 DEF Queued
  <2>8. Queued(forward_worklist, l, b) => Queued(forward_worklist', l, b)
    BY <1>9 DEF Queued
  <2>9. /\ LiveAfter(l, b, n) /\ Returns(l, b, n) /\ Unmet(l, b, n)
    BY <2>1 DEF Agrees
  <2>10. \/ SLIM_OUT[l][x].b = work.prev
         \/ Queued(forward_worklist, l, b) \/ OutChanged(l, b)
    BY <2>1, <2>2, <2>9 DEF LiveAfter
  <2>11. e \in DOMAIN graph =>
           /\ contexts'[new].outflow = contexts[graph[e]].outflow
           /\ Known(l, b, n) /\ Callee(l, b, n) = contexts[graph[e]]
    <3>1. e \in DOMAIN graph => source = graph[e] /\ graph[e] # None
      BY <1>14, <2>1, SourceCallee DEF source
    <3>. QED  BY <1>7, <3>1 DEF Known, Callee
  <2>12. e \in DOMAIN graph =>
           \/ restrictByLivness(contexts[graph[e]].outflow.f, SLIM_OUT[l][x].b) \subseteq SLIM_OUT[l][x].f
           \/ Queued(forward_worklist, l, b) \/ OutChanged(l, b)
    BY <1>1, <2>2, <2>9, <2>11 DEF Returns
  <2>13. e \notin DOMAIN graph => Queued(forward_worklist, l, b)
    BY <1>1, <2>9 DEF Unmet, Known
  <2>. HIDE DEF f, x, e
  <2>14. \/ restrictByLivness(contexts'[new].outflow.f, SLIM_OUT'[l][x].b) \subseteq SLIM_OUT'[l][x].f
         \/ Queued(forward_worklist, l, b) \/ OutChanged(l, b)
    BY <2>3, <2>10, <2>11, <2>12, <2>13
  <2>. QED
    BY <1>1, <1>7, <2>2, <2>3, <2>4, <2>5, <2>6, <2>7, <2>8, <2>14, HandledSite
<1>15. ASSUME EveryBlockQueued' \/ Unmarked' PROVE SitesAgree'
  <2>1. SitesAgree /\ EdgesSettled /\ Globals' = Globals
    BY <1>1, <1>5, <1>15, HypothesisLater DEF AllAgree, Globals
  <2>2. \A l \in Labels : \A b \in ProperBlocks(l) : \A n \in CallsOf(FunctionOf(l), b) :
          l = work.label /\ b = work.bb => Agrees(l, b, n)'
    BY <1>14, <2>1
  <2>3. \A l \in Labels : \A b \in ProperBlocks(l)' : \A n \in CallsOf(FunctionOf(l), b)' :
          Agrees(l, b, n)' /\ Aims(l, b, n)'
    BY <1>1, <1>2, <1>5, <1>7, <1>9, <1>11, <1>12, <2>1, <2>2, CallSites
  <2>4. \A b \in ProperBlocks(new)' : \A n \in CallsOf(FunctionOf(new), b)' :
          Agrees(new, b, n)' /\ Aims(new, b, n)'
    BY <1>1, <1>2, <1>5, <1>6, <1>7, <1>8, <1>12, <2>1, NewSites
  <2>. QED  BY <1>7, <2>3, <2>4 DEF SitesAgree
<1>. QED  BY <1>13, <1>15 DEF AllAgree

LEMMA ForwardNewContextAgrees ==
  ASSUME Typed, CallsRecorded, AllTold, AllAgree, ForwardNewContext
  PROVE  AllAgree'
<1>0. PICK new : new = Cardinality(DOMAIN contexts)
  OBVIOUS
<1> DEFINE source == getSourceContextAtCallSite(work.label, This)
           fw == workInsert(forward_worklist, PairDone)
<1>1. /\ work # NoBlock /\ direction = "forward" /\ direction' = direction
      /\ SLIM_IN \in Value /\ SLIM_OUT \in Value /\ processing \in Labels
      /\ marked' = marked /\ work.i <= Len(Code(FunctionOf(work.label), work.bb))
      /\ At.op = "call"
      /\ work' = [work EXCEPT !.i = work.i + 1, !.prev = ForwardPrev] /\ work.label \in Labels
      /\ graph' = Put(graph, <<work.label, This>>, new)
  BY <1>0, ThisLemma DEF ForwardNewContext, Going, Typed, RestOK, ValuesOK, addEdge, Instruction
<1>2. /\ This \in Instructions /\ work.i \in 1 .. Len(Code(FunctionOf(work.label), work.bb))
      /\ This[1] = FunctionOf(work.label) /\ At = CodeAt(This)
      /\ At.rhs \in DOMAIN program
  <2>1. /\ This \in Instructions /\ work.i \in 1 .. Len(Code(FunctionOf(work.label), work.bb))
        /\ IsInstruction(At, program) /\ This[1] = FunctionOf(work.label) /\ At = CodeAt(This)
    BY <1>1, ThisLemma DEF WorkIn
  <2>. QED  BY <1>1, <2>1, InflowLemma
<1>3. ~work.done
  <2>1. \E inflow : Matching(inflow) = {}
    BY DEF ForwardNewContext
  <2>. QED  BY <1>1, <1>2, <2>1, NewAnew
<1>4. INIT_CONTEXT(At.rhs, ForwardInflow, source, ForwardIn, SLIM_OUT, fw, backward_worklist)
  BY <1>3 DEF ForwardNewContext
<1>5. Typed' /\ Grows
      /\ Created(At.rhs, ForwardInflow, ForwardIn, SLIM_OUT, fw, backward_worklist)
  BY <1>3, ForwardNewContextTyped
<1>6. source = None \/ (source \in Labels /\ FunctionOf(source) = At.rhs)
  BY <1>1, <1>2, SourceLemma
<1>7. /\ contexts'[new].inflow = ForwardInflow
      /\ contexts'[new].outflow = IF source = None THEN NoValue ELSE contexts[source].outflow
      /\ new \notin Labels /\ Labels' = Labels \cup {new} /\ processing' = new /\ new # 0
      /\ \A k \in Labels : contexts'[k] = contexts[k]
      /\ \A x \in Instructions :
           x[1] = At.rhs /\ x[2] \in ToSet(program[At.rhs].ipost) \ {Back(program[At.rhs])} =>
             SLIM_OUT'[new][x].b = IF source = None THEN {} ELSE SLIM_OUT[source][x].b
  BY <1>0, <1>2, <1>4, NewValues
<1>8. contexts'[new].function = At.rhs /\ AllPending(new)'
  <2>1. AllPending(processing)'
    BY <1>5, CreatedPending
  <2>. QED
    BY <1>0, <1>5, <1>7, <2>1 DEF Created, AllPending, FunctionOf, BlocksOf
<1>9. /\ \A l \in Labels : SLIM_IN'[l] = ForwardIn[l] /\ SLIM_OUT'[l] = SLIM_OUT[l]
      /\ ToSet(backward_worklist) \subseteq ToSet(backward_worklist')
      /\ ToSet(forward_worklist) \cup {PairDone} \subseteq ToSet(forward_worklist')
  <2>1. Stack(forward_worklist) /\ PairDone \in Pending
    BY <1>1, ThisLemma DEF Typed, WorklistsOK
  <2>2. ToSet(fw) = ToSet(forward_worklist) \cup {PairDone}
    BY <2>1, StackInsert
  <2>. QED  BY <1>5, <2>2 DEF Created
<1>10. /\ ForwardIn = SetAt(SLIM_IN, This, "f", ForwardPrev)
       /\ ForwardPrev = SLIM_IN[processing][This].f \cup work.prev
  BY <1>3 DEF ForwardIn, ForwardPrev
<1>11. Written
  BY <1>1, <1>2, <1>9, <1>10, SetAtWrites DEF Written
<1>12. Walks(work', work.i + 1) /\ work'.done = work.done
  BY <1>1, WorkFields
<1>. HIDE DEF source, fw
<1>13. EdgesSettled'
  BY <1>1, <1>7, <1>12, SettledNew DEF AllAgree
<1>14. ASSUME SitesAgree, Globals' = Globals,
              NEW l \in Labels, NEW b \in ProperBlocks(l), NEW n \in CallsOf(FunctionOf(l), b),
              l = work.label, b = work.bb
       PROVE  Agrees(l, b, n)'
  <2> DEFINE f == FunctionOf(l)
             x == <<f, b, n>>
             e == <<l, x>>
  <2>1. /\ n = work.i /\ This = x /\ b \in BlocksOf(l) /\ Agrees(l, b, n) /\ processing = l
    BY <1>1, <1>2, <1>14, CallSite
  <2>2. /\ Needed(l, b)' = Needed(l, b)
        /\ FunctionOf(l)' = FunctionOf(l)
        /\ InChanged(l, b) => InChanged(l, b)'
        /\ CallIn(l, b, n) = SLIM_IN[l][x] /\ CallOut(l, b, n) = SLIM_OUT[l][x]
        /\ CallIn(l, b, n)' = SLIM_IN'[l][x] /\ CallOut(l, b, n)' = SLIM_OUT'[l][x]
        /\ Known(l, b, n)' <=> e \in DOMAIN graph'
        /\ Callee(l, b, n)' = contexts'[graph'[e]]
    BY <1>1, <1>5, <1>11, <1>12, <1>14, <2>1, CallSiteLater
  <2>3. /\ SLIM_OUT'[l][x] = SLIM_OUT[l][x]
        /\ SLIM_IN'[l][x].b = SLIM_IN[l][x].b /\ SLIM_IN'[l][x].f = ForwardPrev
    <3>1. /\ ForwardIn[processing][This].b = SLIM_IN[processing][This].b
          /\ ForwardIn[processing][This].f = ForwardPrev
      BY <1>1, <1>2, <1>10, SetAtWrites
    <3>. QED  BY <1>9, <2>1, <3>1
  <2>4. Known(l, b, n)' /\ Callee(l, b, n)' = contexts'[new]
    BY <1>1, <1>14, <2>1, <2>2 DEF Put
  <2>5. Came(FunctionOf(l), b, n, Needed(l, b))' = Came(f, b, n, Needed(l, b))
    BY <1>5, <2>1, <2>2, SiteLater DEF Came
  <2>6. InflowAt(l, b, n)' = ForwardInflow
    <3>1. CodeAt(<<FunctionOf(l), b, n>>)' = CodeAt(x) /\ program' = program
      BY <1>5, <2>2, SiteLater
    <3>2. InflowAt(l, b, n)' = CallInflow(CodeAt(x), SLIM_IN'[l][x].f, SLIM_OUT'[l][x].b, Globals,
                                          ReturnOperand(program[CodeAt(x).rhs]))
      BY <1>14, <2>2, <3>1 DEF InflowAt
    <3>. QED  BY <2>1, <2>3, <3>2 DEF ForwardInflow, Returned, At
  <2>7. Queued(forward_worklist', l, b)
    <3>1. PairDone.label = l /\ PairDone.bb = b
      BY <1>14 DEF PairDone, Element
    <3>. QED  BY <1>9, <3>1 DEF Queued
  <2>8. Queued(backward_worklist, l, b) => Queued(backward_worklist', l, b)
    BY <1>9 DEF Queued
  <2>9. /\ LiveAfter(l, b, n) /\ Needs(l, b, n) /\ Unmet(l, b, n)
    BY <2>1 DEF Agrees
  <2>10. SLIM_OUT[l][x].b = Came(f, b, n, Needed(l, b))
    BY <1>1, <2>2, <2>9 DEF LiveAfter
  <2>11. e \in DOMAIN graph =>
           /\ contexts'[new].outflow = contexts[graph[e]].outflow
           /\ Known(l, b, n) /\ Callee(l, b, n) = contexts[graph[e]]
    <3>1. e \in DOMAIN graph => source = graph[e] /\ graph[e] # None
      BY <1>14, <2>1, SourceCallee DEF source
    <3>. QED  BY <1>7, <3>1 DEF Known, Callee
  <2>12. Unmarked /\ e \in DOMAIN graph /\ n = 1 =>
           \/ contexts[graph[e]].outflow.b \subseteq SLIM_IN[l][x].b
           \/ Queued(backward_worklist, l, b) \/ InChanged(l, b)
    BY <1>1, <2>2, <2>9, <2>11 DEF Needs
  <2>13. e \notin DOMAIN graph => Queued(backward_worklist, l, b)
    BY <1>1, <2>9 DEF Unmet, Known
  <2>. HIDE DEF f, x, e
  <2>14. Unmarked /\ n = 1 =>
           \/ contexts'[new].outflow.b \subseteq SLIM_IN'[l][x].b
           \/ Queued(backward_worklist, l, b) \/ InChanged(l, b)
    BY <2>3, <2>11, <2>12, <2>13
  <2>15. Unmarked' <=> Unmarked
    BY <1>14 DEF Unmarked
  <2>. QED
    BY <1>1, <1>7, <2>2, <2>3, <2>4, <2>5, <2>6, <2>7, <2>8, <2>10, <2>14, <2>15, HandledSite
<1>15. ASSUME EveryBlockQueued' \/ Unmarked' PROVE SitesAgree'
  <2>1. SitesAgree /\ EdgesSettled /\ Globals' = Globals
    BY <1>1, <1>5, <1>15, HypothesisLater DEF AllAgree, Globals
  <2>2. \A l \in Labels : \A b \in ProperBlocks(l) : \A n \in CallsOf(FunctionOf(l), b) :
          l = work.label /\ b = work.bb => Agrees(l, b, n)'
    BY <1>14, <2>1
  <2>3. \A l \in Labels : \A b \in ProperBlocks(l)' : \A n \in CallsOf(FunctionOf(l), b)' :
          Agrees(l, b, n)' /\ Aims(l, b, n)'
    BY <1>1, <1>2, <1>5, <1>7, <1>9, <1>11, <1>12, <2>1, <2>2, CallSites
  <2>4. \A b \in ProperBlocks(new)' : \A n \in CallsOf(FunctionOf(new), b)' :
          Agrees(new, b, n)' /\ Aims(new, b, n)'
    <3>1. direction = "forward" =>
            \A x \in Instructions :
              x[1] = At.rhs /\ x[2] \in ToSet(program[At.rhs].ipost) \ {Back(program[At.rhs])} =>
                SLIM_OUT'[new][x].b = IF source = None THEN {} ELSE SLIM_OUT[source][x].b
      BY <1>7
    <3>2. At.rhs \in DOMAIN program /\ contexts'[new].function = At.rhs /\ AllPending(new)'
      BY <1>2, <1>8
    <3>3. work # NoBlock /\ direction' = direction /\ new \notin Labels /\ Grows
      BY <1>1, <1>5, <1>7
    <3>4. graph' = Put(graph, <<work.label, This>>, new)
      BY <1>1
    <3>. QED  BY <1>6, <1>12, <2>1, <3>1, <3>2, <3>3, <3>4, NewSites
  <2>. QED  BY <1>7, <2>3, <2>4 DEF SitesAgree
<1>. QED  BY <1>13, <1>15 DEF AllAgree

(* What an end writes, and that it queues the callers.                       *)
LEMMA OutflowKept ==
  ASSUME Typed, NEW l \in Labels, NEW moved, NEW side \in {"b", "f"}, NEW u, NEW w, NEW done,
         contexts' = SetOutflow(l, moved, side, u),
         \/ u = contexts[l].outflow[side]
         \/ Again(getCallers(l), done) \subseteq ToSet(w)
  PROVE  \A j \in Labels :
           /\ side = "f" \/ \/ contexts'[j].outflow.b = contexts[j].outflow.b
                           \/ \A e \in DOMAIN graph : graph[e] = j => Queued(w, e[1], e[2][2])
           /\ side = "b" \/ \/ contexts'[j].outflow.f = contexts[j].outflow.f
                           \/ \A e \in DOMAIN graph : graph[e] = j => Queued(w, e[1], e[2][2])
           /\ side = "b" => contexts'[j].outflow.f = contexts[j].outflow.f
           /\ side = "f" => contexts'[j].outflow.b = contexts[j].outflow.b
<1>1. /\ contexts \in [Labels -> ContextRecord]
      /\ contexts[l] \in ContextRecord /\ contexts[l].outflow \in Values(Interface)
  BY DEF Typed, ContextsOK, ContextRecord
<1>2. \A j \in Labels : j # l => contexts'[j] = contexts[j]
  BY <1>1 DEF SetOutflow
<1>3. contexts'[l].outflow = [contexts[l].outflow EXCEPT ![side] = u]
  BY <1>1 DEF SetOutflow, ContextRecord
<1>4. /\ side = "b" => contexts'[l].outflow.b = u /\ contexts'[l].outflow.f = contexts[l].outflow.f
      /\ side = "f" => contexts'[l].outflow.f = u /\ contexts'[l].outflow.b = contexts[l].outflow.b
  BY <1>1, <1>3 DEF Values
<1>5. ASSUME Again(getCallers(l), done) \subseteq ToSet(w), NEW e \in DOMAIN graph, graph[e] = l
      PROVE  Queued(w, e[1], e[2][2])
  <2>1. <<e[1], e[2][2]>> \in getCallers(l)
    BY <1>5 DEF getCallers
  <2>2. Element(e[1], e[2][2], done) \in ToSet(w)
    BY <1>5, <2>1 DEF Again
  <2>. QED  BY <2>2 DEF Queued, Element
<1>. QED  BY <1>2, <1>4, <1>5

(* The block in hand is done with.                                           *)
LEMMA EndSites ==
  ASSUME Typed, Grows, Labels' = Labels, Globals' = Globals, work # NoBlock, work' = NoBlock,
         graph' = graph, SLIM_IN' = SLIM_IN, SLIM_OUT' = SLIM_OUT, direction' = direction,
         ToSet(backward_worklist) \subseteq ToSet(backward_worklist'),
         ToSet(forward_worklist) \subseteq ToSet(forward_worklist'),
         \A i \in CallsOf(FunctionOf(work.label), work.bb) : ~StillToCome(i),
         \/ direction = "backward" \/ Entering(work.label, work.bb) = work.in.f
         \/ Pair \in ToSet(backward_worklist'),
         \/ direction = "forward" \/ Needed(work.label, work.bb) = work.out.b
         \/ Pair \in ToSet(forward_worklist'),
         \A j \in Labels :
           /\ \/ contexts'[j].outflow.b = contexts[j].outflow.b
              \/ \A e \in DOMAIN graph : graph[e] = j => Queued(backward_worklist', e[1], e[2][2])
           /\ \/ contexts'[j].outflow.f = contexts[j].outflow.f
              \/ \A e \in DOMAIN graph : graph[e] = j => Queued(forward_worklist', e[1], e[2][2]),
         SitesAgree
  PROVE  SitesAgree'
<1>1. ASSUME NEW l \in Labels, NEW b \in ProperBlocks(l), NEW n \in CallsOf(FunctionOf(l), b)
      PROVE  Agrees(l, b, n)' /\ Aims(l, b, n)'
  <2> DEFINE f == FunctionOf(l)
             x == <<f, b, n>>
             e == <<l, x>>
  <2>0. Agrees(l, b, n)
    BY DEF SitesAgree
  <2>1. /\ FunctionOf(l)' = f /\ LastIns(f, b)' = LastIns(f, b) /\ FirstIns(f, b)' = FirstIns(f, b)
    BY FunctionLater DEF FirstIns
  <2>2. /\ CallIn(l, b, n)' = CallIn(l, b, n) /\ CallOut(l, b, n)' = CallOut(l, b, n)
        /\ Needed(l, b)' = Needed(l, b)
        /\ (Known(l, b, n)' <=> Known(l, b, n))
    BY <2>1 DEF CallIn, CallOut, Needed, Known
  <2>3. ~ToCome(l, b, n) /\ ~ToCome(l, b, n)'
    BY DEF ToCome, InHand
  <2>4. InChanged(l, b) => Queued(backward_worklist', l, b)
    BY DEF InChanged, InHand, Queued, Pair, Element
  <2>5. OutChanged(l, b) => Queued(forward_worklist', l, b)
    BY DEF OutChanged, InHand, Queued, Pair, Element
  <2>6. /\ Queued(backward_worklist, l, b) => Queued(backward_worklist', l, b)
        /\ Queued(forward_worklist, l, b) => Queued(forward_worklist', l, b)
        /\ Anew(backward_worklist, l, b) => Anew(backward_worklist', l, b)
        /\ Anew(forward_worklist, l, b) => Anew(forward_worklist', l, b)
    BY AnewLater DEF Queued
  <2>7. Known(l, b, n) =>
          /\ Callee(l, b, n)'.inflow = Callee(l, b, n).inflow
          /\ \/ Callee(l, b, n)'.outflow.b = Callee(l, b, n).outflow.b
             \/ Queued(backward_worklist', l, b)
          /\ \/ Callee(l, b, n)'.outflow.f = Callee(l, b, n).outflow.f
             \/ Queued(forward_worklist', l, b)
    <3>. SUFFICES ASSUME e \in DOMAIN graph
                  PROVE  /\ Callee(l, b, n)'.inflow = Callee(l, b, n).inflow
                         /\ \/ Callee(l, b, n)'.outflow.b = Callee(l, b, n).outflow.b
                            \/ Queued(backward_worklist', l, b)
                         /\ \/ Callee(l, b, n)'.outflow.f = Callee(l, b, n).outflow.f
                            \/ Queued(forward_worklist', l, b)
      BY DEF Known
    <3>1. PICK j \in Labels : j = graph[e]
      BY DEF Typed, GraphOK, IsEdge
    <3>2. Callee(l, b, n) = contexts[j] /\ Callee(l, b, n)' = contexts'[j]
      BY <2>1, <3>1 DEF Callee
    <3>3. contexts'[j].inflow = contexts[j].inflow
      BY DEF Grows
    <3>4. e[1] = l /\ e[2][2] = b
      OBVIOUS
    <3>. HIDE DEF e
    <3>. QED  BY <3>1, <3>2, <3>3, <3>4
  <2>8. Agrees(l, b, n)'
    BY <2>0, <2>2, <2>3, <2>4, <2>5, <2>6, <2>7, SiteKept
  <2>9. Aims(l, b, n)'
    BY <2>3 DEF Aims
  <2>. QED  BY <2>8, <2>9
<1>2. \A l \in Labels : /\ ProperBlocks(l)' = ProperBlocks(l)
                        /\ \A b : CallsOf(FunctionOf(l), b)' = CallsOf(FunctionOf(l), b)
  BY SiteLater
<1>. QED  BY <1>1, <1>2 DEF SitesAgree

LEMMA EndAgrees ==
  ASSUME Typed, AllAgree, BackwardEnd \/ ForwardEnd
  PROVE  AllAgree'
<1>1. /\ work # NoBlock /\ work' = NoBlock /\ graph' = graph /\ marked' = marked
      /\ SLIM_IN' = SLIM_IN /\ SLIM_OUT' = SLIM_OUT /\ direction' = direction
      /\ Globals' = Globals
      /\ \/ direction = "backward" /\ work.i = 0
         \/ direction = "forward" /\ ~(work.i <= Len(Code(FunctionOf(work.label), work.bb)))
  BY DEF BackwardEnd, ForwardEnd, Going, Instruction, values, Globals
<1>2. \A i \in CallsOf(FunctionOf(work.label), work.bb) : ~StillToCome(i)
  <2>1. /\ Len(Code(FunctionOf(work.label), work.bb)) \in Nat
        /\ \A i \in CallsOf(FunctionOf(work.label), work.bb) :
             i \in 1 .. Len(Code(FunctionOf(work.label), work.bb))
    BY <1>1, ThisLemma DEF CallsOf
  <2>2. work.i \in Nat
    BY <1>1, StepFields
  <2>. QED  BY <1>1, <2>1, <2>2 DEF StillToCome
<1>3. PICK k \in Labels : k = work.label
  BY <1>1, ThisLemma
<1>4. EdgesSettled'
  BY <1>1 DEF AllAgree, EdgesSettled
<1>5. CASE BackwardEnd
  <2> DEFINE f      == FunctionOf(k)
             live   == SLIM_IN[k][FirstIns(f, work.bb)].b
             before == live # work.in.b
             after  == SLIM_OUT[k][LastIns(f, work.bb)].b # work.out.b
             moved  == contexts[k].changed \/ before \/ after
             entry  == IsEntry(f, work.bb)
             v      == GlobalandFunctionArg(live, Globals)
  <2>1. /\ contexts' = SetOutflow(k, moved, "b", IF entry THEN v ELSE contexts[k].outflow.b)
        /\ direction = "backward"
    BY <1>3, <1>5 DEF BackwardEnd, Going
  <2>2. /\ Grows /\ Labels' = Labels
        /\ ToSet(forward_worklist') = ToSet(forward_worklist) \cup (IF before \/ after THEN {Pair} ELSE {})
        /\ ToSet(backward_worklist) \subseteq ToSet(backward_worklist')
        /\ Again(IF entry THEN getCallers(k) ELSE {}, ~moved) \subseteq ToSet(backward_worklist')
    BY <1>3, <1>5, BackwardEndTyped
  <2>3. after <=> Needed(work.label, work.bb) # work.out.b
    BY <1>3 DEF Needed
  <2>. HIDE DEF live, before, after, moved, entry, v, f
  <2> DEFINE u == IF entry THEN v ELSE contexts[k].outflow.b
  <2>4. \/ u = contexts[k].outflow["b"]
        \/ Again(getCallers(k), ~moved) \subseteq ToSet(backward_worklist')
    BY <2>2
  <2>8. contexts' = SetOutflow(k, moved, "b", u)
    BY <2>1
  <2>. HIDE DEF u
  <2>5. \A j \in Labels :
          /\ \/ contexts'[j].outflow.b = contexts[j].outflow.b
             \/ \A e \in DOMAIN graph : graph[e] = j => Queued(backward_worklist', e[1], e[2][2])
          /\ \/ contexts'[j].outflow.f = contexts[j].outflow.f
             \/ \A e \in DOMAIN graph : graph[e] = j => Queued(forward_worklist', e[1], e[2][2])
    BY <2>4, <2>8, OutflowKept
  <2>6. \/ direction = "forward" \/ Needed(work.label, work.bb) = work.out.b
        \/ Pair \in ToSet(forward_worklist')
    BY <2>2, <2>3
  <2>7. SitesAgree => SitesAgree'
    BY <1>1, <1>2, <2>1, <2>2, <2>5, <2>6, EndSites
  <2>. QED  BY <1>1, <1>4, <2>2, <2>7, HypothesisLater DEF AllAgree
<1>6. CASE ForwardEnd
  <2> DEFINE f      == FunctionOf(k)
             out    == SLIM_OUT[k][LastIns(f, work.bb)].f
             after  == out # work.out.f
             before == SLIM_IN[k][FirstIns(f, work.bb)].f # work.in.f
             moved  == contexts[k].changed \/ before \/ after
             last   == IsLast(f, work.bb)
             v      == PurelyGlobalForward(out, Globals)
  <2>1. /\ contexts' = SetOutflow(k, moved, "f", IF last THEN v ELSE contexts[k].outflow.f)
        /\ direction = "forward"
    BY <1>3, <1>6 DEF ForwardEnd, Going
  <2>2. /\ Grows /\ Labels' = Labels
        /\ ToSet(backward_worklist') = ToSet(backward_worklist) \cup (IF before THEN {Pair} ELSE {})
        /\ ToSet(forward_worklist) \subseteq ToSet(forward_worklist')
        /\ Again(IF last THEN getCallers(k) ELSE {}, ~moved) \subseteq ToSet(forward_worklist')
    BY <1>3, <1>6, ForwardEndTyped
  <2>3. before <=> Entering(work.label, work.bb) # work.in.f
    BY <1>3 DEF Entering
  <2>. HIDE DEF out, before, after, moved, last, v, f
  <2> DEFINE u == IF last THEN v ELSE contexts[k].outflow.f
  <2>4. \/ u = contexts[k].outflow["f"]
        \/ Again(getCallers(k), ~moved) \subseteq ToSet(forward_worklist')
    BY <2>2
  <2>8. contexts' = SetOutflow(k, moved, "f", u)
    BY <2>1
  <2>. HIDE DEF u
  <2>5. \A j \in Labels :
          /\ \/ contexts'[j].outflow.b = contexts[j].outflow.b
             \/ \A e \in DOMAIN graph : graph[e] = j => Queued(backward_worklist', e[1], e[2][2])
          /\ \/ contexts'[j].outflow.f = contexts[j].outflow.f
             \/ \A e \in DOMAIN graph : graph[e] = j => Queued(forward_worklist', e[1], e[2][2])
    BY <2>4, <2>8, OutflowKept
  <2>6. \/ direction = "backward" \/ Entering(work.label, work.bb) = work.in.f
        \/ Pair \in ToSet(backward_worklist')
    BY <2>2, <2>3
  <2>7. SitesAgree => SitesAgree'
    BY <1>1, <1>2, <2>1, <2>2, <2>5, <2>6, EndSites
  <2>. QED  BY <1>1, <1>4, <2>2, <2>7, HypothesisLater DEF AllAgree
<1>. QED  BY <1>5, <1>6

LEMMA SameValue ==
  ASSUME NEW x, NEW u \in Values(x), NEW v \in Values(x), u.f = v.f, u.b = v.b
  PROVE  u = v
BY DEF Values

(* The calls of a block that is not the one taken.                           *)
LEMMA OtherSite ==
  ASSUME Typed, Typed', Grows, Globals' = Globals, direction' = direction, work = NoBlock,
         graph' = graph, contexts' = contexts, Labels' = Labels,
         NEW l \in Labels, NEW b \in ProperBlocks(l), NEW n \in CallsOf(FunctionOf(l), b),
         Agrees(l, b, n),
         \A x \in {<<FunctionOf(l), b, n>>, LastIns(FunctionOf(l), b)} :
           /\ SLIM_IN'[l][x].f = SLIM_IN[l][x].f /\ SLIM_IN'[l][x].b = SLIM_IN[l][x].b
           /\ SLIM_OUT'[l][x].f = SLIM_OUT[l][x].f /\ SLIM_OUT'[l][x].b = SLIM_OUT[l][x].b,
         Queued(backward_worklist, l, b) => Queued(backward_worklist', l, b),
         Queued(forward_worklist, l, b) => Queued(forward_worklist', l, b),
         Anew(backward_worklist, l, b) => Anew(backward_worklist', l, b),
         Anew(forward_worklist, l, b) => Anew(forward_worklist', l, b)
  PROVE  Agrees(l, b, n)'
<1> DEFINE f == FunctionOf(l)
           x == <<f, b, n>>
<1>1. /\ FunctionOf(l)' = f /\ LastIns(f, b)' = LastIns(f, b)
  BY FunctionLater
<1>2. x \in Instructions
  BY SiteLemma
<1>3. SLIM_IN'[l][x] = SLIM_IN[l][x] /\ SLIM_OUT'[l][x] = SLIM_OUT[l][x]
  <2>1. /\ SLIM_IN \in Value /\ SLIM_OUT \in Value /\ SLIM_IN' \in Value' /\ SLIM_OUT' \in Value'
    BY DEF Typed, ValuesOK
  <2>2. Value' = Value
    BY GrowsLemma DEF Value, Values
  <2>3. /\ SLIM_IN[l][x] \in Values(Variable) /\ SLIM_OUT[l][x] \in Values(Variable)
        /\ SLIM_IN'[l][x] \in Values(Variable) /\ SLIM_OUT'[l][x] \in Values(Variable)
    BY <1>2, <2>1, <2>2 DEF Value
  <2>. HIDE DEF x
  <2>4. /\ SLIM_IN'[l][x].f = SLIM_IN[l][x].f /\ SLIM_IN'[l][x].b = SLIM_IN[l][x].b
        /\ SLIM_OUT'[l][x].f = SLIM_OUT[l][x].f /\ SLIM_OUT'[l][x].b = SLIM_OUT[l][x].b
    BY DEF x
  <2>. QED  BY <2>3, <2>4, SameValue
<1>4. /\ CallIn(l, b, n)' = CallIn(l, b, n) /\ CallOut(l, b, n)' = CallOut(l, b, n)
      /\ Needed(l, b)' = Needed(l, b)
      /\ (Known(l, b, n)' <=> Known(l, b, n))
      /\ Callee(l, b, n)' = Callee(l, b, n)
  BY <1>1, <1>3 DEF CallIn, CallOut, Needed, Known, Callee
<1>5. ~ToCome(l, b, n) /\ ~InChanged(l, b) /\ ~OutChanged(l, b)
  BY DEF ToCome, InChanged, OutChanged, InHand
<1>. QED  BY <1>4, <1>5, SiteKept

(* The calls of the block taken.                                             *)
LEMMA BackwardTakenSite ==
  ASSUME Typed, Typed', Grows, AllTold, Globals' = Globals, BackwardBlock, Labels' = Labels,
         NEW l \in Labels, NEW b \in ProperBlocks(l), NEW out, TakesBackward(l, b, out),
         NEW n \in CallsOf(FunctionOf(l), b), Agrees(l, b, n)
  PROVE  Agrees(l, b, n)' /\ Aims(l, b, n)'
<1> DEFINE f == FunctionOf(l)
           x == <<f, b, n>>
           L == Needed(l, b)
<1>1. /\ work = NoBlock /\ direction = "backward" /\ direction' = "backward"
      /\ graph' = graph /\ contexts' = contexts /\ processing' = l
      /\ backward_worklist' = Front(backward_worklist) /\ forward_worklist' = forward_worklist
      /\ backward_worklist # <<>> /\ Stack(backward_worklist)
  BY DEF BackwardBlock, Typed, WorklistsOK, TakesBackward
<1>2. /\ FunctionOf(l)' = f /\ LastIns(f, b)' = LastIns(f, b)
      /\ \A M : Came(f, b, n, M)' = Came(f, b, n, M)
      /\ \A y : CodeAt(y)' = CodeAt(y)
      /\ program' = program
  BY FunctionLater, SiteLater
<1>3. /\ b \in BlocksOf(l) /\ AllQueued(program[f]) /\ x \in Instructions
      /\ LastIns(f, b) # x /\ ~IsLast(f, b)
      /\ n \in Nat /\ Len(Code(f, b)) \in Nat /\ n < Len(Code(f, b))
  BY SiteLemma
<1>4. /\ SLIM_IN'[l][x].f = SLIM_IN[l][x].f
      /\ SLIM_OUT'[l][x].f = SLIM_OUT[l][x].f /\ SLIM_OUT'[l][x].b = SLIM_OUT[l][x].b
      /\ Needed(l, b)' = out
  BY <1>2, <1>3 DEF TakesBackward, Needed
<1>5. /\ (CallIn(l, b, n)').f = CallIn(l, b, n).f
      /\ (CallOut(l, b, n)').f = CallOut(l, b, n).f /\ (CallOut(l, b, n)').b = CallOut(l, b, n).b
      /\ (Known(l, b, n)' <=> Known(l, b, n))
      /\ Callee(l, b, n)' = Callee(l, b, n)
  BY <1>1, <1>2, <1>4 DEF CallIn, CallOut, Known, Callee
<1>6. /\ ~ToCome(l, b, n) /\ ~InChanged(l, b) /\ ~OutChanged(l, b)
      /\ \A g, c : ~InHand(g, c)
  BY <1>1 DEF ToCome, InChanged, OutChanged, InHand
<1>7. /\ work'.i = Len(Code(f, b)) /\ work'.prev = out /\ work'.out.b = L
      /\ work'.done = Last(backward_worklist).done
      /\ work' # NoBlock /\ work'.label = l /\ work'.bb = b
  BY DEF TakesBackward, Needed
<1>8. ToCome(l, b, n)'
  BY <1>1, <1>3, <1>7 DEF ToCome, InHand, StillToCome
<1>9. OutChanged(l, b)' <=> out # L
  BY <1>1, <1>4, <1>7 DEF OutChanged, InHand
<1>10. \/ out = L
       \/ Anew(backward_worklist', l, b) \/ ~work'.done
  <2>1. BackwardTold(l, b)
    BY <1>3 DEF AllTold, Told
  <2>2. IsExit(f, b) \/ out = Into(l, b)
    BY <1>3, <1>6 DEF TakesBackward, Into, Live
  <2>3. Anew(backward_worklist, l, b) => Anew(backward_worklist', l, b) \/ ~work'.done
    BY <1>1, <1>7, TakenLemma
  <2>. QED  BY <1>3, <2>1, <2>2, <2>3 DEF BackwardTold, TakesBackward
<1>11. InflowAt(l, b, n)' = InflowAt(l, b, n)
  <2>1. Globals' = Globals /\ CodeAt(x)' = CodeAt(x)
    BY <1>2
  <2>. QED  BY <1>2, <1>5, <2>1 DEF InflowAt
<1>. HIDE DEF f, x, L
<1>12. LiveAfter(l, b, n)'
  <2>1. LiveAfter(l, b, n)' <=>
          \/ (CallOut(l, b, n)').b = Came(f, b, n, out)
          \/ /\ Queued(forward_worklist', l, b) \/ OutChanged(l, b)'
             /\ Anew(backward_worklist', l, b) \/ (ToCome(l, b, n)' /\ ~work'.done)
    <3>1. Came(FunctionOf(l), b, n, Needed(l, b))' = Came(f, b, n, out)
      BY <1>2, <1>4 DEF Came, f
    <3>. QED  BY <1>1, <3>1 DEF LiveAfter, Queued, Anew, Element
  <2>2. Anew(backward_worklist, l, b) => Anew(backward_worklist', l, b) \/ ~work'.done
    BY <1>1, <1>7, TakenLemma
  <2>3. \/ CallOut(l, b, n).b = Came(f, b, n, L)
        \/ Queued(forward_worklist, l, b) /\ Anew(backward_worklist, l, b)
    BY <1>1, <1>6 DEF Agrees, LiveAfter, f, L
  <2>. QED  BY <1>1, <1>5, <1>8, <1>9, <1>10, <2>1, <2>2, <2>3
<1>13. Entered(l, b, n)'
  <2>1. Known(l, b, n) =>
          \/ Callee(l, b, n).inflow = InflowAt(l, b, n)
          \/ ~Unmarked /\ Anew(forward_worklist, l, b)
    BY <1>1 DEF Agrees, Entered
  <2>2. /\ Anew(forward_worklist, l, b)' <=> Anew(forward_worklist, l, b)
        /\ Unmarked' <=> Unmarked
    BY <1>1 DEF Anew, Element, Unmarked
  <2>. QED  BY <1>5, <1>11, <2>1, <2>2 DEF Entered
<1>14. Needs(l, b, n)'
  BY <1>1, <1>8 DEF Needs
<1>15. Returns(l, b, n)'
  <2>1. Returns(l, b, n)' <=>
          (Known(l, b, n)' =>
             \/ restrictByLivness((Callee(l, b, n)').outflow.f, (CallOut(l, b, n)').b)
                  \subseteq (CallOut(l, b, n)').f
             \/ Queued(forward_worklist', l, b) \/ OutChanged(l, b)')
    BY <1>1 DEF Returns, Queued, restrictByLivness
  <2>. QED  BY <1>1, <1>5, <1>6, <2>1 DEF Agrees, Returns
<1>16. Unmet(l, b, n)'
  <2>1. Known(l, b, n) \/ Queued(forward_worklist, l, b)
    BY <1>1, <1>6 DEF Agrees, Unmet
  <2>2. Queued(forward_worklist, l, b)' <=> Queued(forward_worklist, l, b)
    BY <1>1 DEF Queued
  <2>. QED  BY <1>1, <1>5, <1>8, <2>1, <2>2 DEF Unmet
<1>17. Aims(l, b, n)'
  <2>1. work'.i > n
    BY <1>3, <1>7 DEF f
  <2>. QED  BY <1>1, <1>4, <1>7, <2>1 DEF Aims
<1>. QED  BY <1>12, <1>13, <1>14, <1>15, <1>16, <1>17 DEF Agrees

LEMMA ForwardTakenSite ==
  ASSUME Typed, Typed', Grows, AllTold, Globals' = Globals, ForwardBlock, Labels' = Labels,
         NEW l \in Labels, NEW b \in ProperBlocks(l), NEW in, TakesForward(l, b, in),
         NEW n \in CallsOf(FunctionOf(l), b), Agrees(l, b, n)
  PROVE  Agrees(l, b, n)' /\ Aims(l, b, n)'
<1> DEFINE f == FunctionOf(l)
           x == <<f, b, n>>
<1>1. /\ work = NoBlock /\ direction = "forward" /\ direction' = "forward"
      /\ graph' = graph /\ contexts' = contexts /\ processing' = l /\ SLIM_OUT' = SLIM_OUT
      /\ forward_worklist' = Front(forward_worklist) /\ backward_worklist' = backward_worklist
      /\ forward_worklist # <<>> /\ Stack(forward_worklist)
  BY DEF ForwardBlock, Typed, WorklistsOK, TakesForward
<1>2. /\ FunctionOf(l)' = f /\ LastIns(f, b)' = LastIns(f, b)
      /\ \A M : Came(f, b, n, M)' = Came(f, b, n, M)
      /\ \A y : CodeAt(y)' = CodeAt(y)
      /\ program' = program
  BY FunctionLater, SiteLater
<1>3. /\ b \in BlocksOf(l) /\ AllQueued(program[f]) /\ x \in Instructions
      /\ n \in Nat \ {0}
  BY SiteLemma
<1>4. /\ SLIM_IN'[l][x].b = SLIM_IN[l][x].b
      /\ n # 1 => SLIM_IN'[l][x].f = SLIM_IN[l][x].f
      /\ n = 1 => SLIM_IN'[l][x].f = in /\ SLIM_IN[l][x].f = Entering(l, b)
      /\ Entering(l, b)' = in /\ Needed(l, b)' = Needed(l, b)
  <2>1. n # 1 => x # FirstIns(f, b)
    BY DEF FirstIns
  <2>2. n = 1 => x = FirstIns(f, b)
    BY DEF FirstIns
  <2>3. FirstIns(f, b)' = FirstIns(f, b)
    BY <1>2 DEF FirstIns
  <2>. HIDE DEF x
  <2>4. SLIM_IN'[l][FirstIns(f, b)].f = in
    BY DEF TakesForward
  <2>5. /\ SLIM_IN'[l][x].b = SLIM_IN[l][x].b
        /\ x # FirstIns(f, b) => SLIM_IN'[l][x].f = SLIM_IN[l][x].f
    BY <1>3 DEF TakesForward
  <2>6. /\ Entering(l, b)' = in /\ Needed(l, b)' = Needed(l, b)
        /\ Entering(l, b) = SLIM_IN[l][FirstIns(f, b)].f
    BY <1>1, <1>2, <2>3, <2>4 DEF Entering, Needed
  <2>. QED  BY <2>1, <2>2, <2>4, <2>5, <2>6
<1>5. /\ (CallIn(l, b, n)').b = CallIn(l, b, n).b
      /\ (CallIn(l, b, n)').f = SLIM_IN'[l][x].f /\ CallIn(l, b, n).f = SLIM_IN[l][x].f
      /\ CallOut(l, b, n)' = CallOut(l, b, n)
      /\ (Known(l, b, n)' <=> Known(l, b, n))
      /\ Callee(l, b, n)' = Callee(l, b, n)
  BY <1>1, <1>2, <1>4 DEF CallIn, CallOut, Known, Callee
<1>6. /\ ~ToCome(l, b, n) /\ ~InChanged(l, b) /\ ~OutChanged(l, b)
      /\ \A g, c : ~InHand(g, c)
  BY <1>1 DEF ToCome, InChanged, OutChanged, InHand
<1>7. /\ work'.i = 1 /\ work'.in.f = Entering(l, b)
      /\ work'.done = Last(forward_worklist).done
      /\ work' # NoBlock /\ work'.label = l /\ work'.bb = b
  BY DEF TakesForward, Entering
<1>8. ToCome(l, b, n)'
  BY <1>1, <1>3, <1>7 DEF ToCome, InHand, StillToCome
<1>9. InChanged(l, b)' <=> in # Entering(l, b)
  BY <1>1, <1>4, <1>7 DEF InChanged, InHand
<1>10. \/ in = Entering(l, b)
       \/ Anew(forward_worklist', l, b) \/ ~work'.done
  <2>1. ForwardTold(l, b)
    BY <1>3 DEF AllTold, Told
  <2>2. IsExit(f, b) \/ in = Arriving(l, b)
    <3>1. Beyond(l, b) = UNION {SLIM_OUT[l][LastIns(f, p)].f : p \in predecessors(program[f], b)}
      BY <1>6 DEF Beyond, Passed
    <3>2. Live(l, b) = SLIM_IN[l][FirstIns(f, b)].b
      BY <1>6 DEF Live
    <3>3. performMeetForward({}, Beyond(l, b), Live(l, b)) = restrictByLivness(Beyond(l, b), Live(l, b))
      BY DEF performMeetForward
    <3>. QED  BY <3>1, <3>2, <3>3 DEF TakesForward, Arriving
  <2>3. Anew(forward_worklist, l, b) => Anew(forward_worklist', l, b) \/ ~work'.done
    BY <1>1, <1>7, TakenLemma
  <2>4. IsExit(f, b) => in = Entering(l, b)
    BY DEF TakesForward
  <2>. QED  BY <2>1, <2>2, <2>3, <2>4 DEF ForwardTold
<1>. HIDE DEF f, x
<1>12. LiveAfter(l, b, n)'
  <2>1. CallOut(l, b, n).b = Came(f, b, n, Needed(l, b))
    BY <1>1 DEF Agrees, LiveAfter, f
  <2>2. Came(FunctionOf(l), b, n, Needed(l, b))' = Came(f, b, n, Needed(l, b))
    BY <1>2, <1>4 DEF Came, f
  <2>. QED  BY <1>5, <2>1, <2>2 DEF LiveAfter
<1>13. Entered(l, b, n)'
  <2>1. Entered(l, b, n)' <=>
          (Known(l, b, n)' =>
             \/ Callee(l, b, n)'.inflow = InflowAt(l, b, n)'
             \/ /\ Unmarked => Queued(backward_worklist', l, b) \/ InChanged(l, b)'
                /\ Anew(forward_worklist', l, b) \/ (ToCome(l, b, n)' /\ ~work'.done))
    BY <1>1 DEF Entered, Queued, Anew, Element, Unmarked
  <2>2. CASE SLIM_IN'[l][x].f = SLIM_IN[l][x].f
    <3>1. InflowAt(l, b, n)' = InflowAt(l, b, n)
      <4>1. Globals' = Globals /\ CodeAt(<<FunctionOf(l), b, n>>)' = CodeAt(<<FunctionOf(l), b, n>>)
        BY <1>2 DEF f
      <4>2. FunctionOf(l)' = FunctionOf(l)
        BY <1>2 DEF f
      <4>. QED  BY <1>2, <1>5, <2>2, <4>1, <4>2 DEF InflowAt
    <3>2. Anew(forward_worklist, l, b) => Anew(forward_worklist', l, b) \/ ~work'.done
      BY <1>1, <1>7, TakenLemma
    <3>3. Known(l, b, n) =>
            \/ Callee(l, b, n).inflow = InflowAt(l, b, n)
            \/ /\ Unmarked => Queued(backward_worklist, l, b)
               /\ Anew(forward_worklist, l, b)
      BY <1>6 DEF Agrees, Entered
    <3>. QED  BY <1>1, <1>5, <1>8, <2>1, <3>1, <3>2, <3>3
  <2>3. CASE SLIM_IN'[l][x].f # SLIM_IN[l][x].f
    <3>1. in # Entering(l, b)
      BY <1>4, <2>3
    <3>. QED  BY <1>8, <1>9, <1>10, <2>1, <3>1
  <2>. QED  BY <2>2, <2>3
<1>14. Needs(l, b, n)'
  <2>1. Queued(backward_worklist, l, b)' <=> Queued(backward_worklist, l, b)
    BY <1>1 DEF Queued
  <2>2. Unmarked /\ Known(l, b, n) /\ n = 1 =>
          \/ Callee(l, b, n).outflow.b \subseteq CallIn(l, b, n).b
          \/ Queued(backward_worklist, l, b)
    BY <1>6 DEF Agrees, Needs
  <2>3. Unmarked' <=> Unmarked
    BY DEF Unmarked
  <2>. QED  BY <1>5, <2>1, <2>2, <2>3 DEF Needs
<1>15. Returns(l, b, n)'
  BY <1>1, <1>8 DEF Returns
<1>16. Unmet(l, b, n)'
  <2>1. Known(l, b, n) \/ Queued(backward_worklist, l, b)
    BY <1>1, <1>6 DEF Agrees, Unmet
  <2>2. Queued(backward_worklist, l, b)' <=> Queued(backward_worklist, l, b)
    BY <1>1 DEF Queued
  <2>. QED  BY <1>1, <1>5, <1>8, <2>1, <2>2 DEF Unmet
<1>17. Aims(l, b, n)'
  BY <1>1 DEF Aims
<1>. QED  BY <1>12, <1>13, <1>14, <1>15, <1>16, <1>17 DEF Agrees

LEMMA BlockAgrees ==
  ASSUME Typed, AllTold, AllAgree, BackwardBlock \/ ForwardBlock
  PROVE  AllAgree'
<1>1. /\ work = NoBlock /\ graph' = graph /\ contexts' = contexts /\ marked' = marked
      /\ direction' = direction /\ Globals' = Globals /\ Labels' = Labels
  BY DEF BackwardBlock, ForwardBlock, Globals, Labels
<1>2. Typed' /\ Grows
  BY BackwardBlockTyped, ForwardBlockTyped
<1>3. /\ Stack(backward_worklist) /\ Stack(forward_worklist)
      /\ direction \in {"forward", "backward"}
  BY DEF Typed, WorklistsOK, RestOK
<1>4. \A l \in Labels : /\ ProperBlocks(l)' = ProperBlocks(l)
                        /\ \A b : CallsOf(FunctionOf(l), b)' = CallsOf(FunctionOf(l), b)
  BY <1>2, SiteLater
<1>5. CASE BackwardBlock
  <2>1. PICK k \in Labels : \E c \in BlocksOf(k) : \E out : TakesBackward(k, c, out)
    BY <1>5, BackwardTaken
  <2>2. PICK c \in BlocksOf(k) : \E out : TakesBackward(k, c, out)
    BY <2>1
  <2>3. PICK out : TakesBackward(k, c, out)
    BY <2>2
  <2>4. /\ backward_worklist # <<>> /\ backward_worklist' = Front(backward_worklist)
        /\ forward_worklist' = forward_worklist
        /\ k = Last(backward_worklist).label /\ c = Last(backward_worklist).bb
        /\ processing' = k /\ work'.label = k
    BY <1>5, <2>3 DEF BackwardBlock, TakesBackward
  <2>5. ASSUME SitesAgree, NEW l \in Labels, NEW b \in ProperBlocks(l), NEW n \in CallsOf(FunctionOf(l), b)
        PROVE  Agrees(l, b, n)' /\ Aims(l, b, n)'
    <3>1. Agrees(l, b, n)
      BY <2>5 DEF SitesAgree
    <3>2. CASE l = k /\ b = c
      <4>1. TakesBackward(l, b, out)
        BY <2>3, <3>2
      <4>. QED  BY <1>1, <1>2, <1>5, <3>1, <4>1, BackwardTakenSite
    <3>3. CASE ~(l = k /\ b = c)
      <4>1. /\ Queued(backward_worklist, l, b) => Queued(backward_worklist', l, b)
            /\ Queued(forward_worklist, l, b) => Queued(forward_worklist', l, b)
            /\ Anew(backward_worklist, l, b) => Anew(backward_worklist', l, b)
            /\ Anew(forward_worklist, l, b) => Anew(forward_worklist', l, b)
        BY <1>3, <2>4, <3>3, TakenLemma
      <4>2. <<FunctionOf(l), b, n>> \in Instructions /\ LastIns(FunctionOf(l), b) \in Instructions
        BY SiteLemma, EndsLemma
      <4>3. \A y \in {<<FunctionOf(l), b, n>>, LastIns(FunctionOf(l), b)} :
              l # k \/ (y # FirstIns(FunctionOf(k), c) /\ y # LastIns(FunctionOf(k), c))
        BY <3>3 DEF FirstIns, LastIns
      <4>4. \A y \in {<<FunctionOf(l), b, n>>, LastIns(FunctionOf(l), b)} :
              /\ SLIM_IN'[l][y].f = SLIM_IN[l][y].f /\ SLIM_IN'[l][y].b = SLIM_IN[l][y].b
              /\ SLIM_OUT'[l][y].f = SLIM_OUT[l][y].f /\ SLIM_OUT'[l][y].b = SLIM_OUT[l][y].b
        BY <2>3, <4>2, <4>3 DEF TakesBackward
      <4>5. Agrees(l, b, n)'
        BY <1>1, <1>2, <3>1, <4>1, <4>4, OtherSite
      <4>6. Aims(l, b, n)'
        BY <2>3, <3>3 DEF Aims, ToCome, InHand, TakesBackward
      <4>. QED  BY <4>5, <4>6
    <3>. QED  BY <3>2, <3>3
  <2>6. EdgesSettled'
    BY <1>1, <2>4 DEF AllAgree, EdgesSettled
  <2>7. SitesAgree => SitesAgree'
    BY <1>1, <1>4, <2>5 DEF SitesAgree
  <2>. QED  BY <1>1, <1>2, <2>6, <2>7, HypothesisLater DEF AllAgree
<1>6. CASE ForwardBlock
  <2>1. PICK k \in Labels : \E c \in BlocksOf(k) : \E in : TakesForward(k, c, in)
    BY <1>6, ForwardTaken
  <2>2. PICK c \in BlocksOf(k) : \E in : TakesForward(k, c, in)
    BY <2>1
  <2>3. PICK in : TakesForward(k, c, in)
    BY <2>2
  <2>4. /\ forward_worklist # <<>> /\ forward_worklist' = Front(forward_worklist)
        /\ backward_worklist' = backward_worklist /\ SLIM_OUT' = SLIM_OUT
        /\ k = Last(forward_worklist).label /\ c = Last(forward_worklist).bb
        /\ processing' = k /\ work'.label = k
    BY <1>6, <2>3 DEF ForwardBlock, TakesForward
  <2>5. ASSUME SitesAgree, NEW l \in Labels, NEW b \in ProperBlocks(l), NEW n \in CallsOf(FunctionOf(l), b)
        PROVE  Agrees(l, b, n)' /\ Aims(l, b, n)'
    <3>1. Agrees(l, b, n)
      BY <2>5 DEF SitesAgree
    <3>2. CASE l = k /\ b = c
      <4>1. TakesForward(l, b, in)
        BY <2>3, <3>2
      <4>. QED  BY <1>1, <1>2, <1>6, <3>1, <4>1, ForwardTakenSite
    <3>3. CASE ~(l = k /\ b = c)
      <4>1. /\ Queued(backward_worklist, l, b) => Queued(backward_worklist', l, b)
            /\ Queued(forward_worklist, l, b) => Queued(forward_worklist', l, b)
            /\ Anew(backward_worklist, l, b) => Anew(backward_worklist', l, b)
            /\ Anew(forward_worklist, l, b) => Anew(forward_worklist', l, b)
        BY <1>3, <2>4, <3>3, TakenLemma
      <4>2. <<FunctionOf(l), b, n>> \in Instructions /\ LastIns(FunctionOf(l), b) \in Instructions
        BY SiteLemma, EndsLemma
      <4>3. \A y \in {<<FunctionOf(l), b, n>>, LastIns(FunctionOf(l), b)} :
              l # k \/ y # FirstIns(FunctionOf(k), c)
        BY <3>3 DEF FirstIns, LastIns
      <4>4. \A y \in {<<FunctionOf(l), b, n>>, LastIns(FunctionOf(l), b)} :
              /\ SLIM_IN'[l][y].f = SLIM_IN[l][y].f /\ SLIM_IN'[l][y].b = SLIM_IN[l][y].b
              /\ SLIM_OUT'[l][y].f = SLIM_OUT[l][y].f /\ SLIM_OUT'[l][y].b = SLIM_OUT[l][y].b
        BY <2>3, <2>4, <4>2, <4>3 DEF TakesForward
      <4>5. Agrees(l, b, n)'
        BY <1>1, <1>2, <3>1, <4>1, <4>4, OtherSite
      <4>6. Aims(l, b, n)'
        BY <2>3, <3>3 DEF Aims, ToCome, InHand, TakesForward
      <4>. QED  BY <4>5, <4>6
    <3>. QED  BY <3>2, <3>3
  <2>6. EdgesSettled'
    BY <1>1, <2>4 DEF AllAgree, EdgesSettled
  <2>7. SitesAgree => SitesAgree'
    BY <1>1, <1>4, <2>5 DEF SitesAgree
  <2>. QED  BY <1>1, <1>2, <2>6, <2>7, HypothesisLater DEF AllAgree
<1>. QED  BY <1>5, <1>6

(* The direction turns when nothing is queued in it; or nothing happens.     *)
LEMMA TurnedSite ==
  ASSUME Typed, Turn, NEW l \in Labels, NEW b, NEW n, Agrees(l, b, n)
  PROVE  Agrees(l, b, n)'
<1>1. /\ UNCHANGED <<program, marked, contexts, SLIM_IN, SLIM_OUT, graph, forward_worklist,
                     backward_worklist, processing, work>>
      /\ work = NoBlock
      /\ \/ direction = "backward" /\ backward_worklist = <<>>
         \/ direction = "forward" /\ forward_worklist = <<>>
  BY DEF Turn, values, worklists
<1>2. Grows
  BY TurnTyped
<1>3. /\ FunctionOf(l)' = FunctionOf(l) /\ LastIns(FunctionOf(l), b)' = LastIns(FunctionOf(l), b)
      /\ \A M : Came(FunctionOf(l), b, n, M)' = Came(FunctionOf(l), b, n, M)
      /\ \A x : CodeAt(x)' = CodeAt(x)
  BY <1>2, FunctionLater, SiteLater
<1>4. /\ CallIn(l, b, n)' = CallIn(l, b, n) /\ CallOut(l, b, n)' = CallOut(l, b, n)
      /\ Needed(l, b)' = Needed(l, b) /\ Callee(l, b, n)' = Callee(l, b, n)
      /\ (Known(l, b, n)' <=> Known(l, b, n))
  BY <1>1, <1>3 DEF CallIn, CallOut, Needed, Callee, Known
<1>5. InflowAt(l, b, n)' = InflowAt(l, b, n)
  <2>1. Globals' = Globals
    BY <1>1 DEF Globals
  <2>. QED  BY <1>1, <1>3, <1>4, <2>1 DEF InflowAt
<1>6. ~ToCome(l, b, n) /\ ~InChanged(l, b) /\ ~OutChanged(l, b)
  BY <1>1 DEF ToCome, InChanged, OutChanged, InHand
<1>7. \A w : w = <<>> => ~Queued(w, l, b) /\ ~Anew(w, l, b)
  BY DEF Queued, Anew, ToSet
<1>8. LiveAfter(l, b, n)'
  <2>1. CallOut(l, b, n).b = Came(FunctionOf(l), b, n, Needed(l, b))
    BY <1>1, <1>6, <1>7 DEF Agrees, LiveAfter
  <2>2. Came(FunctionOf(l), b, n, Needed(l, b))' = Came(FunctionOf(l), b, n, Needed(l, b))
    BY <1>3, <1>4 DEF Came
  <2>. QED  BY <1>4, <2>1, <2>2 DEF LiveAfter
<1>9. Entered(l, b, n)'
  <2>1. Known(l, b, n) =>
          \/ Callee(l, b, n).inflow = InflowAt(l, b, n)
          \/ ~Unmarked /\ Anew(forward_worklist, l, b)
    BY <1>1, <1>6, <1>7 DEF Agrees, Entered
  <2>2. /\ Anew(forward_worklist, l, b)' <=> Anew(forward_worklist, l, b)
        /\ Unmarked' <=> Unmarked
    BY <1>1 DEF Anew, Element, Unmarked, Globals
  <2>. QED  BY <1>4, <1>5, <2>1, <2>2 DEF Entered
<1>10. Known(l, b, n)
  BY <1>1, <1>6, <1>7 DEF Agrees, Unmet
<1>11. Needs(l, b, n)'
  <2>1. Unmarked /\ n = 1 =>
          \/ Callee(l, b, n).outflow.b \subseteq CallIn(l, b, n).b
          \/ Queued(backward_worklist, l, b)
    BY <1>6, <1>10 DEF Agrees, Needs
  <2>2. /\ Queued(backward_worklist, l, b)' <=> Queued(backward_worklist, l, b)
        /\ Unmarked' <=> Unmarked
    BY <1>1 DEF Queued, Unmarked, Globals
  <2>. QED  BY <1>4, <2>1, <2>2 DEF Needs
<1>12. Returns(l, b, n)'
  <2>1. \/ restrictByLivness(Callee(l, b, n).outflow.f, CallOut(l, b, n).b) \subseteq CallOut(l, b, n).f
        \/ Queued(forward_worklist, l, b)
    BY <1>6, <1>10 DEF Agrees, Returns
  <2>2. Queued(forward_worklist, l, b)' <=> Queued(forward_worklist, l, b)
    BY <1>1 DEF Queued
  <2>3. restrictByLivness(Callee(l, b, n).outflow.f, CallOut(l, b, n).b)' =
          restrictByLivness(Callee(l, b, n).outflow.f, CallOut(l, b, n).b)
    BY <1>4 DEF restrictByLivness
  <2>. QED  BY <1>4, <2>1, <2>2, <2>3 DEF Returns
<1>. QED  BY <1>4, <1>8, <1>9, <1>10, <1>11, <1>12 DEF Agrees, Unmet

LEMMA SameAgrees ==
  ASSUME Typed, AllAgree, Turn \/ UNCHANGED vars
  PROVE  AllAgree'
<1>1. /\ UNCHANGED <<program, marked, contexts, SLIM_IN, SLIM_OUT, graph, forward_worklist,
                     backward_worklist, processing, work>>
      /\ work = NoBlock \/ direction' = direction
  BY DEF Turn, vars, values, worklists
<1>2. Grows /\ Labels' = Labels
  BY TurnTyped, SameTyped
<1>3. EdgesSettled'
  BY <1>1 DEF AllAgree, EdgesSettled, NoBlock
<1>4. ASSUME SitesAgree, NEW l \in Labels, NEW b \in ProperBlocks(l), NEW n \in CallsOf(FunctionOf(l), b)
      PROVE  Agrees(l, b, n)' /\ Aims(l, b, n)'
  <2>1. Agrees(l, b, n) /\ Aims(l, b, n)
    BY <1>4 DEF SitesAgree
  <2>2. /\ FunctionOf(l)' = FunctionOf(l) /\ LastIns(FunctionOf(l), b)' = LastIns(FunctionOf(l), b)
        /\ FirstIns(FunctionOf(l), b)' = FirstIns(FunctionOf(l), b)
        /\ \A M : Came(FunctionOf(l), b, n, M)' = Came(FunctionOf(l), b, n, M)
    BY <1>2, FunctionLater, SiteLater DEF FirstIns
  <2>3. Needed(l, b)' = Needed(l, b) /\ Entering(l, b)' = Entering(l, b)
    BY <1>1, <2>2 DEF Needed, Entering
  <2>4. Aims(l, b, n)'
    <3>1. CASE work = NoBlock
      BY <1>1, <3>1 DEF Aims, ToCome, InHand, NoBlock
    <3>2. CASE direction' = direction
      <4>1. ToCome(l, b, n)' <=> ToCome(l, b, n)
        BY <1>1, <3>2 DEF ToCome, InHand, StillToCome, NoBlock
      <4>2. Came(FunctionOf(l), b, n, Needed(l, b))' = Came(FunctionOf(l), b, n, Needed(l, b))
        BY <2>2, <2>3 DEF Came
      <4>. QED  BY <1>1, <2>1, <2>3, <3>2, <4>1, <4>2 DEF Aims
    <3>. QED  BY <1>1, <3>1, <3>2
  <2>5. Agrees(l, b, n)'
    <3>1. CASE Turn
      BY <2>1, <3>1, TurnedSite
    <3>2. CASE UNCHANGED vars
      <4>1. direction' = direction /\ Globals' = Globals
        BY <3>2 DEF vars, Globals
      <4>2. /\ CallIn(l, b, n)' = CallIn(l, b, n) /\ CallOut(l, b, n)' = CallOut(l, b, n)
            /\ Callee(l, b, n)' = Callee(l, b, n)
            /\ (Known(l, b, n)' <=> Known(l, b, n))
        BY <1>1, <2>2 DEF CallIn, CallOut, Callee, Known
      <4>3. /\ (ToCome(l, b, n)' <=> ToCome(l, b, n)) /\ work'.done = work.done
            /\ (InChanged(l, b)' <=> InChanged(l, b)) /\ (OutChanged(l, b)' <=> OutChanged(l, b))
        BY <1>1, <2>3, <4>1 DEF ToCome, InChanged, OutChanged, InHand, StillToCome, NoBlock
      <4>. QED  BY <1>1, <1>2, <2>1, <2>3, <4>1, <4>2, <4>3, SiteKept
    <3>. QED  BY <3>1, <3>2
  <2>. QED  BY <2>4, <2>5
<1>5. \A l \in Labels : /\ ProperBlocks(l)' = ProperBlocks(l)
                        /\ \A b : CallsOf(FunctionOf(l), b)' = CallsOf(FunctionOf(l), b)
  BY <1>2, SiteLater
<1>6. SitesAgree => SitesAgree'
  BY <1>1, <1>2, <1>4, <1>5 DEF SitesAgree
<1>. QED  BY <1>1, <1>2, <1>3, <1>6, HypothesisLater DEF AllAgree

LEMMA AgreesInit ==
  ASSUME Init, AllPending(0)
  PROVE  AllAgree
<1>1. /\ work = NoBlock /\ graph = [e \in {} |-> 0] /\ direction = "backward" /\ Labels = {0}
  BY DEF Init, Labels
<1>2. EdgesSettled
  BY <1>1 DEF EdgesSettled
<1>3. ASSUME NEW b \in ProperBlocks(0), NEW n \in CallsOf(FunctionOf(0), b)
      PROVE  Agrees(0, b, n) /\ Aims(0, b, n)
  <2>1. ~Known(0, b, n)
    BY <1>1 DEF Known
  <2>2. Anew(backward_worklist, 0, b) /\ Anew(forward_worklist, 0, b)
    BY DEF AllPending, ProperBlocks, Proper, BlocksOf
  <2>3. Agrees(0, b, n)
    BY <1>1, <2>1, <2>2, PendingSite
  <2>4. Aims(0, b, n)
    BY <1>1 DEF Aims, ToCome, InHand
  <2>. QED  BY <2>3, <2>4
<1>. QED  BY <1>1, <1>2, <1>3 DEF AllAgree, SitesAgree

LEMMA AgreesNext ==
  ASSUME Typed, CallsRecorded, ContextsUnique, AllTold, AllLearnt, AllAgree, [Next]_vars
  PROVE  AllAgree'
BY BlockAgrees, BackwardPlainAgrees, BackwardCallAgrees, BackwardNewContextAgrees,
   ForwardPlainAgrees, ForwardCallAgrees, ForwardNewContextAgrees, EndAgrees, SameAgrees
   DEF Next, Backward, Forward

(* Between two blocks.                                                       *)
LEMMA AgreesThere ==
  ASSUME Typed, SitesAgree, work = NoBlock, NEW e \in DOMAIN graph, Proper(e[2][1], e[2][2])
  PROVE  /\ \/ EnteredWith(e) \/ Queued(backward_worklist, e[1], e[2][2])
            \/ Queued(forward_worklist, e[1], e[2][2])
         /\ Unmarked /\ e[2][3] = 1 => NeedsTaken(e) \/ Queued(backward_worklist, e[1], e[2][2])
         /\ ResultsTaken(e) \/ Queued(forward_worklist, e[1], e[2][2])
<1>1. /\ IsEdge(e, graph[e]) /\ ProgramOK
  BY DEF Typed, GraphOK
<1>2. PICK l \in Labels, f \in DOMAIN program : l = e[1] /\ f = e[2][1] /\ f = FunctionOf(l)
  BY <1>1, InstructionLemma DEF IsEdge
<1>3. PICK b, n : b = e[2][2] /\ n = e[2][3]
  OBVIOUS
<1>4. /\ e = <<l, <<f, b, n>>>> /\ <<f, b, n>> \in Instructions /\ e[2] = <<f, b, n>>
      /\ CodeAt(<<f, b, n>>).op = "call"
  BY <1>1, <1>2, <1>3, InstructionLemma DEF IsEdge
<1>5. b \in ProperBlocks(l) /\ n \in CallsOf(FunctionOf(l), b)
  <2>1. e[2] \in Instructions
    BY <1>1 DEF IsEdge
  <2>2. b \in Blocks(program[f]) /\ n \in 1 .. Len(Code(f, b)) /\ Proper(f, b)
    BY <1>1, <1>2, <1>3, <2>1, InstructionLemma
  <2>. QED  BY <1>2, <1>4, <2>2 DEF ProperBlocks, BlocksOf, CallsOf
<1>6. Agrees(l, b, n) /\ Known(l, b, n)
  BY <1>2, <1>4, <1>5 DEF SitesAgree, Known
<1>7. ~ToCome(l, b, n) /\ ~InChanged(l, b) /\ ~OutChanged(l, b)
  BY DEF ToCome, InChanged, OutChanged, InHand
<1>8. /\ Callee(l, b, n) = contexts[graph[e]]
      /\ CallIn(l, b, n) = SLIM_IN[e[1]][e[2]] /\ CallOut(l, b, n) = SLIM_OUT[e[1]][e[2]]
      /\ InflowAt(l, b, n) =
           CallInflow(CodeAt(e[2]), SLIM_IN[e[1]][e[2]].f, SLIM_OUT[e[1]][e[2]].b, Globals,
                      ReturnOperand(program[CodeAt(e[2]).rhs]))
  BY <1>2, <1>4 DEF Callee, CallIn, CallOut, InflowAt
<1>9. EnteredWith(e) \/ Queued(backward_worklist, l, b) \/ Queued(forward_worklist, l, b)
  <2>1. Callee(l, b, n).inflow = InflowAt(l, b, n) \/ Anew(forward_worklist, l, b)
    BY <1>6, <1>7 DEF Agrees, Entered
  <2>2. Anew(forward_worklist, l, b) => Queued(forward_worklist, l, b)
    BY DEF Anew, Queued, Element
  <2>. QED  BY <1>8, <2>1, <2>2 DEF EnteredWith
<1>10. Unmarked /\ n = 1 => NeedsTaken(e) \/ Queued(backward_worklist, l, b)
  BY <1>6, <1>7, <1>8 DEF Agrees, Needs, NeedsTaken
<1>11. ResultsTaken(e) \/ Queued(forward_worklist, l, b)
  BY <1>6, <1>7, <1>8 DEF Agrees, Returns, ResultsTaken
<1>. QED  BY <1>2, <1>3, <1>9, <1>10, <1>11

LEMMA AgreesImplies ==
  ASSUME Typed, AllAgree
  PROVE  /\ EveryBlockQueued \/ marked \subseteq Global => CallsCurrent
         /\ marked \subseteq Global => NeedsCurrent
<1>1. marked \subseteq Global => Unmarked
  BY DEF Unmarked, Globals
<1>2. EveryBlockQueued \/ marked \subseteq Global => CallsCurrent
  BY <1>1, AgreesThere DEF AllAgree, CallsCurrent
<1>3. marked \subseteq Global => NeedsCurrent
  BY <1>1, AgreesThere DEF AllAgree, NeedsCurrent
<1>. QED  BY <1>2, <1>3

LEMMA CallsInvariant ==
  Spec => [](Typed /\ AllAgree)
<1> DEFINE Inv == Typed /\ CallsRecorded /\ ContextsUnique /\ AllTold /\ AllLearnt /\ AllAgree
<1>1. Init => Inv
  <2>. SUFFICES ASSUME Init PROVE Inv
    OBVIOUS
  <2>1. Typed /\ CallsRecorded /\ AllTold /\ AllPending(0)
    BY InitTyped, RecordedInit, ToldInit, InitPending
  <2>2. ContextsUnique
    BY DEF Init, ContextsUnique, Labels
  <2>3. AllLearnt /\ AllAgree
    BY <2>1, LearntInit, AgreesInit
  <2>. QED  BY <2>1, <2>2, <2>3
<1>2. Inv /\ [Next]_vars => Inv'
  BY NextTyped, RecordedNext, UniqueNext, ToldNext, LearntNext, AgreesNext
<1>. QED  BY <1>1, <1>2, PTL DEF Spec

(* No result is lost between a call and its callee: where every block of the *)
(* program is queued, or what functions return is global anyway, every       *)
(* recorded call of a block that splitting left with it alone was entered    *)
(* with what flows into it now and has all its callee returns of what is     *)
(* live, or its block is queued (Analysis.h 4541, 5826).                     *)
THEOREM CallsAgree == Spec => [](EveryBlockQueued \/ marked \subseteq Global => CallsCurrent)
BY CallsInvariant, AgreesImplies, PTL

(* What a callee needs is live before a call that starts its block, or the   *)
(* block comes again backwards: as long as what functions return is global   *)
(* anyway (Analysis.h 4586, 5069).                                           *)
THEOREM NeedsAgree == Spec => [](marked \subseteq Global => NeedsCurrent)
BY CallsInvariant, AgreesImplies, PTL
=============================================================================
