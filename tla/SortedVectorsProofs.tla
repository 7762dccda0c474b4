------------------------- MODULE SortedVectorsProofs -------------------------
(***************************************************************************)
(* Theorems about SortedVectors, for every set of integer keys, every child *)
(* and every threshold: the merge loops compute the set operations on       *)
(* sorted vectors, the two searches find the same keys, and the integrity   *)
(* check accepts what the loops rely on.                                    *)
(***************************************************************************)
EXTENDS SortedVectors, SequenceTheorems, FiniteSetTheorems,
        WellFoundedInduction, TLAPS

-----------------------------------------------------------------------------
(* Vectors *)

(* The elements before position n.                                          *)
Passed(c, n) == {c[i] : i \in 1 .. n - 1}

(* All elements of S are smaller than those of T.                           *)
Before(S, T) == \A e \in S, f \in T : e.key < f.key

LEMMA ElementKeys ==
  \A e \in Element : e.key \in Int
BY VectorAssumption DEF Element

(* Appended vectors hold the elements of both.                              *)
LEMMA ConcatElements ==
  ASSUME NEW c \in Seq(Element), NEW d \in Seq(Element)
  PROVE  /\ c \o d \in Seq(Element)
         /\ Elements(c \o d) = Elements(c) \cup Elements(d)
<1>1. c \o d \in Seq(Element) /\ Len(c \o d) = Len(c) + Len(d)
  OBVIOUS
<1>2. \A i \in 1 .. Len(c) + Len(d) :
        (c \o d)[i] = IF i <= Len(c) THEN c[i] ELSE d[i - Len(c)]
  OBVIOUS
<1>3. Elements(c \o d) \subseteq Elements(c) \cup Elements(d)
  <2> SUFFICES ASSUME NEW i \in 1 .. Len(c) + Len(d)
               PROVE  (c \o d)[i] \in Elements(c) \cup Elements(d)
    BY <1>1 DEF Elements
  <2>1. CASE i <= Len(c)
    BY <2>1, <1>2 DEF Elements
  <2>2. CASE ~(i <= Len(c))
    <3>1. i - Len(c) \in 1 .. Len(d) /\ (c \o d)[i] = d[i - Len(c)]
      BY <2>2, <1>2
    <3> QED BY <3>1 DEF Elements
  <2> QED BY <2>1, <2>2
<1>4. Elements(c) \subseteq Elements(c \o d)
  <2> SUFFICES ASSUME NEW i \in 1 .. Len(c)
               PROVE  c[i] \in Elements(c \o d)
    BY DEF Elements
  <2>1. i \in 1 .. Len(c \o d) /\ (c \o d)[i] = c[i]
    BY <1>1, <1>2
  <2> QED BY <2>1 DEF Elements
<1>5. Elements(d) \subseteq Elements(c \o d)
  <2> SUFFICES ASSUME NEW i \in 1 .. Len(d)
               PROVE  d[i] \in Elements(c \o d)
    BY DEF Elements
  <2>1. i + Len(c) \in 1 .. Len(c \o d) /\ (c \o d)[i + Len(c)] = d[i]
    BY <1>1, <1>2
  <2> QED BY <2>1 DEF Elements
<1> QED BY <1>1, <1>3, <1>4, <1>5

(* A property set before another makes a property set with it.              *)
LEMMA ConcatSorted ==
  ASSUME NEW c \in Seq(Element), NEW d \in Seq(Element),
         IsPropertySet(c), IsPropertySet(d), Before(Elements(c), Elements(d))
  PROVE  IsPropertySet(c \o d)
<1>1. Len(c \o d) = Len(c) + Len(d)
  OBVIOUS
<1> SUFFICES ASSUME NEW i \in 1 .. Len(c) + Len(d), NEW j \in 1 .. Len(c) + Len(d),
                    i < j
             PROVE  (c \o d)[i].key < (c \o d)[j].key
  BY <1>1 DEF IsPropertySet, less
<1>2. \A n \in 1 .. Len(c) + Len(d) :
        (c \o d)[n] = IF n <= Len(c) THEN c[n] ELSE d[n - Len(c)]
  OBVIOUS
<1>3. CASE j <= Len(c)
  <2>1. (c \o d)[i] = c[i] /\ (c \o d)[j] = c[j]
    BY <1>2, <1>3
  <2> QED BY <2>1, <1>3 DEF IsPropertySet, less
<1>4. CASE i <= Len(c) /\ ~(j <= Len(c))
  <2>1. (c \o d)[i] = c[i] /\ (c \o d)[j] = d[j - Len(c)]
    BY <1>2, <1>4
  <2>2. c[i] \in Elements(c) /\ d[j - Len(c)] \in Elements(d)
    BY <1>4 DEF Elements
  <2> QED BY <2>1, <2>2 DEF Before
<1>5. CASE ~(i <= Len(c))
  <2>1. (c \o d)[i] = d[i - Len(c)] /\ (c \o d)[j] = d[j - Len(c)]
    BY <1>2, <1>5
  <2>2. i - Len(c) \in 1 .. Len(d) /\ j - Len(c) \in 1 .. Len(d)
    BY <1>5
  <2> QED BY <2>1, <2>2 DEF IsPropertySet, less
<1> QED BY <1>3, <1>4, <1>5

(* The rest of a vector is sorted, and holds the elements from the cursor.  *)
LEMMA RestOfVector ==
  ASSUME NEW c \in Seq(Element), IsPropertySet(c), NEW n \in 1 .. Len(c) + 1
  PROVE  /\ Rest(c, n) \in Seq(Element)
         /\ IsPropertySet(Rest(c, n))
         /\ Elements(Rest(c, n)) = {c[i] : i \in n .. Len(c)}
<1> DEFINE r == Rest(c, n)
<1>1. /\ r \in Seq(Element)
      /\ Len(r) = Len(c) - n + 1
      /\ \A i \in 1 .. Len(r) : r[i] = c[n + i - 1]
  <2> DEFINE m == Len(c)
  <2>1. n \in Int /\ m \in Int /\ n <= m + 1 /\ \A i \in n .. m : c[i] \in Element
    OBVIOUS
  <2>2. /\ SubSeq(c, n, m) \in Seq(Element)
        /\ Len(SubSeq(c, n, m)) = IF n <= m THEN m - n + 1 ELSE 0
        /\ \A i \in 1 .. m - n + 1 : SubSeq(c, n, m)[i] = c[n + i - 1]
    BY <2>1, SubSeqProperties
  <2> QED BY <2>1, <2>2 DEF Rest
<1>2. IsPropertySet(r)
  <2> SUFFICES ASSUME NEW i \in 1 .. Len(r), NEW j \in 1 .. Len(r), i < j
               PROVE  r[i].key < r[j].key
    BY DEF IsPropertySet, less
  <2>1. /\ n + i - 1 \in 1 .. Len(c) /\ n + j - 1 \in 1 .. Len(c)
        /\ n + i - 1 < n + j - 1
    BY <1>1
  <2> QED BY <2>1, <1>1 DEF IsPropertySet, less
<1>3. Elements(r) \subseteq {c[i] : i \in n .. Len(c)}
  <2> SUFFICES ASSUME NEW i \in 1 .. Len(r)
               PROVE  \E k \in n .. Len(c) : r[i] = c[k]
    BY DEF Elements
  <2>1. n + i - 1 \in n .. Len(c) /\ r[i] = c[n + i - 1]
    BY <1>1
  <2> QED BY <2>1
<1>4. {c[i] : i \in n .. Len(c)} \subseteq Elements(r)
  <2> SUFFICES ASSUME NEW k \in n .. Len(c)
               PROVE  \E i \in 1 .. Len(r) : r[i] = c[k]
    BY DEF Elements
  <2>1. k - n + 1 \in 1 .. Len(r) /\ r[k - n + 1] = c[k]
    BY <1>1
  <2> QED BY <2>1
<1> QED BY <1>1, <1>2, <1>3, <1>4

-----------------------------------------------------------------------------
(* Results of the operations, as sets *)

(* A combined element keeps its key.                                        *)
LEMMA CombinedElement ==
  ASSUME NEW c \in Call, c.op \in BinaryOps,
         NEW e \in Element, NEW f \in Element
  PROVE  combined(c, e, f) \in Element /\ combined(c, e, f).key = e.key
<1>1. c.nested =>
        Child[<<c.op, e.value, f.value>>] \in Value
  BY VectorAssumption DEF Element
<1>2. CASE c.nested
  BY <1>1, <1>2 DEF combined, Element
<1>3. CASE ~c.nested
  BY <1>3 DEF combined
<1> QED BY <1>2, <1>3

(* The result for no elements is empty.                                     *)
LEMMA ResultOfNothing ==
  ASSUME NEW c \in Call, c.op \in BinaryOps
  PROVE  Result(c, {}, {}) = {}
BY DEF Result, Only, Both, Matches, Keys, BinaryOps

(* Elements R of the first operand whose keys the second has not, so far.   *)
LEMMA ResultFirst ==
  ASSUME NEW c \in Call, c.op \in BinaryOps, NEW S, NEW T, NEW R,
         \A e \in R, f \in T : e.key # f.key
  PROVE  Result(c, S \cup R, T) =
           Result(c, S, T) \cup (IF c.op = "set_intersection" THEN {} ELSE R)
<1>1. Only(S \cup R, T) = Only(S, T) \cup R
  BY DEF Only, Keys
<1>2. Only(T, S \cup R) = Only(T, S)
  BY DEF Only, Keys
<1>3. Both(c, S \cup R, T) = Both(c, S, T)
  <2>1. Matches(S \cup R, T) = Matches(S, T)
    BY DEF Matches
  <2> QED BY <2>1 DEF Both
<1> QED BY <1>1, <1>2, <1>3, Zenon DEF Result, BinaryOps

(* Elements R of the second operand whose keys the first has not, so far.   *)
LEMMA ResultSecond ==
  ASSUME NEW c \in Call, c.op \in BinaryOps, NEW S, NEW T, NEW R,
         \A f \in R, e \in S : f.key # e.key
  PROVE  Result(c, S, T \cup R) =
           Result(c, S, T) \cup (IF c.op # "set_union" THEN {} ELSE R)
<1>1. Only(S, T \cup R) = Only(S, T)
  BY DEF Only, Keys
<1>2. Only(T \cup R, S) = Only(T, S) \cup R
  BY DEF Only, Keys
<1>3. Both(c, S, T \cup R) = Both(c, S, T)
  <2>1. Matches(S, T \cup R) = Matches(S, T)
    BY DEF Matches
  <2> QED BY <2>1 DEF Both
<1> QED BY <1>1, <1>2, <1>3, Zenon DEF Result, BinaryOps

(* The set of one element, kept folded where lemmas are instantiated.       *)
Just(e) == {e}

(* Elements e and f of one key that neither operand had so far.             *)
LEMMA ResultBoth ==
  ASSUME NEW c \in Call, c.op \in BinaryOps, NEW S, NEW T, NEW e, NEW f,
         e.key = f.key,
         \A g \in S \cup T : g.key # e.key
  PROVE  Result(c, S \cup Just(e), T \cup Just(f)) =
           Result(c, S, T) \cup
             (IF c.op = "set_difference" /\ ~c.nested
                THEN {} ELSE Just(combined(c, e, f)))
<1>1. Only(S \cup Just(e), T \cup Just(f)) = Only(S, T)
  BY DEF Only, Keys, Just
<1>2. Only(T \cup Just(f), S \cup Just(e)) = Only(T, S)
  BY DEF Only, Keys, Just
<1>3. Both(c, S \cup Just(e), T \cup Just(f)) = Both(c, S, T) \cup Just(combined(c, e, f))
  <2>1. Matches(S \cup Just(e), T \cup Just(f)) \subseteq Matches(S, T) \cup {<<e, f>>}
    <3> SUFFICES ASSUME NEW g \in S \cup {e}, NEW h \in T \cup {f}, g.key = h.key
                 PROVE  <<g, h>> \in Matches(S, T) \cup {<<e, f>>}
      BY DEF Matches, Just
    <3>1. CASE g = e
      <4>1. h = f
        BY <3>1
      <4> QED BY <3>1, <4>1
    <3>2. CASE g # e
      <4>1. g \in S /\ h \in T
        BY <3>2
      <4> QED BY <4>1 DEF Matches
    <3> QED BY <3>1, <3>2
  <2>2. Matches(S, T) \cup {<<e, f>>} \subseteq Matches(S \cup Just(e), T \cup Just(f))
    BY DEF Matches, Just
  <2>3. Matches(S \cup Just(e), T \cup Just(f)) = Matches(S, T) \cup {<<e, f>>}
    BY <2>1, <2>2
  <2> DEFINE p == <<e, f>>
             both(x) == combined(c, x[1], x[2])
  <2>4. Both(c, S \cup Just(e), T \cup Just(f)) = {both(x) : x \in Matches(S, T) \cup {p}}
    BY <2>3 DEF Both
  <2>5. Both(c, S, T) = {both(x) : x \in Matches(S, T)}
    BY DEF Both
  <2>6. both(p) = combined(c, e, f)
    OBVIOUS
  <2> HIDE DEF p, both
  <2> QED BY <2>4, <2>5, <2>6 DEF Just
<1>4. CASE c.op = "set_union"
  BY <1>1, <1>2, <1>3, <1>4, Zenon DEF Result
<1>5. CASE c.op = "set_intersection"
  BY <1>3, <1>5, Zenon DEF Result
<1>6. CASE c.op = "set_difference" /\ c.nested
  BY <1>1, <1>3, <1>6, Zenon DEF Result
<1>7. CASE c.op = "set_difference" /\ ~c.nested
  BY <1>1, <1>7, Zenon DEF Result
<1> QED BY <1>4, <1>5, <1>6, <1>7 DEF BinaryOps

-----------------------------------------------------------------------------
(* The loop invariant: P and Q are the elements that the cursors have       *)
(* passed, A and B those still ahead, v is what has been pushed.            *)
Merging(c, P, A, Q, B, v) ==
  /\ A \subseteq Element /\ B \subseteq Element
  /\ P \subseteq Element /\ Q \subseteq Element
  /\ v \in Seq(Element)
  /\ Before(P, A) /\ Before(P, B) /\ Before(Q, A) /\ Before(Q, B)
  /\ IsPropertySet(v)
  /\ Before(Elements(v), A \cup B)
  /\ Elements(v) = Result(c, P, Q)

(* Pushing at most one element, which is before all that is ahead.          *)
LEMMA PushOne ==
  ASSUME NEW v \in Seq(Element), IsPropertySet(v), NEW e \in Element, Before(Elements(v), Just(e))
  PROVE  /\ v \o <<e>> \in Seq(Element)
         /\ IsPropertySet(v \o <<e>>)
         /\ Elements(v \o <<e>>) = Elements(v) \cup Just(e)
<1>1. <<e>> \in Seq(Element) /\ Len(<<e>>) = 1 /\ <<e>>[1] = e
  OBVIOUS
<1>2. Elements(<<e>>) = Just(e)
  BY <1>1 DEF Elements, Just
<1>3. IsPropertySet(<<e>>)
  BY <1>1 DEF IsPropertySet
<1> QED BY <1>1, <1>2, <1>3, ConcatElements, ConcatSorted

LEMMA PushNothing ==
  ASSUME NEW v \in Seq(Element)
  PROVE  v \o <<>> = v
OBVIOUS

(* The first cursor moves over e, which the second operand has not.         *)
LEMMA AdvanceFirst ==
  ASSUME NEW c \in Call, c.op \in BinaryOps,
         NEW P, NEW A, NEW Q, NEW B, NEW v, NEW e,
         Merging(c, P, Just(e) \cup A, Q, B, v), Before(Just(e), A), Before(Just(e), B)
  PROVE  Merging(c, P \cup Just(e), A, Q, B,
                 v \o (IF c.op = "set_intersection" THEN <<>> ELSE <<e>>))
<1> USE DEF Merging
<1>0. e \in Element /\ Just(e) \subseteq Element
  BY DEF Just
<1>1. \A g \in Just(e), f \in Q : g.key # f.key
  <2> SUFFICES ASSUME NEW f \in Q PROVE f.key < e.key
    BY <1>0, ElementKeys DEF Just
  <2> QED BY DEF Before, Just
<1>2. Result(c, P \cup Just(e), Q) =
        Result(c, P, Q) \cup (IF c.op = "set_intersection" THEN {} ELSE Just(e))
  BY ONLY <1>1, ResultFirst, c \in Call, c.op \in BinaryOps
<1>3. Before(P \cup Just(e), A) /\ Before(P \cup Just(e), B) /\ Before(Elements(v), Just(e))
  BY DEF Before, Just
<1>4. CASE c.op = "set_intersection"
  <2>1. Before(Elements(v), A \cup B) /\ Before(Q, A)
    BY DEF Before, Just
  <2> QED BY <1>0, <1>2, <1>3, <1>4, <2>1, PushNothing
<1>5. CASE c.op # "set_intersection"
  <2>1. Before(Elements(v) \cup Just(e), A \cup B) /\ Before(Q, A)
    BY DEF Before, Just
  <2> QED BY <1>0, <1>2, <1>3, <1>5, <2>1, PushOne
<1> QED BY <1>4, <1>5

(* The second cursor moves over f, which the first operand has not.         *)
LEMMA AdvanceSecond ==
  ASSUME NEW c \in Call, c.op \in BinaryOps,
         NEW P, NEW A, NEW Q, NEW B, NEW v, NEW f,
         Merging(c, P, A, Q, Just(f) \cup B, v), Before(Just(f), A), Before(Just(f), B)
  PROVE  Merging(c, P, A, Q \cup Just(f), B,
                 v \o (IF c.op = "set_union" THEN <<f>> ELSE <<>>))
<1> USE DEF Merging
<1>0. f \in Element /\ Just(f) \subseteq Element
  BY DEF Just
<1>1. \A g \in Just(f), e \in P : g.key # e.key
  <2> SUFFICES ASSUME NEW e \in P PROVE e.key < f.key
    BY <1>0, ElementKeys DEF Just
  <2> QED BY DEF Before, Just
<1>2. Result(c, P, Q \cup Just(f)) =
        Result(c, P, Q) \cup (IF c.op # "set_union" THEN {} ELSE Just(f))
  BY ONLY <1>1, ResultSecond, c \in Call, c.op \in BinaryOps
<1>3. Before(Q \cup Just(f), A) /\ Before(Q \cup Just(f), B) /\ Before(Elements(v), Just(f))
  BY DEF Before, Just
<1>4. CASE c.op # "set_union"
  <2>1. Before(Elements(v), A \cup B) /\ Before(P, B)
    BY DEF Before, Just
  <2> QED BY <1>0, <1>2, <1>3, <1>4, <2>1, PushNothing
<1>5. CASE c.op = "set_union"
  <2>1. Before(Elements(v) \cup Just(f), A \cup B) /\ Before(P, B)
    BY DEF Before, Just
  <2> QED BY <1>0, <1>2, <1>3, <1>5, <2>1, PushOne
<1> QED BY <1>4, <1>5

(* Both cursors move over elements with one key.                            *)
LEMMA AdvanceBoth ==
  ASSUME NEW c \in Call, c.op \in BinaryOps,
         NEW P, NEW A, NEW Q, NEW B, NEW v,
         NEW e, NEW f,
         Merging(c, P, Just(e) \cup A, Q, Just(f) \cup B, v),
         e.key = f.key, Before(Just(e), A), Before(Just(f), B)
  PROVE  Merging(c, P \cup Just(e), A, Q \cup Just(f), B,
                 v \o (IF c.op = "set_difference" /\ ~c.nested
                         THEN <<>> ELSE <<combined(c, e, f)>>))
<1> USE DEF Merging
<1> DEFINE g == combined(c, e, f)
<1>0. /\ e \in Element /\ Just(e) \subseteq Element
      /\ f \in Element /\ Just(f) \subseteq Element
  BY DEF Just
<1>1. \A h \in P \cup Q : h.key # e.key
  <2> SUFFICES ASSUME NEW h \in P \cup Q PROVE h.key < e.key
    BY <1>0, ElementKeys DEF Just
  <2> QED BY DEF Before, Just
<1>2. Result(c, P \cup Just(e), Q \cup Just(f)) =
        Result(c, P, Q) \cup
          (IF c.op = "set_difference" /\ ~c.nested THEN {} ELSE Just(g))
  BY ONLY <1>1, ResultBoth, c \in Call, c.op \in BinaryOps, e.key = f.key DEF g
<1>3. g \in Element /\ g.key = e.key
  BY <1>0, CombinedElement
<1> HIDE DEF g
<1>4. /\ Before(P \cup Just(e), A) /\ Before(P \cup Just(e), B)
      /\ Before(Q \cup Just(f), A) /\ Before(Q \cup Just(f), B)
      /\ Before(Elements(v), Just(g)) /\ Before(Elements(v), A \cup B)
      /\ Before(Elements(v) \cup Just(g), A \cup B)
  BY <1>3 DEF Before, Just
<1>5. CASE c.op = "set_difference" /\ ~c.nested
  BY <1>0, <1>2, <1>4, <1>5, PushNothing
<1>6. CASE ~(c.op = "set_difference" /\ ~c.nested)
  BY <1>0, <1>2, <1>3, <1>4, <1>6, PushOne DEF g
<1> QED BY <1>5, <1>6

(* The second operand has come to its end.                                  *)
LEMMA FinishFirst ==
  ASSUME NEW c \in Call, c.op \in BinaryOps,
         NEW P, NEW A, NEW Q, NEW v, NEW r \in Seq(Element),
         Merging(c, P, A, Q, {}, v), IsPropertySet(r),
         Elements(r) = IF c.op = "set_intersection" THEN {} ELSE A
  PROVE  /\ v \o r \in Seq(Element)
         /\ IsPropertySet(v \o r)
         /\ Elements(v \o r) = Result(c, P \cup A, Q)
<1> USE DEF Merging
<1>1. \A e \in A, f \in Q : e.key # f.key
  <2> SUFFICES ASSUME NEW e \in A, NEW f \in Q PROVE f.key < e.key
    BY ElementKeys
  <2> QED BY DEF Before
<1>2. Result(c, P \cup A, Q) =
        Result(c, P, Q) \cup (IF c.op = "set_intersection" THEN {} ELSE A)
  BY ONLY <1>1, ResultFirst, c \in Call, c.op \in BinaryOps
<1>3. Before(Elements(v), Elements(r))
  BY DEF Before
<1> QED BY <1>2, <1>3, ConcatElements, ConcatSorted

(* The first operand has come to its end.                                   *)
LEMMA FinishSecond ==
  ASSUME NEW c \in Call, c.op \in BinaryOps,
         NEW P, NEW Q, NEW B, NEW v, NEW r \in Seq(Element),
         Merging(c, P, {}, Q, B, v), IsPropertySet(r),
         Elements(r) = IF c.op # "set_union" THEN {} ELSE B
  PROVE  /\ v \o r \in Seq(Element)
         /\ IsPropertySet(v \o r)
         /\ Elements(v \o r) = Result(c, P, Q \cup B)
<1> USE DEF Merging
<1>1. \A f \in B, e \in P : f.key # e.key
  <2> SUFFICES ASSUME NEW f \in B, NEW e \in P PROVE e.key < f.key
    BY ElementKeys
  <2> QED BY DEF Before
<1>2. Result(c, P, Q \cup B) =
        Result(c, P, Q) \cup (IF c.op # "set_union" THEN {} ELSE B)
  BY ONLY <1>1, ResultSecond, c \in Call, c.op \in BinaryOps
<1>3. Before(Elements(v), Elements(r))
  BY DEF Before
<1> QED BY <1>2, <1>3, ConcatElements, ConcatSorted

-----------------------------------------------------------------------------
(* Cursors *)

(* The elements from position n on.                                         *)
Ahead(c, n) == {c[i] : i \in n .. Len(c)}

(* A cursor that is not at the end is at the smallest element ahead.        *)
LEMMA AtCursor ==
  ASSUME NEW c \in Seq(Element), IsPropertySet(c), NEW n \in 1 .. Len(c)
  PROVE  /\ c[n] \in Element
         /\ n + 1 \in 1 .. Len(c) + 1
         /\ Ahead(c, n) = Just(c[n]) \cup Ahead(c, n + 1)
         /\ Passed(c, n + 1) = Passed(c, n) \cup Just(c[n])
         /\ Before(Just(c[n]), Ahead(c, n + 1))
<1>1. Ahead(c, n) = Just(c[n]) \cup Ahead(c, n + 1)
  <2>1. \A i \in n .. Len(c) : i = n \/ i \in n + 1 .. Len(c)
    OBVIOUS
  <2>2. n \in n .. Len(c) /\ \A i \in n + 1 .. Len(c) : i \in n .. Len(c)
    OBVIOUS
  <2> QED BY <2>1, <2>2 DEF Ahead, Just
<1>2. Passed(c, n + 1) = Passed(c, n) \cup Just(c[n])
  <2>1. \A i \in 1 .. (n + 1) - 1 : i = n \/ i \in 1 .. n - 1
    OBVIOUS
  <2>2. n \in 1 .. (n + 1) - 1 /\ \A i \in 1 .. n - 1 : i \in 1 .. (n + 1) - 1
    OBVIOUS
  <2> QED BY <2>1, <2>2 DEF Passed, Just
<1>3. Before(Just(c[n]), Ahead(c, n + 1))
  <2> SUFFICES ASSUME NEW i \in n + 1 .. Len(c) PROVE c[n].key < c[i].key
    BY DEF Before, Just, Ahead
  <2> QED BY DEF IsPropertySet, less
<1> QED BY <1>1, <1>2, <1>3

(* The cursor of the other operand is at a larger element.                  *)
LEMMA BeforeCursor ==
  ASSUME NEW c \in Seq(Element), IsPropertySet(c), NEW n \in 1 .. Len(c),
         NEW e \in Element, less(e, c[n])
  PROVE  Before(Just(e), Ahead(c, n))
<1> SUFFICES ASSUME NEW i \in n .. Len(c) PROVE e.key < c[i].key
  BY DEF Before, Just, Ahead
<1>1. c[n] \in Element /\ c[i] \in Element
  OBVIOUS
<1>2. i = n \/ c[n].key < c[i].key
  BY DEF IsPropertySet, less
<1> QED BY <1>1, <1>2, ElementKeys DEF less

(* At the beginning all is ahead, at the end all is passed.                 *)
LEMMA AtEnds ==
  ASSUME NEW c \in Seq(Element)
  PROVE  /\ Passed(c, 1) = {} /\ Ahead(c, 1) = Elements(c)
         /\ Passed(c, Len(c) + 1) = Elements(c) /\ Ahead(c, Len(c) + 1) = {}
         /\ \A n \in 1 .. Len(c) + 1 : Elements(c) = Passed(c, n) \cup Ahead(c, n)
<1>1. \A n \in 1 .. Len(c) + 1 : Elements(c) = Passed(c, n) \cup Ahead(c, n)
  <2> SUFFICES ASSUME NEW n \in 1 .. Len(c) + 1
               PROVE  Elements(c) = Passed(c, n) \cup Ahead(c, n)
    OBVIOUS
  <2>1. \A i \in 1 .. Len(c) : i \in 1 .. n - 1 \/ i \in n .. Len(c)
    OBVIOUS
  <2>2. /\ \A i \in 1 .. n - 1 : i \in 1 .. Len(c)
        /\ \A i \in n .. Len(c) : i \in 1 .. Len(c)
    OBVIOUS
  <2> QED BY <2>1, <2>2 DEF Elements, Passed, Ahead
<1>2. Passed(c, 1) = {} /\ Ahead(c, Len(c) + 1) = {}
  BY DEF Passed, Ahead
<1>3. 1 \in 1 .. Len(c) + 1 /\ Len(c) + 1 \in 1 .. Len(c) + 1
  OBVIOUS
<1>4. Elements(c) = {} \cup Ahead(c, 1) /\ Elements(c) = Passed(c, Len(c) + 1) \cup {}
  BY <1>1, <1>2, <1>3
<1> QED BY <1>1, <1>2, <1>4

-----------------------------------------------------------------------------
(* The inductive invariant: what holds where the call is                    *)

InPrepare ==
  pc = "prepare_vector_set" =>
    call.op = "prepare_vector_set" /\ cursor_1 = 1

(* The elements that the check has passed are in order; a prepared vector   *)
(* holds the elements of the caller's, each once, sorted by key.            *)
InCheck ==
  pc = "verify" =>
    /\ call.op \in {"register_set", "prepare_vector_set"}
    /\ cursor_1 \in 1 .. Len(new_set) + 1
    /\ \A i, j \in 1 .. cursor_1 - 1 : i < j => less(new_set[i], new_set[j])
    /\ call.op = "prepare_vector_set" =>
         /\ Elements(new_set) = Elements(first)
         /\ \A i, j \in 1 .. Len(new_set) :
              i < j => new_set[i] # new_set[j] /\ ~less(new_set[j], new_set[i])

InLoop ==
  pc \in BinaryOps =>
    /\ call.op = pc
    /\ cursor_1 \in 1 .. Len(first) + 1
    /\ cursor_2 \in 1 .. Len(second) + 1
    /\ Merging(call, Passed(first, cursor_1), Ahead(first, cursor_1),
               Passed(second, cursor_2), Ahead(second, cursor_2), new_set)

(* The key is not among the elements that a search has left out.            *)
InSearch ==
  /\ pc = "linear" =>
       /\ call.op = "find_key"
       /\ cursor_1 \in 1 .. Len(first) + 1
       /\ \A i \in 1 .. cursor_1 - 1 : first[i].key # call.key
  /\ pc = "binary" =>
       /\ call.op = "find_key"
       /\ 1 <= low /\ high <= Len(first)
       /\ \A i \in 1 .. Len(first) :
            first[i].key = call.key => low <= i /\ i <= high

IInv ==
  /\ TypeOK
  /\ InPrepare /\ InCheck /\ InLoop /\ InSearch
  /\ MergedRight /\ SearchedRight /\ CheckedRight

(* A call's operands.                                                       *)
LEMMA Operands ==
  ASSUME NEW c \in Call
  PROVE  /\ c.first \in Seq(Element) /\ c.second \in Seq(Element)
         /\ c.key \in Property /\ c.key \in Int
         /\ c.op \in BinaryOps \cup {"find_key"} =>
              IsPropertySet(c.first) /\ IsPropertySet(c.second)
BY VectorAssumption DEF Call

LEMMA Initially == Init => IInv
<1> SUFFICES ASSUME Init PROVE IInv
  OBVIOUS
<1> USE DEF Init, Start, first, second
<1>1. call \in Call
  OBVIOUS
<1>2. /\ first \in Seq(Element) /\ second \in Seq(Element)
      /\ call.op \in BinaryOps \cup {"find_key"} =>
           IsPropertySet(first) /\ IsPropertySet(second)
  BY <1>1, Operands
<1>3. call.op \in {"prepare_vector_set", "register_set", "find_key"} \cup BinaryOps
  BY DEF Call
<1>4. \/ pc = call.op /\ call.op \in BinaryOps \cup {"prepare_vector_set"}
      \/ pc = "verify" /\ call.op = "register_set"
      \/ pc \in {"linear", "binary"} /\ call.op = "find_key"
  <2>1. CASE call.op \in BinaryOps \cup {"prepare_vector_set"}
    BY <2>1
  <2>2. CASE call.op = "register_set"
    BY <2>2 DEF BinaryOps
  <2>3. CASE call.op = "find_key"
    BY <2>3 DEF BinaryOps
  <2> QED BY <1>3, <2>1, <2>2, <2>3
<1>5. TypeOK
  <2>1. new_set \in Seq(Element)
    BY <1>2
  <2> QED BY <1>1, <1>2, <1>4, <2>1 DEF TypeOK, BinaryOps
<1>6. InPrepare /\ InSearch
  BY <1>2, <1>4 DEF InPrepare, InSearch, BinaryOps
<1>7. InCheck
  BY <1>2, <1>4 DEF InCheck, BinaryOps
<1>8. InLoop
  <2> SUFFICES ASSUME pc \in BinaryOps
               PROVE  /\ call.op = pc
                      /\ 1 \in 1 .. Len(first) + 1 /\ 1 \in 1 .. Len(second) + 1
                      /\ Merging(call, Passed(first, 1), Ahead(first, 1),
                                 Passed(second, 1), Ahead(second, 1), <<>>)
    BY DEF InLoop, BinaryOps
  <2>1. call.op = pc
    BY <1>4 DEF BinaryOps
  <2>2. /\ Passed(first, 1) = {} /\ Passed(second, 1) = {}
        /\ Ahead(first, 1) \subseteq Element /\ Ahead(second, 1) \subseteq Element
    BY <1>2, AtEnds DEF Ahead
  <2>3. Result(call, {}, {}) = {}
    BY <1>1, <2>1, ResultOfNothing
  <2>4. <<>> \in Seq(Element) /\ IsPropertySet(<<>>) /\ Elements(<<>>) = {}
    BY DEF IsPropertySet, Elements
  <2>5. 1 \in 1 .. Len(first) + 1 /\ 1 \in 1 .. Len(second) + 1
    BY <1>2
  <2>6. Merging(call, {}, Ahead(first, 1), {}, Ahead(second, 1), <<>>)
    BY <2>2, <2>3, <2>4 DEF Merging, Before
  <2> QED BY <2>1, <2>2, <2>5, <2>6
<1>9. MergedRight /\ SearchedRight /\ CheckedRight
  BY <1>4 DEF MergedRight, SearchedRight, CheckedRight, BinaryOps
<1> QED BY <1>5, <1>6, <1>7, <1>8, <1>9 DEF IInv

-----------------------------------------------------------------------------
(* The steps of a merge loop *)

(* A turn that keeps the loop invariant keeps the whole.                    *)
LEMMA TurnKeeps ==
  ASSUME IInv, pc \in BinaryOps,
         NEW s, NEW d1 \in {0, 1}, NEW d2 \in {0, 1}, Turn(s, d1, d2),
         cursor_1 + d1 \in 1 .. Len(first) + 1,
         cursor_2 + d2 \in 1 .. Len(second) + 1,
         Merging(call, Passed(first, cursor_1 + d1), Ahead(first, cursor_1 + d1),
                 Passed(second, cursor_2 + d2), Ahead(second, cursor_2 + d2),
                 new_set \o s)
  PROVE  IInv'
<1>1. /\ new_set' = new_set \o s
      /\ cursor_1' = cursor_1 + d1 /\ cursor_2' = cursor_2 + d2
      /\ call' = call /\ pc' = pc /\ low' = low /\ high' = high /\ found' = found
      /\ first' = first /\ second' = second
  BY DEF Turn, first, second
<1>2. TypeOK'
  BY <1>1 DEF IInv, TypeOK, Merging
<1>3. InLoop'
  BY <1>1 DEF IInv, InLoop
<1>4. pc' \notin {"prepare_vector_set", "verify", "linear", "binary", "done", "thrown"}
  BY <1>1 DEF BinaryOps
<1>5. /\ InPrepare' /\ InCheck' /\ InSearch'
      /\ MergedRight' /\ SearchedRight' /\ CheckedRight'
  BY <1>4 DEF InPrepare, InCheck, InSearch, MergedRight, SearchedRight, CheckedRight
<1> QED BY <1>2, <1>3, <1>5 DEF IInv

(* Leaving the loop with the right vector keeps the invariant.              *)
LEMMA LeaveKeeps ==
  ASSUME IInv, pc \in BinaryOps, NEW s, Leave(s),
         new_set \o s \in Seq(Element), IsPropertySet(new_set \o s),
         Elements(new_set \o s) = Result(call, Elements(first), Elements(second))
  PROVE  IInv'
<1>1. /\ new_set' = new_set \o s /\ pc' = "done" /\ call' = call
      /\ cursor_1' = cursor_1 /\ cursor_2' = cursor_2
      /\ low' = low /\ high' = high /\ found' = found
      /\ first' = first /\ second' = second
  BY DEF Leave, first, second
<1>2. TypeOK'
  BY <1>1 DEF IInv, TypeOK
<1>3. InPrepare' /\ InCheck' /\ InLoop' /\ InSearch'
  BY <1>1 DEF InPrepare, InCheck, InLoop, InSearch, BinaryOps
<1>4. MergedRight'
  BY <1>1 DEF MergedRight
<1>5. call'.op \in BinaryOps
  BY <1>1 DEF IInv, InLoop
<1>6. SearchedRight' /\ CheckedRight'
  BY <1>1, <1>5 DEF SearchedRight, CheckedRight, BinaryOps
<1> QED BY <1>2, <1>3, <1>4, <1>6 DEF IInv

(* The facts about a loop in progress.                                      *)
LEMMA InLoopFacts ==
  ASSUME IInv, pc \in BinaryOps
  PROVE  /\ call \in Call /\ call.op \in BinaryOps /\ call.op = pc
         /\ first \in Seq(Element) /\ second \in Seq(Element)
         /\ IsPropertySet(first) /\ IsPropertySet(second)
         /\ cursor_1 \in 1 .. Len(first) + 1
         /\ cursor_2 \in 1 .. Len(second) + 1
         /\ Merging(call, Passed(first, cursor_1), Ahead(first, cursor_1),
                    Passed(second, cursor_2), Ahead(second, cursor_2), new_set)
BY Operands DEF IInv, TypeOK, InLoop, first, second

LEMMA AtFirstStep ==
  ASSUME IInv, pc \in BinaryOps, AtFirst,
         Turn(IF call.op = "set_intersection" THEN <<>> ELSE <<first[cursor_1]>>, 1, 0)
  PROVE  IInv'
<1> DEFINE e == first[cursor_1]
<1>1. cursor_1 \in 1 .. Len(first) /\ cursor_2 \in 1 .. Len(second)
  BY InLoopFacts DEF AtFirst, More_1, More_2
<1>2. /\ e \in Element
      /\ cursor_1 + 1 \in 1 .. Len(first) + 1
      /\ Ahead(first, cursor_1) = Just(e) \cup Ahead(first, cursor_1 + 1)
      /\ Passed(first, cursor_1 + 1) = Passed(first, cursor_1) \cup Just(e)
      /\ Before(Just(e), Ahead(first, cursor_1 + 1))
  BY <1>1, InLoopFacts, AtCursor
<1>3. Before(Just(e), Ahead(second, cursor_2))
  BY <1>1, <1>2, InLoopFacts, BeforeCursor DEF AtFirst
<1>4. Merging(call, Passed(first, cursor_1) \cup Just(e), Ahead(first, cursor_1 + 1),
              Passed(second, cursor_2), Ahead(second, cursor_2),
              new_set \o (IF call.op = "set_intersection" THEN <<>> ELSE <<e>>))
  <2>1. Merging(call, Passed(first, cursor_1), Just(e) \cup Ahead(first, cursor_1 + 1),
                Passed(second, cursor_2), Ahead(second, cursor_2), new_set)
    BY <1>2, InLoopFacts
  <2> HIDE DEF e
  <2> QED BY <1>2, <1>3, <2>1, InLoopFacts, AdvanceFirst
<1>5. cursor_2 + 0 = cursor_2 /\ cursor_2 \in 1 .. Len(second) + 1
  BY <1>1, InLoopFacts
<1> QED BY <1>2, <1>4, <1>5, TurnKeeps

LEMMA AtSecondStep ==
  ASSUME IInv, pc \in BinaryOps, AtSecond,
         Turn(IF call.op = "set_union" THEN <<second[cursor_2]>> ELSE <<>>, 0, 1)
  PROVE  IInv'
<1> DEFINE f == second[cursor_2]
<1>1. cursor_1 \in 1 .. Len(first) /\ cursor_2 \in 1 .. Len(second)
  BY InLoopFacts DEF AtSecond, More_1, More_2
<1>2. /\ f \in Element
      /\ cursor_2 + 1 \in 1 .. Len(second) + 1
      /\ Ahead(second, cursor_2) = Just(f) \cup Ahead(second, cursor_2 + 1)
      /\ Passed(second, cursor_2 + 1) = Passed(second, cursor_2) \cup Just(f)
      /\ Before(Just(f), Ahead(second, cursor_2 + 1))
  BY <1>1, InLoopFacts, AtCursor
<1>3. Before(Just(f), Ahead(first, cursor_1))
  BY <1>1, <1>2, InLoopFacts, BeforeCursor DEF AtSecond
<1>4. Merging(call, Passed(first, cursor_1), Ahead(first, cursor_1),
              Passed(second, cursor_2) \cup Just(f), Ahead(second, cursor_2 + 1),
              new_set \o (IF call.op = "set_union" THEN <<f>> ELSE <<>>))
  <2>1. Merging(call, Passed(first, cursor_1), Ahead(first, cursor_1),
                Passed(second, cursor_2), Just(f) \cup Ahead(second, cursor_2 + 1), new_set)
    BY <1>2, InLoopFacts
  <2> HIDE DEF f
  <2> QED BY <1>2, <1>3, <2>1, InLoopFacts, AdvanceSecond
<1>5. cursor_1 + 0 = cursor_1 /\ cursor_1 \in 1 .. Len(first) + 1
  BY <1>1, InLoopFacts
<1> QED BY <1>2, <1>4, <1>5, TurnKeeps

LEMMA AtBothStep ==
  ASSUME IInv, pc \in BinaryOps, AtBoth,
         Turn(IF call.op = "set_difference" /\ ~call.nested
                THEN <<>> ELSE <<combined(call, first[cursor_1], second[cursor_2])>>,
              1, 1)
  PROVE  IInv'
<1> DEFINE e == first[cursor_1]
           f == second[cursor_2]
<1>1. cursor_1 \in 1 .. Len(first) /\ cursor_2 \in 1 .. Len(second)
  BY InLoopFacts DEF AtBoth, More_1, More_2
<1>2. /\ e \in Element
      /\ cursor_1 + 1 \in 1 .. Len(first) + 1
      /\ Ahead(first, cursor_1) = Just(e) \cup Ahead(first, cursor_1 + 1)
      /\ Passed(first, cursor_1 + 1) = Passed(first, cursor_1) \cup Just(e)
      /\ Before(Just(e), Ahead(first, cursor_1 + 1))
  BY <1>1, InLoopFacts, AtCursor
<1>3. /\ f \in Element
      /\ cursor_2 + 1 \in 1 .. Len(second) + 1
      /\ Ahead(second, cursor_2) = Just(f) \cup Ahead(second, cursor_2 + 1)
      /\ Passed(second, cursor_2 + 1) = Passed(second, cursor_2) \cup Just(f)
      /\ Before(Just(f), Ahead(second, cursor_2 + 1))
  BY <1>1, InLoopFacts, AtCursor
<1>4. e.key = f.key
  BY <1>2, <1>3, ElementKeys DEF AtBoth, less
<1>5. Merging(call, Passed(first, cursor_1) \cup Just(e), Ahead(first, cursor_1 + 1),
              Passed(second, cursor_2) \cup Just(f), Ahead(second, cursor_2 + 1),
              new_set \o (IF call.op = "set_difference" /\ ~call.nested
                            THEN <<>> ELSE <<combined(call, e, f)>>))
  <2>1. Merging(call, Passed(first, cursor_1), Just(e) \cup Ahead(first, cursor_1 + 1),
                Passed(second, cursor_2), Just(f) \cup Ahead(second, cursor_2 + 1), new_set)
    BY <1>2, <1>3, InLoopFacts
  <2> HIDE DEF e, f
  <2> QED BY <1>2, <1>3, <1>4, <2>1, InLoopFacts, AdvanceBoth
<1> QED BY <1>2, <1>3, <1>5, TurnKeeps

(* The second operand is at its end, and what is pushed is the rest of the  *)
(* first, except by an intersection.                                        *)
LEMMA LeaveFirst ==
  ASSUME IInv, pc \in BinaryOps, ~More_2,
         NEW s, s = IF call.op = "set_intersection" THEN <<>> ELSE Rest(first, cursor_1),
         Leave(s)
  PROVE  IInv'
<1>1. cursor_2 = Len(second) + 1
  BY InLoopFacts DEF More_2
<1>2. /\ Ahead(second, cursor_2) = {} /\ Passed(second, cursor_2) = Elements(second)
      /\ Elements(first) = Passed(first, cursor_1) \cup Ahead(first, cursor_1)
  BY <1>1, InLoopFacts, AtEnds
<1>3. /\ s \in Seq(Element) /\ IsPropertySet(s)
      /\ Elements(s) = IF call.op = "set_intersection" THEN {} ELSE Ahead(first, cursor_1)
  <2>1. CASE call.op = "set_intersection"
    BY <2>1 DEF IsPropertySet, Elements
  <2>2. CASE call.op # "set_intersection"
    BY <2>2, InLoopFacts, RestOfVector DEF Ahead
  <2> QED BY <2>1, <2>2
<1>4. Merging(call, Passed(first, cursor_1), Ahead(first, cursor_1),
              Elements(second), {}, new_set)
  BY <1>2, InLoopFacts
<1>5. /\ new_set \o s \in Seq(Element) /\ IsPropertySet(new_set \o s)
      /\ Elements(new_set \o s) =
           Result(call, Passed(first, cursor_1) \cup Ahead(first, cursor_1), Elements(second))
  <2>1. call \in Call /\ call.op \in BinaryOps
    BY InLoopFacts
  <2> QED BY ONLY <1>3, <1>4, <2>1, FinishFirst
<1> QED BY <1>2, <1>5, LeaveKeeps

(* The first operand is at its end, and what is pushed is the rest of the   *)
(* second, by a union only.                                                 *)
LEMMA LeaveSecond ==
  ASSUME IInv, pc \in BinaryOps, ~More_1,
         NEW s, s = IF call.op # "set_union" THEN <<>> ELSE Rest(second, cursor_2),
         Leave(s)
  PROVE  IInv'
<1>1. cursor_1 = Len(first) + 1
  BY InLoopFacts DEF More_1
<1>2. /\ Ahead(first, cursor_1) = {} /\ Passed(first, cursor_1) = Elements(first)
      /\ Elements(second) = Passed(second, cursor_2) \cup Ahead(second, cursor_2)
  BY <1>1, InLoopFacts, AtEnds
<1>3. /\ s \in Seq(Element) /\ IsPropertySet(s)
      /\ Elements(s) = IF call.op # "set_union" THEN {} ELSE Ahead(second, cursor_2)
  <2>1. CASE call.op # "set_union"
    BY <2>1 DEF IsPropertySet, Elements
  <2>2. CASE call.op = "set_union"
    BY <2>2, InLoopFacts, RestOfVector DEF Ahead
  <2> QED BY <2>1, <2>2
<1>4. Merging(call, Elements(first), {},
              Passed(second, cursor_2), Ahead(second, cursor_2), new_set)
  BY <1>2, InLoopFacts
<1>5. /\ new_set \o s \in Seq(Element) /\ IsPropertySet(new_set \o s)
      /\ Elements(new_set \o s) =
           Result(call, Elements(first), Passed(second, cursor_2) \cup Ahead(second, cursor_2))
  <2>1. call \in Call /\ call.op \in BinaryOps
    BY InLoopFacts
  <2> QED BY ONLY <1>3, <1>4, <2>1, FinishSecond
<1> QED BY <1>2, <1>5, LeaveKeeps

LEMMA UnionStep == IInv /\ set_union => IInv'
<1> SUFFICES ASSUME IInv, set_union PROVE IInv'
  OBVIOUS
<1>1. pc \in BinaryOps /\ call.op = "set_union"
  BY InLoopFacts DEF set_union, BinaryOps
<1>2. CASE AtSecond /\ Turn(<<second[cursor_2]>>, 0, 1)
  BY <1>1, <1>2, AtSecondStep
<1>3. CASE AtFirst /\ Turn(<<first[cursor_1]>>, 1, 0)
  BY <1>1, <1>3, AtFirstStep
<1>4. CASE AtBoth /\ Turn(<<combined(call, first[cursor_1], second[cursor_2])>>, 1, 1)
  BY <1>1, <1>4, AtBothStep
<1>5. CASE More_1 /\ ~More_2 /\ Leave(Rest(first, cursor_1))
  BY <1>1, <1>5, LeaveFirst
<1>6. CASE ~More_1 /\ Leave(Rest(second, cursor_2))
  BY <1>1, <1>6, LeaveSecond
<1> QED BY <1>2, <1>3, <1>4, <1>5, <1>6 DEF set_union

LEMMA IntersectionStep == IInv /\ set_intersection => IInv'
<1> SUFFICES ASSUME IInv, set_intersection PROVE IInv'
  OBVIOUS
<1>1. pc \in BinaryOps /\ call.op = "set_intersection"
  BY InLoopFacts DEF set_intersection, BinaryOps
<1>2. CASE AtSecond /\ Turn(<<>>, 0, 1)
  BY <1>1, <1>2, AtSecondStep
<1>3. CASE AtFirst /\ Turn(<<>>, 1, 0)
  BY <1>1, <1>3, AtFirstStep
<1>4. CASE AtBoth /\ Turn(<<combined(call, first[cursor_1], second[cursor_2])>>, 1, 1)
  BY <1>1, <1>4, AtBothStep
<1>5. CASE ~More_2 /\ Leave(<<>>)
  BY <1>1, <1>5, LeaveFirst
<1>6. CASE ~More_1 /\ Leave(<<>>)
  BY <1>1, <1>6, LeaveSecond
<1> QED BY <1>2, <1>3, <1>4, <1>5, <1>6 DEF set_intersection

LEMMA DifferenceStep == IInv /\ set_difference => IInv'
<1> SUFFICES ASSUME IInv, set_difference PROVE IInv'
  OBVIOUS
<1>1. pc \in BinaryOps /\ call.op = "set_difference"
  BY InLoopFacts DEF set_difference, BinaryOps
<1>2. CASE AtSecond /\ Turn(<<>>, 0, 1)
  BY <1>1, <1>2, AtSecondStep
<1>3. CASE AtFirst /\ Turn(<<first[cursor_1]>>, 1, 0)
  BY <1>1, <1>3, AtFirstStep
<1>4. CASE AtBoth /\ Turn(IF call.nested
                             THEN <<combined(call, first[cursor_1], second[cursor_2])>>
                             ELSE <<>>, 1, 1)
  <2>1. CASE call.nested
    BY <1>1, <1>4, <2>1, AtBothStep
  <2>2. CASE ~call.nested
    BY <1>1, <1>4, <2>2, AtBothStep
  <2> QED BY <2>1, <2>2
<1>5. CASE More_1 /\ ~More_2 /\ Leave(Rest(first, cursor_1))
  BY <1>1, <1>5, LeaveFirst
<1>6. CASE ~More_1 /\ Leave(<<>>)
  BY <1>1, <1>6, LeaveSecond
<1> QED BY <1>2, <1>3, <1>4, <1>5, <1>6 DEF set_difference

-----------------------------------------------------------------------------
(* The steps of prepare_vector_set and of the check *)

(* The sorting leaves each element once, with equal keys in some order.     *)
LEMMA PrepareStep == IInv /\ prepare_vector_set => IInv'
<1> SUFFICES ASSUME IInv, prepare_vector_set PROVE IInv'
  OBVIOUS
<1> USE DEF IInv
<1> DEFINE S == Elements(first)
<1>1. PICK c \in [1 .. Cardinality(S) -> S] :
        /\ Elements(c) = S
        /\ \A i, j \in DOMAIN c : i < j => c[i] # c[j] /\ ~less(c[j], c[i])
        /\ new_set' = c
  BY DEF prepare_vector_set, first
<1>2. /\ pc = "prepare_vector_set" /\ pc' = "verify" /\ call' = call
      /\ call.op = "prepare_vector_set" /\ cursor_1 = 1
      /\ cursor_1' = cursor_1 /\ cursor_2' = cursor_2
      /\ low' = low /\ high' = high /\ found' = found
      /\ first' = first /\ second' = second
  BY DEF prepare_vector_set, InPrepare, first, second
<1>3. call \in Call /\ first \in Seq(Element) /\ S \subseteq Element
  BY Operands DEF TypeOK, first, Elements
<1>4. Cardinality(S) \in Nat
  <2>1. IsFiniteSet(1 .. Len(first))
    BY <1>3, FS_Interval
  <2>2. first \in Surjection(1 .. Len(first), S)
    BY <1>3 DEF Surjection, Elements
  <2>3. IsFiniteSet(S)
    BY <2>1, <2>2, FS_Surjection
  <2> QED BY <2>3, FS_CardinalityType
<1>5. c \in Seq(Element) /\ DOMAIN c = 1 .. Len(c)
  <2> HIDE DEF S
  <2> QED BY <1>3, <1>4
<1>6. TypeOK'
  BY <1>1, <1>2, <1>5 DEF TypeOK
<1>7. InCheck'
  BY <1>1, <1>2, <1>5 DEF InCheck
<1>8. /\ InPrepare' /\ InLoop' /\ InSearch'
      /\ MergedRight' /\ SearchedRight' /\ CheckedRight'
  BY <1>2 DEF InPrepare, InLoop, InSearch, MergedRight, SearchedRight, CheckedRight, BinaryOps
<1> QED BY <1>6, <1>7, <1>8

(* The facts about a check in progress.                                     *)
LEMMA InCheckFacts ==
  ASSUME IInv, pc = "verify"
  PROVE  /\ call \in Call /\ new_set \in Seq(Element)
         /\ call.op \in {"register_set", "prepare_vector_set"}
         /\ cursor_1 \in 1 .. Len(new_set) + 1
         /\ \A i, j \in 1 .. cursor_1 - 1 : i < j => less(new_set[i], new_set[j])
         /\ call.op = "prepare_vector_set" =>
              /\ Elements(new_set) = Elements(first)
              /\ \A i, j \in 1 .. Len(new_set) :
                   i < j => new_set[i] # new_set[j] /\ ~less(new_set[j], new_set[i])
BY DEF IInv, TypeOK, InCheck

LEMMA AcceptStep == IInv /\ accept => IInv'
<1> SUFFICES ASSUME IInv, accept PROVE IInv'
  OBVIOUS
<1>1. /\ pc = "verify" /\ pc' = "done" /\ call' = call /\ new_set' = new_set
      /\ cursor_1' = cursor_1 /\ cursor_2' = cursor_2
      /\ low' = low /\ high' = high /\ found' = found
      /\ first' = first /\ second' = second
      /\ Len(new_set) = 1 \/ cursor_1 > Len(new_set)
  BY DEF accept, first, second
<1>2. IsPropertySet(new_set)
  <2> SUFFICES ASSUME NEW i \in 1 .. Len(new_set), NEW j \in 1 .. Len(new_set), i < j
               PROVE  less(new_set[i], new_set[j])
    BY DEF IsPropertySet
  <2>1. cursor_1 > Len(new_set) /\ cursor_1 \in Int
    <3>1. /\ new_set \in Seq(Element)
          /\ cursor_1 \in 1 .. Len(new_set) + 1
      BY <1>1, InCheckFacts
    <3>2. Len(new_set) \in Nat
      BY ONLY <3>1
    <3>3. Len(new_set) # 1
      BY <3>2
    <3> QED BY <1>1, <3>1, <3>2, <3>3
  <2>2. i \in 1 .. cursor_1 - 1 /\ j \in 1 .. cursor_1 - 1
    BY <2>1
  <2> QED BY <1>1, <2>2, InCheckFacts
<1>3. TypeOK'
  BY <1>1 DEF IInv, TypeOK
<1>4. InPrepare' /\ InCheck' /\ InLoop' /\ InSearch'
  BY <1>1 DEF InPrepare, InCheck, InLoop, InSearch, BinaryOps
<1>5. CheckedRight'
  BY <1>1, <1>2, InCheckFacts DEF CheckedRight
<1>6. MergedRight' /\ SearchedRight'
  BY <1>1, InCheckFacts DEF MergedRight, SearchedRight, BinaryOps
<1> QED BY <1>3, <1>4, <1>5, <1>6 DEF IInv

LEMMA VerifyStep == IInv /\ verify => IInv'
<1> SUFFICES ASSUME IInv, verify PROVE IInv'
  OBVIOUS
<1> DEFINE n == cursor_1
<1>1. /\ pc = "verify" /\ call' = call /\ new_set' = new_set /\ cursor_2' = cursor_2
      /\ low' = low /\ high' = high /\ found' = found
      /\ first' = first /\ second' = second
      /\ n \in 1 .. Len(new_set)
      /\ IF InOrder THEN cursor_1' = n + 1 /\ pc' = pc
                    ELSE pc' = "thrown" /\ cursor_1' = n
  BY InCheckFacts DEF verify, first, second
<1>2. TypeOK'
  BY <1>1 DEF IInv, TypeOK
<1>3. /\ InPrepare' /\ InLoop' /\ InSearch' /\ MergedRight' /\ SearchedRight'
  BY <1>1 DEF InPrepare, InLoop, InSearch, MergedRight, SearchedRight, BinaryOps
<1>4. \A i \in 1 .. Len(new_set) : new_set[i] \in Element /\ new_set[i].key \in Int
  BY <1>1, InCheckFacts, ElementKeys
<1>5. CASE InOrder
  <2>1. \A i, j \in 1 .. n : i < j => less(new_set[i], new_set[j])
    <3> SUFFICES ASSUME NEW i \in 1 .. n, NEW j \in 1 .. n, i < j
                 PROVE  new_set[i].key < new_set[j].key
      BY DEF less
    <3>1. CASE j \in 1 .. n - 1
      <4>1. i \in 1 .. n - 1
        BY <3>1, <1>1
      <4> QED BY <3>1, <4>1, <1>1, InCheckFacts DEF less
    <3>2. CASE j = n
      <4>1. new_set[n - 1].key < new_set[n].key
        BY <3>2, <1>1, <1>5 DEF InOrder, less
      <4>2. n - 1 \in 1 .. n - 1 /\ i \in 1 .. n - 1
        BY <3>2, <1>1
      <4>3. i = n - 1 \/ new_set[i].key < new_set[n - 1].key
        BY <4>2, <1>1, InCheckFacts DEF less
      <4>4. /\ new_set[i].key \in Int /\ new_set[n - 1].key \in Int
            /\ new_set[n].key \in Int
        BY <4>2, <1>1, <1>4
      <4> QED BY <3>2, <4>1, <4>3, <4>4
    <3> QED BY <3>1, <3>2, <1>1
  <2>2. InCheck'
    BY <1>1, <1>5, <2>1, InCheckFacts DEF InCheck
  <2>3. CheckedRight'
    BY <1>1, <1>5 DEF CheckedRight
  <2> QED BY <1>2, <1>3, <2>2, <2>3 DEF IInv
<1>6. CASE ~InOrder
  <2>1. PICK i \in 1 .. n - 1 : ~less(new_set[i], new_set[n])
    <3>1. CASE n > 1 /\ ~less(new_set[n - 1], new_set[n])
      <4>1. n - 1 \in 1 .. n - 1
        BY <3>1, <1>1
      <4> QED BY <3>1, <4>1
    <3>2. CASE \E i \in 1 .. n - 1 : new_set[i].key = new_set[n].key
      BY <3>2, <1>1, <1>4 DEF less
    <3> QED BY <3>1, <3>2, <1>6 DEF InOrder
  <2>2. i \in 1 .. Len(new_set) /\ n \in 1 .. Len(new_set) /\ i < n
    BY <1>1, <2>1
  <2>3. ~IsPropertySet(new_set)
    BY <2>1, <2>2 DEF IsPropertySet
  <2>4. call.op = "prepare_vector_set" => ~OneValuePerKey(Elements(first))
    <3> SUFFICES ASSUME call.op = "prepare_vector_set"
                 PROVE  ~OneValuePerKey(Elements(new_set))
      BY <1>1, InCheckFacts
    <3>1. new_set[i] # new_set[n] /\ ~less(new_set[n], new_set[i])
      BY <1>1, <2>2, InCheckFacts
    <3>2. new_set[i].key = new_set[n].key
      BY <2>1, <2>2, <3>1, <1>4 DEF less
    <3>3. new_set[i] \in Elements(new_set) /\ new_set[n] \in Elements(new_set)
      BY <2>2 DEF Elements
    <3> QED BY <3>1, <3>2, <3>3 DEF OneValuePerKey
  <2>5. CheckedRight'
    BY <1>1, <1>6, <2>3, <2>4 DEF CheckedRight
  <2>6. InCheck'
    BY <1>1, <1>6 DEF InCheck
  <2> QED BY <1>2, <1>3, <2>5, <2>6 DEF IInv
<1> QED BY <1>5, <1>6

-----------------------------------------------------------------------------
(* The steps of the searches *)

(* The facts about a search in progress.                                    *)
LEMMA InSearchFacts ==
  ASSUME IInv, pc \in {"linear", "binary"}
  PROVE  /\ call \in Call /\ call.op = "find_key"
         /\ first \in Seq(Element) /\ IsPropertySet(first)
         /\ call.key \in Int
         /\ \A i \in 1 .. Len(first) : first[i] \in Element /\ first[i].key \in Int
<1>1. call \in Call /\ call.op = "find_key"
  BY DEF IInv, TypeOK, InSearch
<1>2. first \in Seq(Element) /\ IsPropertySet(first) /\ call.key \in Int
  BY <1>1, Operands DEF first
<1> QED BY <1>1, <1>2, ElementKeys

(* A position that holds the key, or 0 where no position does, is a right   *)
(* answer.                                                                  *)
LEMMA AnswerKeeps ==
  ASSUME IInv, pc \in {"linear", "binary"}, NEW i \in 0 .. Len(first), Answer(i),
         IF i = 0 THEN \A j \in 1 .. Len(first) : first[j].key # call.key
                  ELSE first[i].key = call.key,
         UNCHANGED <<call, new_set, cursor_1, cursor_2, low, high>>
  PROVE  IInv'
<1>1. /\ found' = i /\ pc' = "done" /\ call' = call /\ new_set' = new_set
      /\ cursor_1' = cursor_1 /\ cursor_2' = cursor_2
      /\ low' = low /\ high' = high
      /\ first' = first /\ second' = second
  BY DEF Answer, first, second
<1>2. TypeOK'
  BY <1>1 DEF IInv, TypeOK
<1>3. InPrepare' /\ InCheck' /\ InLoop' /\ InSearch'
  BY <1>1 DEF InPrepare, InCheck, InLoop, InSearch, BinaryOps
<1>4. i = 0 => call.key \notin Keys(Elements(first))
  BY DEF Keys, Elements
<1>5. SearchedRight'
  BY <1>1, <1>4 DEF SearchedRight
<1>6. MergedRight' /\ CheckedRight'
  BY <1>1, InSearchFacts DEF MergedRight, CheckedRight, BinaryOps
<1> QED BY <1>2, <1>3, <1>5, <1>6 DEF IInv

LEMMA LinearStep == IInv /\ linear_search => IInv'
<1> SUFFICES ASSUME IInv, linear_search PROVE IInv'
  OBVIOUS
<1>1. /\ pc = "linear" /\ call' = call /\ new_set' = new_set /\ cursor_2' = cursor_2
      /\ low' = low /\ high' = high
      /\ first' = first /\ second' = second
      /\ cursor_1 \in 1 .. Len(first) + 1
      /\ \A i \in 1 .. cursor_1 - 1 : first[i].key # call.key
  BY DEF linear_search, first, second, IInv, InSearch
<1>2. first \in Seq(Element)
  BY <1>1, InSearchFacts
<1>3. CASE ~More_1
  <2>1. \A j \in 1 .. Len(first) : first[j].key # call.key
    BY <1>1, <1>2, <1>3 DEF More_1
  <2>2. Answer(0) /\ cursor_1' = cursor_1
    BY <1>3 DEF linear_search
  <2> QED BY <1>1, <1>2, <2>1, <2>2, AnswerKeeps
<1>4. CASE More_1 /\ first[cursor_1].key = call.key
  <2>1. cursor_1 \in 1 .. Len(first)
    BY <1>1, <1>2, <1>4 DEF More_1
  <2>2. Answer(cursor_1) /\ cursor_1' = cursor_1
    BY <1>4 DEF linear_search
  <2> QED BY <1>1, <1>2, <1>4, <2>1, <2>2, AnswerKeeps
<1>5. CASE More_1 /\ first[cursor_1].key # call.key
  <2>1. cursor_1' = cursor_1 + 1 /\ pc' = pc /\ found' = found
    BY <1>5 DEF linear_search
  <2>2. TypeOK'
    BY <1>1, <2>1 DEF IInv, TypeOK
  <2>3. InSearch'
    <3>1. \A i \in 1 .. (cursor_1 + 1) - 1 : i = cursor_1 \/ i \in 1 .. cursor_1 - 1
      BY <1>1
    <3>2. cursor_1 + 1 \in 1 .. Len(first) + 1
      BY <1>1, <1>2, <1>5 DEF More_1
    <3> QED BY <1>1, <1>5, <2>1, <3>1, <3>2, InSearchFacts DEF InSearch
  <2>4. /\ InPrepare' /\ InCheck' /\ InLoop'
        /\ MergedRight' /\ SearchedRight' /\ CheckedRight'
    BY <1>1, <2>1
       DEF InPrepare, InCheck, InLoop, MergedRight, SearchedRight, CheckedRight, BinaryOps
  <2> QED BY <2>2, <2>3, <2>4 DEF IInv
<1> QED BY <1>3, <1>4, <1>5

LEMMA BinaryStep == IInv /\ binary_search => IInv'
<1> SUFFICES ASSUME IInv, binary_search PROVE IInv'
  OBVIOUS
<1> DEFINE mid == low + (high - low) \div 2
<1>1. /\ pc = "binary" /\ call' = call /\ new_set' = new_set
      /\ cursor_1' = cursor_1 /\ cursor_2' = cursor_2
      /\ first' = first /\ second' = second
      /\ low \in Int /\ high \in Int /\ 1 <= low /\ high <= Len(first)
      /\ \A i \in 1 .. Len(first) : first[i].key = call.key => low <= i /\ i <= high
  BY DEF binary_search, first, second, IInv, TypeOK, InSearch
<1>2. /\ first \in Seq(Element) /\ Len(first) \in Nat /\ call.key \in Int
      /\ call.op = "find_key"
      /\ \A i \in 1 .. Len(first) : first[i].key \in Int
      /\ \A i, j \in 1 .. Len(first) : i < j => first[i].key < first[j].key
  BY <1>1, InSearchFacts DEF IsPropertySet, less
<1>3. CASE Exhausted
  <2>1. \A j \in 1 .. Len(first) : first[j].key # call.key
    BY <1>1, <1>2, <1>3 DEF Exhausted
  <2>2. Answer(0) /\ low' = low /\ high' = high
    BY <1>3 DEF binary_search
  <2> QED BY <1>1, <1>2, <2>1, <2>2, AnswerKeeps
<1>4. ASSUME ~Exhausted
      PROVE  mid \in 1 .. Len(first) /\ low <= mid /\ mid <= high
  BY <1>1, <1>2, <1>4 DEF Exhausted
<1>5. CASE ~Exhausted /\ first[mid].key = call.key
  <2>1. Answer(mid) /\ low' = low /\ high' = high
    BY <1>5 DEF binary_search
  <2>2. mid \in 1 .. Len(first)
    BY <1>4, <1>5
  <2>3. mid \in 0 .. Len(first) /\ mid # 0
    BY <2>2
  <2> HIDE DEF mid
  <2> QED BY <1>1, <1>5, <2>1, <2>3, AnswerKeeps
<1>6. ASSUME NEW l \in Int, NEW h \in Int, low' = l, high' = h, pc' = pc, found' = found,
             1 <= l, h <= Len(first),
             \A i \in 1 .. Len(first) : first[i].key = call.key => l <= i /\ i <= h
      PROVE  IInv'
  <2>1. TypeOK'
    BY <1>1, <1>6 DEF IInv, TypeOK
  <2>2. InSearch'
    BY <1>1, <1>2, <1>6 DEF InSearch
  <2>3. /\ InPrepare' /\ InCheck' /\ InLoop'
        /\ MergedRight' /\ SearchedRight' /\ CheckedRight'
    BY <1>1, <1>6
       DEF InPrepare, InCheck, InLoop, MergedRight, SearchedRight, CheckedRight, BinaryOps
  <2> QED BY <2>1, <2>2, <2>3 DEF IInv
<1>7. CASE ~Exhausted /\ first[mid].key < call.key
  <2>1. low' = mid + 1 /\ high' = high /\ pc' = pc /\ found' = found
    <3>1. mid \in 1 .. Len(first)
      BY <1>4, <1>7
    <3>2. first[mid].key # call.key
      BY <1>2, <1>7, <3>1
    <3> QED BY <1>7, <3>2 DEF binary_search, after
  <2>2. mid \in 1 .. Len(first)
    BY <1>4, <1>7
  <2> HIDE DEF mid
  <2>3. \A i \in 1 .. Len(first) : first[i].key = call.key => mid + 1 <= i
    <3> SUFFICES ASSUME NEW i \in 1 .. Len(first), i < mid + 1
                 PROVE  first[i].key # call.key
      BY <2>2
    <3>1. i = mid \/ i < mid
      BY <2>2
    <3>2. first[i].key <= first[mid].key
      BY <1>2, <2>2, <3>1
    <3> QED BY <1>2, <1>7, <2>2, <3>2
  <2> QED BY <1>1, <1>6, <2>1, <2>2, <2>3
<1>8. CASE ~Exhausted /\ first[mid].key > call.key
  <2>1. high' = mid - 1 /\ low' = low /\ pc' = pc /\ found' = found
    <3>1. mid \in 1 .. Len(first)
      BY <1>4, <1>8
    <3>2. first[mid].key # call.key /\ ~(first[mid].key < call.key)
      BY <1>2, <1>8, <3>1
    <3> QED BY <1>8, <3>2 DEF binary_search
  <2>2. mid \in 1 .. Len(first)
    BY <1>4, <1>8
  <2> HIDE DEF mid
  <2>3. \A i \in 1 .. Len(first) : first[i].key = call.key => i <= mid - 1
    <3> SUFFICES ASSUME NEW i \in 1 .. Len(first), i > mid - 1
                 PROVE  first[i].key # call.key
      BY <2>2
    <3>1. i = mid \/ mid < i
      BY <2>2
    <3>2. first[mid].key <= first[i].key
      BY <1>2, <2>2, <3>1
    <3> QED BY <1>2, <1>8, <2>2, <3>2
  <2> QED BY <1>1, <1>6, <2>1, <2>2, <2>3
<1>9. Exhausted \/ first[mid].key \in Int
  BY <1>2, <1>4
<1> QED BY <1>2, <1>3, <1>5, <1>7, <1>8, <1>9

-----------------------------------------------------------------------------
(* The theorems *)

LEMMA Stuttering == IInv /\ UNCHANGED vars => IInv'
<1> SUFFICES ASSUME IInv, UNCHANGED vars PROVE IInv'
  OBVIOUS
<1>1. /\ call' = call /\ pc' = pc /\ new_set' = new_set
      /\ cursor_1' = cursor_1 /\ cursor_2' = cursor_2
      /\ low' = low /\ high' = high /\ found' = found
      /\ first' = first /\ second' = second
  BY DEF vars, first, second
<1> QED BY <1>1 DEF IInv, TypeOK, InPrepare, InCheck, InLoop, InSearch,
                    MergedRight, SearchedRight, CheckedRight

THEOREM Invariance == Spec => []IInv
<1>1. Init => IInv
  BY Initially
<1>2. IInv /\ [Next]_vars => IInv'
  BY PrepareStep, AcceptStep, VerifyStep, UnionStep, IntersectionStep,
     DifferenceStep, LinearStep, BinaryStep, Stuttering DEF Next
<1> QED BY <1>1, <1>2, PTL DEF Spec

(* The type invariant: cursors, bounds and answers stay in their ranges.    *)
THEOREM VectorTypes == Spec => []TypeOK
<1>1. IInv => TypeOK
  BY DEF IInv
<1> QED BY <1>1, Invariance, PTL

(* set_union, set_intersection and set_difference leave a sorted vector     *)
(* without duplicates that holds exactly the result on sets: registering it *)
(* with the integrity check disabled is sound.                              *)
THEOREM MergesRight == Spec => []MergedRight
<1>1. IInv => MergedRight
  BY DEF IInv
<1> QED BY <1>1, Invariance, PTL

(* find_key answers the same by linear and by binary search, whatever the   *)
(* threshold: the element with the key, if there is one.                    *)
THEOREM SearchesRight == Spec => []SearchedRight
<1>1. IInv => SearchedRight
  BY DEF IInv
<1> QED BY <1>1, Invariance, PTL

(* The integrity check accepts exactly the sorted vectors without duplicate *)
(* keys, and what prepare_vector_set made of elements with one value a key. *)
THEOREM ChecksRight == Spec => []CheckedRight
<1>1. IInv => CheckedRight
  BY DEF IInv
<1> QED BY <1>1, Invariance, PTL

(* The element at the first position where two vectors of one set might     *)
(* differ is not before that position in the other.                         *)
LEMMA NotBefore ==
  ASSUME NEW c \in Seq(Element), IsPropertySet(c),
         NEW d \in Seq(Element), IsPropertySet(d),
         Elements(c) \subseteq Elements(d),
         NEW n \in 1 .. Len(c),
         \A i \in 1 .. n - 1 : i \in 1 .. Len(d) /\ c[i] = d[i]
  PROVE  \E k \in 1 .. Len(d) : n <= k /\ d[k] = c[n]
<1>1. PICK k \in 1 .. Len(d) : d[k] = c[n]
  BY DEF Elements
<1>2. n <= k
  <2> SUFFICES ASSUME k < n PROVE FALSE
    OBVIOUS
  <2>1. k \in 1 .. n - 1 /\ k \in 1 .. Len(c)
    OBVIOUS
  <2>2. c[k] = c[n]
    BY <1>1, <2>1
  <2>3. c[k].key < c[n].key
    BY <2>1 DEF IsPropertySet, less
  <2>4. c[n].key \in Int
    BY ElementKeys
  <2> QED BY <2>2, <2>3, <2>4
<1> QED BY <1>1, <1>2

(* A set of elements has one sorted vector.  So the map of stored vectors,  *)
(* which compares them element by element, stores a set at most once, and a *)
(* vector can stand for the set of its elements.                            *)
THEOREM OneVectorPerSet ==
  ASSUME NEW c \in Seq(Element), IsPropertySet(c),
         NEW d \in Seq(Element), IsPropertySet(d),
         Elements(c) = Elements(d)
  PROVE  c = d
<1> DEFINE Agree(i) == i \in 1 .. Len(c) /\ i \in 1 .. Len(d) /\ c[i] = d[i]
           D == {i \in Nat \ {0} : (i <= Len(c) \/ i <= Len(d)) /\ ~Agree(i)}
<1>1. CASE D = {}
  <2>1. \A i \in 1 .. Len(c) : Agree(i)
    BY <1>1
  <2>2. \A i \in 1 .. Len(d) : Agree(i)
    BY <1>1
  <2>3. Len(c) \in Nat /\ Len(d) \in Nat
    OBVIOUS
  <2>4. Len(c) <= Len(d)
    BY <2>1, <2>3
  <2>5. Len(d) <= Len(c)
    BY <2>2, <2>3
  <2> QED BY <2>1, <2>3, <2>4, <2>5
<1>2. CASE D # {}
  <2>1. PICK n \in D : \A m \in D : ~(m < n)
    <3>1. PICK n \in D : \A m \in D : <<m, n>> \notin OpToRel(<, Nat)
      <4>1. D \subseteq Nat
        OBVIOUS
      <4> HIDE DEF D
      <4> QED BY <1>2, <4>1, NatLessThanWellFounded, WFMin
    <3> QED BY <3>1 DEF OpToRel
  <2>2. n \in Nat \ {0} /\ (n <= Len(c) \/ n <= Len(d)) /\ ~Agree(n)
    BY <2>1
  <2>3. \A i \in 1 .. n - 1 : Agree(i)
    <3> SUFFICES ASSUME NEW i \in 1 .. n - 1, ~Agree(i) PROVE FALSE
      OBVIOUS
    <3>1. i \in D
      BY <2>2
    <3> QED BY <2>1, <2>2, <3>1
  <2>4. n <= Len(c) => \E k \in 1 .. Len(d) : n <= k /\ d[k] = c[n]
    BY <2>2, <2>3, NotBefore
  <2>5. n <= Len(d) => \E k \in 1 .. Len(c) : n <= k /\ c[k] = d[n]
    <3> SUFFICES ASSUME n <= Len(d)
                 PROVE  \E k \in 1 .. Len(c) : n <= k /\ c[k] = d[n]
      OBVIOUS
    <3>1. n \in 1 .. Len(d)
      BY <2>2
    <3>2. \A i \in 1 .. n - 1 : i \in 1 .. Len(c) /\ d[i] = c[i]
      BY <2>3
    <3> QED BY <3>1, <3>2, NotBefore
  <2>6. n \in 1 .. Len(c) /\ n \in 1 .. Len(d)
    BY <2>2, <2>4, <2>5
  <2>7. PICK k \in 1 .. Len(d) : n <= k /\ d[k] = c[n]
    BY <2>4, <2>6
  <2>8. PICK l \in 1 .. Len(c) : n <= l /\ c[l] = d[n]
    BY <2>5, <2>6
  <2>9. k = n \/ d[n].key < d[k].key
    BY <2>6, <2>7 DEF IsPropertySet, less
  <2>10. l = n \/ c[n].key < c[l].key
    BY <2>6, <2>8 DEF IsPropertySet, less
  <2>11. c[n].key \in Int /\ d[n].key \in Int
    BY <2>6, ElementKeys
  <2>12. c[n] = d[n]
    BY <2>7, <2>8, <2>9, <2>10, <2>11
  <2> QED BY <2>2, <2>6, <2>12
<1> QED BY <1>1, <1>2
=============================================================================
