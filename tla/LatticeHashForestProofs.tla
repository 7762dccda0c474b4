----------------------- MODULE LatticeHashForestProofs -----------------------
(* What holds of LatticeHashForest for every Property and Filter: its       *)
(* types, the truth of all it remembers, the promise of UniqueIndexing,     *)
(* that nothing is forgotten or computed twice, and what is counted.        *)
EXTENDS LatticeHashForest, ForestDataProofs, TLAPS

-----------------------------------------------------------------------------
(* The operations *)

(* A call that started from members f was answered with the index of        *)
(* `result`, and at most `allowed` sets were added.                         *)
Answered(f, call, allowed, result) ==
  /\ ForestInv(forest')
  /\ Grows(f, forest', allowed)
  /\ reply' = [call |-> call, ret |-> reply'.ret, stat |-> reply'.stat]
  /\ reply'.ret \in Indices(forest')
  /\ get_value(forest', reply'.ret) = result

(* Operations answered from memory, or from a computation that was recorded.*)
LEMMA FromMemoryLemma ==
  ASSUME NEW f, ForestInv(f), NEW call, NEW stat,
         NEW r \in Indices(f), Return(call, f, r, stat), NEW s,
         get_value(f, r) = s
  PROVE  Answered(f, call, {s}, s)
<1>1. forest' = f /\ reply' = [call |-> call, ret |-> r, stat |-> stat]
  BY DEF Return
<1>2. Grows(f, f, {s})
  BY DEF Grows, ForestInv, ForestType
<1>. QED
  BY <1>1, <1>2 DEF Answered

LEMMA ComputedLemma ==
  ASSUME NEW f, ForestInv(f), NEW call, NEW stat, NEW s \in SUBSET Property,
         NEW h, SameSets(registered(f, s), h),
         Return(call, h, index_of(registered(f, s), s), stat)
  PROVE  Answered(f, call, {s}, s)
<1> DEFINE g == registered(f, s)
           r == index_of(g, s)
<1>1. forest' = h /\ reply' = [call |-> call, ret |-> r, stat |-> stat]
  BY DEF Return
<1>2. /\ Grows(f, g, {s})
      /\ r \in Indices(g)
      /\ get_value(g, r) = s
  BY RegistrationLemma
<1>. HIDE DEF g, r
<1>3. Grows(f, h, {s}) /\ ForestInv(h)
  BY <1>2 DEF Grows, SameSets, g
<1>4. r \in Indices(h) /\ get_value(h, r) = s
  BY <1>2, SameSetsLemma DEF g
<1>. QED
  BY <1>1, <1>3, <1>4 DEF Answered

LEMMA RegisterLemma ==
  ASSUME NEW f, ForestInv(f), NEW call, NEW s \in SUBSET Property,
         Register(f, call, s)
  PROVE  Answered(f, call, {s}, s)
<1>1. SameSets(registered(f, s), registered(f, s))
  BY RegistrationLemma DEF SameSets
<1>. QED
  BY <1>1, ComputedLemma DEF Register

LEMMA UnionLemma ==
  ASSUME NEW f, ForestInv(f), NEW call, NEW x \in Indices(f),
         NEW y \in Indices(f), Union(f, call, x, y)
  PROVE  LET s == get_value(f, x) \cup get_value(f, y)
         IN  Answered(f, call, {s}, s)
<1> DEFINE a == minimum(x, y)
           b == maximum(x, y)
           s == get_value(f, a) \cup get_value(f, b)
           g == registered(f, s)
           r == index_of(g, s)
           k == <<a, b>>
<1>0. /\ a \in Indices(f) /\ b \in Indices(f) /\ k \in Pairs(f)
      /\ x # y => a < b
      /\ ~is_empty(a) => 0 < a
      /\ s = get_value(f, x) \cup get_value(f, y)
  BY StoredValueLemma DEF minimum, maximum, Pairs, is_empty, EMPTY_SET_VALUE
<1>1. s \in SUBSET Property
  BY <1>0, StoredValueLemma
<1>. SUFFICES Answered(f, call, {s}, s)
  BY <1>0
<1>2. CASE x = y /\ Return(call, f, x, "equal_hits")
  <2>1. get_value(f, x) = s
    BY <1>0, <1>2
  <2>. HIDE DEF s
  <2>. QED
    BY <1>2, <2>1, FromMemoryLemma
<1>3. CASE x # y /\ is_empty(a) /\ Return(call, f, b, "empty_hits")
  <2>1. get_value(f, b) = s
    BY <1>3, StoredValueLemma DEF is_empty
  <2>. HIDE DEF s
  <2>. QED
    BY <1>0, <1>3, <2>1, FromMemoryLemma
<1>4. CASE is_subset(f, a, b) = "SUBSET" /\ Return(call, f, b, "subset_hits")
  <2>1. k \in DOMAIN f.subsets /\ f.subsets[k] = "SUBSET"
    BY <1>4 DEF is_subset
  <2>2. get_value(f, b) = s
    BY <2>1 DEF ForestInv, Sound, SubsetsSound
  <2>. HIDE DEF s
  <2>. QED
    BY <1>0, <1>4, <2>2, FromMemoryLemma
<1>5. CASE is_subset(f, a, b) = "SUPERSET" /\ Return(call, f, a, "subset_hits")
  <2>1. k \in DOMAIN f.subsets /\ f.subsets[k] = "SUPERSET"
    BY <1>5 DEF is_subset
  <2>2. get_value(f, a) = s
    BY <2>1 DEF ForestInv, Sound, SubsetsSound
  <2>. HIDE DEF s
  <2>. QED
    BY <1>0, <1>5, <2>2, FromMemoryLemma
<1>6. CASE k \in DOMAIN f.unions /\ Return(call, f, f.unions[k], "hits")
  <2>1. f.unions[k] \in Indices(f)
    BY <1>6 DEF ForestInv, ForestType, IsMap
  <2>2. get_value(f, f.unions[k]) = s
    BY <1>6 DEF ForestInv, Sound, UnionsSound
  <2>. HIDE DEF s
  <2>. QED
    BY <1>0, <1>6, <2>1, <2>2, FromMemoryLemma
<1>7. CASE /\ x # y /\ ~is_empty(a)
           /\ Return(call, union_recorded(g, a, b, r), r, miss_stat(f, s))
  <2>0. /\ ForestInv(g) /\ r \in Indices(g) /\ get_value(g, r) = s
        /\ Indices(f) \subseteq Indices(g)
        /\ \A i \in Indices(f) : get_value(g, i) = get_value(f, i)
    BY <1>1, RegistrationLemma
  <2>1. /\ ForestInv(g) /\ a \in Indices(g) /\ b \in Indices(g)
        /\ r \in Indices(g)
        /\ get_value(g, r) = get_value(g, a) \cup get_value(g, b)
    BY <1>0, <2>0
  <2>. HIDE DEF a, b
  <2>2. SameSets(g, union_recorded(g, a, b, r))
    BY <1>0, <1>7, <2>1, UnionRecordedLemma
  <2>. HIDE DEF s
  <2>3. Answered(f, call, {s}, s)
    BY <1>1, <1>7, <2>2, ComputedLemma
  <2>. QED
    BY <2>3
<1>. QED
  BY <1>2, <1>3, <1>4, <1>5, <1>6, <1>7 DEF Union

LEMMA IntersectionLemma ==
  ASSUME NEW f, ForestInv(f), NEW call, NEW x \in Indices(f),
         NEW y \in Indices(f), Intersection(f, call, x, y)
  PROVE  LET s == get_value(f, x) \cap get_value(f, y)
         IN  Answered(f, call, {s}, s)
<1> DEFINE a == minimum(x, y)
           b == maximum(x, y)
           s == get_value(f, a) \cap get_value(f, b)
           g == registered(f, s)
           r == index_of(g, s)
           k == <<a, b>>
<1>0. /\ a \in Indices(f) /\ b \in Indices(f) /\ k \in Pairs(f)
      /\ x # y => a < b
      /\ ~is_empty(a) => 0 < a
      /\ s = get_value(f, x) \cap get_value(f, y)
  BY StoredValueLemma DEF minimum, maximum, Pairs, is_empty, EMPTY_SET_VALUE
<1>1. s \in SUBSET Property
  BY <1>0, StoredValueLemma
<1>. SUFFICES Answered(f, call, {s}, s)
  BY <1>0
<1>2. CASE x = y /\ Return(call, f, x, "equal_hits")
  <2>1. get_value(f, x) = s
    BY <1>0, <1>2
  <2>. HIDE DEF s
  <2>. QED
    BY <1>2, <2>1, FromMemoryLemma
<1>3. CASE /\ x # y /\ is_empty(a)
           /\ Return(call, f, EMPTY_SET_VALUE, "empty_hits")
  <2>1. get_value(f, EMPTY_SET_VALUE) = s
    BY <1>3, StoredValueLemma DEF is_empty
  <2>2. EMPTY_SET_VALUE \in Indices(f)
    BY StoredValueLemma
  <2>. HIDE DEF s
  <2>. QED
    BY <1>0, <1>3, <2>1, <2>2, FromMemoryLemma
<1>4. CASE is_subset(f, a, b) = "SUBSET" /\ Return(call, f, a, "subset_hits")
  <2>1. k \in DOMAIN f.subsets /\ f.subsets[k] = "SUBSET"
    BY <1>4 DEF is_subset
  <2>2. get_value(f, a) = s
    BY <2>1 DEF ForestInv, Sound, SubsetsSound
  <2>. HIDE DEF s
  <2>. QED
    BY <1>0, <1>4, <2>2, FromMemoryLemma
<1>5. CASE is_subset(f, a, b) = "SUPERSET" /\ Return(call, f, b, "subset_hits")
  <2>1. k \in DOMAIN f.subsets /\ f.subsets[k] = "SUPERSET"
    BY <1>5 DEF is_subset
  <2>2. get_value(f, b) = s
    BY <2>1 DEF ForestInv, Sound, SubsetsSound
  <2>. HIDE DEF s
  <2>. QED
    BY <1>0, <1>5, <2>2, FromMemoryLemma
<1>6. CASE /\ k \in DOMAIN f.intersections
           /\ Return(call, f, f.intersections[k], "hits")
  <2>1. f.intersections[k] \in Indices(f)
    BY <1>6 DEF ForestInv, ForestType, IsMap
  <2>2. get_value(f, f.intersections[k]) = s
    BY <1>6 DEF ForestInv, Sound, IntersectionsSound
  <2>. HIDE DEF s
  <2>. QED
    BY <1>0, <1>6, <2>1, <2>2, FromMemoryLemma
<1>7. CASE /\ x # y /\ ~is_empty(a)
           /\ Return(call, intersection_recorded(g, a, b, r), r, miss_stat(f, s))
  <2>0. /\ ForestInv(g) /\ r \in Indices(g) /\ get_value(g, r) = s
        /\ Indices(f) \subseteq Indices(g)
        /\ \A i \in Indices(f) : get_value(g, i) = get_value(f, i)
    BY <1>1, RegistrationLemma
  <2>1. /\ ForestInv(g) /\ a \in Indices(g) /\ b \in Indices(g)
        /\ r \in Indices(g)
        /\ get_value(g, r) = get_value(g, a) \cap get_value(g, b)
    BY <1>0, <2>0
  <2>. HIDE DEF a, b
  <2>2. SameSets(g, intersection_recorded(g, a, b, r))
    BY <1>0, <1>7, <2>1, IntersectionRecordedLemma
  <2>. HIDE DEF s
  <2>3. Answered(f, call, {s}, s)
    BY <1>1, <1>7, <2>2, ComputedLemma
  <2>. QED
    BY <2>3
<1>. QED
  BY <1>2, <1>3, <1>4, <1>5, <1>6, <1>7 DEF Intersection

LEMMA DifferenceLemma ==
  ASSUME NEW f, ForestInv(f), NEW call, NEW a \in Indices(f),
         NEW b \in Indices(f), Difference(f, call, a, b)
  PROVE  LET s == get_value(f, a) \ get_value(f, b)
         IN  Answered(f, call, {s}, s)
<1> DEFINE s == get_value(f, a) \ get_value(f, b)
           g == registered(f, s)
           r == index_of(g, s)
           k == <<a, b>>
<1>1. s \in SUBSET Property
  BY StoredValueLemma
<1>. SUFFICES Answered(f, call, {s}, s)
  OBVIOUS
<1>2. CASE a = b /\ Return(call, f, EMPTY_SET_VALUE, "equal_hits")
  <2>1. get_value(f, EMPTY_SET_VALUE) = s
    BY <1>2, StoredValueLemma
  <2>. HIDE DEF s
  <2>. QED
    BY <1>2, <2>1, StoredValueLemma, FromMemoryLemma
<1>3. CASE is_empty(a) /\ Return(call, f, EMPTY_SET_VALUE, "empty_hits")
  <2>1. get_value(f, EMPTY_SET_VALUE) = s
    BY <1>3, StoredValueLemma DEF is_empty
  <2>. HIDE DEF s
  <2>. QED
    BY <1>3, <2>1, StoredValueLemma, FromMemoryLemma
<1>4. CASE is_empty(b) /\ Return(call, f, a, "empty_hits")
  <2>1. get_value(f, a) = s
    BY <1>4, StoredValueLemma DEF is_empty
  <2>. HIDE DEF s
  <2>. QED
    BY <1>4, <2>1, FromMemoryLemma
<1>5. CASE /\ k \in DOMAIN f.differences
           /\ Return(call, f, f.differences[k], "hits")
  <2>1. f.differences[k] \in Indices(f)
    BY <1>5 DEF ForestInv, ForestType, IsMap
  <2>2. get_value(f, f.differences[k]) = s
    BY <1>5 DEF ForestInv, Sound, DifferencesSound
  <2>. HIDE DEF s
  <2>. QED
    BY <1>5, <2>1, <2>2, FromMemoryLemma
<1>6. CASE /\ a # b /\ ~is_empty(a) /\ ~is_empty(b)
           /\ Return(call, difference_recorded(g, a, b, r), r, miss_stat(f, s))
  <2>0. /\ ForestInv(g) /\ r \in Indices(g) /\ get_value(g, r) = s
        /\ Indices(f) \subseteq Indices(g)
        /\ \A i \in Indices(f) : get_value(g, i) = get_value(f, i)
    BY <1>1, RegistrationLemma
  <2>1. /\ ForestInv(g) /\ a \in Indices(g) /\ b \in Indices(g)
        /\ r \in Indices(g)
        /\ get_value(g, r) = get_value(g, a) \ get_value(g, b)
    BY <2>0
  <2>2. SameSets(g, difference_recorded(g, a, b, r))
    BY <1>6, <2>1, DifferenceRecordedLemma DEF is_empty, EMPTY_SET_VALUE
  <2>. HIDE DEF s
  <2>3. Answered(f, call, {s}, s)
    BY <1>1, <1>6, <2>2, ComputedLemma
  <2>. QED
    BY <2>3 DEF s
<1>. QED
  BY <1>2, <1>3, <1>4, <1>5, <1>6 DEF Difference

-----------------------------------------------------------------------------
(* Steps *)

(* The filter caches lead to sets that exist and are the filtered ones.     *)
CachesInv(f, c) ==
  /\ c = [keep \in Filter |-> c[keep]]
  /\ \A keep \in Filter : IsMap(c[keep], Indices(f), Indices(f))
  /\ FiltersSound(f, c)

ReplyInv(f) ==
  /\ reply = [call |-> reply.call, ret |-> reply.ret, stat |-> reply.stat]
  /\ reply.ret \in Indices(f)

(* The inductive invariant: types and soundness need each other, since an   *)
(* operation answered from memory returns what was recorded.                *)
IInv == ForestInv(forest) /\ CachesInv(forest, caches) /\ ReplyInv(forest)

LEMMA GrowsLemma ==
  ASSUME NEW f, NEW g, ForestInv(f), ForestInv(g), NEW allowed,
         Grows(f, g, allowed)
  PROVE  /\ Indices(f) \subseteq Indices(g)
         /\ \A i \in Indices(f) : get_value(g, i) = get_value(f, i)
         /\ \A c : CachesInv(f, c) => CachesInv(g, c)
<1>1. /\ Len(f.property_sets) \in Nat /\ Len(g.property_sets) \in Nat
      /\ Len(f.property_sets) <= Len(g.property_sets)
      /\ \A i \in 1 .. Len(f.property_sets) :
           g.property_sets[i] = f.property_sets[i]
  BY DEF Grows, ForestInv, ForestType
<1>2. Indices(f) \subseteq Indices(g)
  BY <1>1 DEF Indices
<1>3. \A i \in Indices(f) : get_value(g, i) = get_value(f, i)
  BY <1>1 DEF Indices, get_value
<1>4. ASSUME NEW c, CachesInv(f, c)
      PROVE  CachesInv(g, c)
  <2>1. \A keep \in Filter : IsMap(c[keep], Indices(g), Indices(g))
    BY <1>2, <1>4 DEF CachesInv, IsMap
  <2>2. FiltersSound(g, c)
    BY <1>3, <1>4 DEF CachesInv, IsMap, FiltersSound
  <2>. QED
    BY <1>4, <2>1, <2>2 DEF CachesInv
<1>. QED
  BY <1>2, <1>3, <1>4

(* A single-element operation grows the forest twice.                       *)
LEMMA AnsweredAfterLemma ==
  ASSUME NEW f, ForestInv(f), NEW g, ForestInv(g), NEW call, NEW t, NEW s,
         Grows(f, g, {t}), Answered(g, call, {s}, s)
  PROVE  Answered(f, call, {t} \cup {s}, s)
<1>1. /\ f.property_sets \in Seq(SUBSET Property)
      /\ g.property_sets \in Seq(SUBSET Property)
      /\ forest'.property_sets \in Seq(SUBSET Property)
  BY DEF Answered, ForestInv, ForestType
<1>2. Grows(g, forest', {s})
  BY DEF Answered
<1>3. Grows(f, forest', {t} \cup {s})
  BY <1>1, <1>2 DEF Grows
<1>. QED
  BY <1>3 DEF Answered

LEMMA MoreAllowedLemma ==
  ASSUME NEW f, NEW call, NEW s, Answered(f, call, {s}, s)
  PROVE  Answered(f, call, {} \cup {s}, s)
<1>1. {} \cup {s} = {s}
  OBVIOUS
<1>. QED
  BY <1>1

(* No set has two indices, so an answer is an answer of UniqueIndexing.     *)
LEMMA AnswerLemma ==
  ASSUME NEW call, NEW given, NEW result,
         Answered(forest, call, given \cup {result}, result)
  PROVE  Promise!Answer(call, given, result)
<1>1. /\ Canonical(forest')
      /\ forest'.property_sets \in Seq(SUBSET Property)
      /\ reply'.ret \in Indices(forest')
      /\ get_value(forest', reply'.ret) = result
      /\ reply' = [call |-> call, ret |-> reply'.ret, stat |-> reply'.stat]
      /\ Promise!Extends(forest.property_sets, forest'.property_sets,
                         given \cup {result})
  BY DEF Answered, ForestInv, ForestType, Grows, Promise!Extends
<1> DEFINE n == Len(forest'.property_sets)
<1>2. n \in Nat
  BY <1>1
<1>3. Promise!Injective(forest'.property_sets)
  <2>1. SUFFICES ASSUME NEW i \in 1 .. n, NEW j \in 1 .. n,
                        forest'.property_sets[i] = forest'.property_sets[j]
                 PROVE  i = j
    BY DEF Promise!Injective
  <2>2. i - 1 \in Indices(forest') /\ j - 1 \in Indices(forest')
    BY <1>2 DEF Indices
  <2>3. get_value(forest', i - 1) = get_value(forest', j - 1)
    BY <2>1, <1>2 DEF get_value
  <2>4. /\ index_of(forest', get_value(forest', i - 1)) = i - 1
        /\ index_of(forest', get_value(forest', j - 1)) = j - 1
    BY <1>1, <2>2 DEF Canonical
  <2>. QED
    BY <1>2, <2>3, <2>4
<1>4. /\ reply'.ret \in 0 .. Len(forest'.property_sets) - 1
      /\ forest'.property_sets[reply'.ret + 1] = result
  BY <1>1 DEF Indices, get_value
<1>5. [call |-> reply'.call, ret |-> reply'.ret]
        = [call |-> call, ret |-> reply'.ret]
  BY <1>1
<1>. QED
  BY <1>1, <1>3, <1>4, <1>5 DEF Promise!Answer

(* What a step gives once its answer is known.                              *)
LEMMA InvAfterAnswerLemma ==
  ASSUME IInv, NEW call, NEW allowed, NEW result,
         Answered(forest, call, allowed, result), UNCHANGED caches
  PROVE  IInv'
<1>1. ForestInv(forest') /\ CachesInv(forest', caches)
  BY GrowsLemma DEF IInv, Answered
<1>2. /\ reply' = [call |-> reply'.call, ret |-> reply'.ret,
                   stat |-> reply'.stat]
      /\ reply'.ret \in Indices(forest')
  BY DEF Answered
<1>3. CachesInv(forest, caches)' /\ ForestInv(forest)'
  BY <1>1
<1>. QED
  BY <1>2, <1>3 DEF IInv, ReplyInv

LEMMA RegisteringStep ==
  ASSUME IInv, NEW call, NEW s \in SUBSET Property,
         Register(forest, call, s), UNCHANGED caches
  PROVE  IInv' /\ Promise!Answer(call, {}, s)
<1>1. Answered(forest, call, {s}, s)
  BY RegisterLemma DEF IInv
<1>. QED
  BY <1>1, MoreAllowedLemma, InvAfterAnswerLemma, AnswerLemma

LEMMA UnionStep ==
  ASSUME IInv, NEW a \in Indices(forest), NEW b \in Indices(forest),
         set_union(a, b)
  PROVE  IInv' /\ Promise!set_union(a, b)
<1> DEFINE call == Call("set_union", <<a, b>>, {})
           s == get_value(forest, a) \cup get_value(forest, b)
<1>1. Answered(forest, call, {s}, s)
  BY UnionLemma DEF IInv, set_union
<1>2. IInv'
  BY <1>1, InvAfterAnswerLemma DEF set_union
<1>3. Promise!Answer(call, {}, s)
  BY <1>1, MoreAllowedLemma, AnswerLemma
<1>. QED
  BY <1>2, <1>3
     DEF Promise!set_union, Promise!Call, Promise!value, Call, get_value

LEMMA IntersectionStep ==
  ASSUME IInv, NEW a \in Indices(forest), NEW b \in Indices(forest),
         set_intersection(a, b)
  PROVE  IInv' /\ Promise!set_intersection(a, b)
<1> DEFINE call == Call("set_intersection", <<a, b>>, {})
           s == get_value(forest, a) \cap get_value(forest, b)
<1>1. Answered(forest, call, {s}, s)
  BY IntersectionLemma DEF IInv, set_intersection
<1>2. IInv'
  BY <1>1, InvAfterAnswerLemma DEF set_intersection
<1>3. Promise!Answer(call, {}, s)
  BY <1>1, MoreAllowedLemma, AnswerLemma
<1>. QED
  BY <1>2, <1>3
     DEF Promise!set_intersection, Promise!Call, Promise!value, Call, get_value

LEMMA DifferenceStep ==
  ASSUME IInv, NEW a \in Indices(forest), NEW b \in Indices(forest),
         set_difference(a, b)
  PROVE  IInv' /\ Promise!set_difference(a, b)
<1> DEFINE call == Call("set_difference", <<a, b>>, {})
           s == get_value(forest, a) \ get_value(forest, b)
<1>1. Answered(forest, call, {s}, s)
  BY DifferenceLemma DEF IInv, set_difference
<1>2. IInv'
  BY <1>1, InvAfterAnswerLemma DEF set_difference
<1>3. Promise!Answer(call, {}, s)
  BY <1>1, MoreAllowedLemma, AnswerLemma
<1>. QED
  BY <1>2, <1>3
     DEF Promise!set_difference, Promise!Call, Promise!value, Call, get_value

LEMMA InsertSingleStep ==
  ASSUME IInv, NEW a \in Indices(forest), NEW p \in Property,
         set_insert_single(a, p)
  PROVE  IInv' /\ Promise!set_insert_single(a, p)
<1> DEFINE call == Call("set_insert_single", <<a>>, {p})
           g == registered(forest, {p})
           s == get_value(forest, a) \cup {p}
<1>1. /\ ForestInv(g) /\ Grows(forest, g, {{p}})
      /\ a \in Indices(g) /\ get_value(g, a) = get_value(forest, a)
      /\ index_of(g, {p}) \in Indices(g)
      /\ get_value(g, index_of(g, {p})) = {p}
  <2>1. {p} \in SUBSET Property /\ ForestInv(forest)
    BY DEF IInv
  <2>2. /\ ForestInv(g) /\ Grows(forest, g, {{p}})
        /\ Indices(forest) \subseteq Indices(g)
        /\ \A i \in Indices(forest) : get_value(g, i) = get_value(forest, i)
        /\ index_of(g, {p}) \in Indices(g)
        /\ get_value(g, index_of(g, {p})) = {p}
    BY <2>1, RegistrationLemma
  <2>. QED
    BY <2>2
<1>2. Union(g, call, a, index_of(g, {p})) /\ UNCHANGED caches
  BY DEF set_insert_single
<1>. HIDE DEF g, call
<1>3. Answered(g, call, {s}, s)
  BY <1>1, <1>2, UnionLemma
<1>. HIDE DEF s
<1>4. Answered(forest, call, {{p}} \cup {s}, s)
  BY <1>1, <1>3, AnsweredAfterLemma DEF IInv
<1>5. IInv'
  BY <1>2, <1>4, InvAfterAnswerLemma
<1>6. Promise!Answer(call, {{p}}, s)
  BY <1>4, AnswerLemma
<1>. QED
  BY <1>5, <1>6 DEF Promise!set_insert_single, Promise!Call, Promise!value,
                    Call, get_value, call, s

LEMMA RemoveSingleStep ==
  ASSUME IInv, NEW a \in Indices(forest), NEW p \in Property,
         set_remove_single(a, p)
  PROVE  IInv' /\ Promise!set_remove_single(a, p)
<1> DEFINE call == Call("set_remove_single", <<a>>, {p})
           g == registered(forest, {p})
           s == get_value(forest, a) \ {p}
<1>1. /\ ForestInv(g) /\ Grows(forest, g, {{p}})
      /\ a \in Indices(g) /\ get_value(g, a) = get_value(forest, a)
      /\ index_of(g, {p}) \in Indices(g)
      /\ get_value(g, index_of(g, {p})) = {p}
  <2>1. {p} \in SUBSET Property /\ ForestInv(forest)
    BY DEF IInv
  <2>2. /\ ForestInv(g) /\ Grows(forest, g, {{p}})
        /\ Indices(forest) \subseteq Indices(g)
        /\ \A i \in Indices(forest) : get_value(g, i) = get_value(forest, i)
        /\ index_of(g, {p}) \in Indices(g)
        /\ get_value(g, index_of(g, {p})) = {p}
    BY <2>1, RegistrationLemma
  <2>. QED
    BY <2>2
<1>2. Difference(g, call, a, index_of(g, {p})) /\ UNCHANGED caches
  BY DEF set_remove_single
<1>. HIDE DEF g, call
<1>3. Answered(g, call, {s}, s)
  BY <1>1, <1>2, DifferenceLemma
<1>. HIDE DEF s
<1>4. Answered(forest, call, {{p}} \cup {s}, s)
  BY <1>1, <1>3, AnsweredAfterLemma DEF IInv
<1>5. IInv'
  BY <1>2, <1>4, InvAfterAnswerLemma
<1>6. Promise!Answer(call, {{p}}, s)
  BY <1>4, AnswerLemma
<1>. QED
  BY <1>5, <1>6 DEF Promise!set_remove_single, Promise!Call, Promise!value,
                    Call, get_value, call, s

LEMMA RemoveKeyStep ==
  ASSUME IInv, NEW a \in Indices(forest), NEW p \in Property,
         set_remove_single_key(a, p)
  PROVE  IInv' /\ Promise!set_remove_single_key(a, p)
<1> DEFINE call == Call("set_remove_single_key", <<a>>, {p})
           s == get_value(forest, a) \ {p}
<1>1. s \in SUBSET Property
  BY StoredValueLemma DEF IInv
<1>2. IInv' /\ Promise!Answer(call, {}, s)
  BY <1>1, RegisteringStep DEF set_remove_single_key
<1>. QED
  BY <1>2 DEF Promise!set_remove_single_key, Promise!Call, Promise!value,
              Call, get_value

(* A filter writes its cache besides the forest.                            *)
LEMMA FilterStep ==
  ASSUME IInv, NEW s \in Indices(forest), NEW keep \in Filter,
         set_filter(s, keep)
  PROVE  IInv' /\ Promise!set_filter(s, keep)
<1> DEFINE call == Call("set_filter", <<s>>, keep)
           kept == get_value(forest, s) \cap keep
           g == registered(forest, kept)
           r == index_of(g, kept)
           cache == caches[keep]
<1>1. kept \in SUBSET Property
  BY StoredValueLemma DEF IInv
<1>2. SUFFICES Answered(forest, call, {kept}, kept) /\ IInv'
  <2>1. Promise!Answer(call, {}, kept)
    BY <1>2, MoreAllowedLemma, AnswerLemma
  <2>. QED
    BY <1>2, <2>1
       DEF Promise!set_filter, Promise!Call, Promise!value, Call, get_value
<1>3. CASE is_empty(s) /\ Return(call, forest, s, "none") /\ UNCHANGED caches
  <2>1. get_value(forest, s) = kept
    BY <1>3, StoredValueLemma DEF is_empty, IInv
  <2>2. Answered(forest, call, {kept}, kept)
    BY <1>3, <2>1, FromMemoryLemma DEF IInv
  <2>. QED
    BY <1>3, <2>2, InvAfterAnswerLemma
<1>4. CASE /\ s \in DOMAIN cache /\ Return(call, forest, cache[s], "hits")
           /\ UNCHANGED caches
  <2>1. cache[s] \in Indices(forest) /\ get_value(forest, cache[s]) = kept
    BY <1>4 DEF IInv, CachesInv, IsMap, FiltersSound
  <2>2. Answered(forest, call, {kept}, kept)
    BY <1>4, <2>1, FromMemoryLemma DEF IInv
  <2>. QED
    BY <1>4, <2>2, InvAfterAnswerLemma
<1>5. CASE /\ Return(call, g, r, miss_stat(forest, kept))
           /\ caches' = [caches EXCEPT ![keep] = Insert(@, s, r)]
  <2>1. /\ ForestInv(g) /\ Grows(forest, g, {kept})
        /\ r \in Indices(g) /\ get_value(g, r) = kept
    BY <1>1, RegistrationLemma DEF IInv
  <2>2. SameSets(g, g) /\ forest' = g
    BY <1>5, <2>1 DEF SameSets, Return
  <2>3. Answered(forest, call, {kept}, kept)
    BY <1>1, <1>5, <2>2, ComputedLemma DEF IInv
  <2>. HIDE DEF g, r, kept
  <2>4. /\ Indices(forest) \subseteq Indices(g)
        /\ \A i \in Indices(forest) : get_value(g, i) = get_value(forest, i)
        /\ CachesInv(g, caches)
    BY <2>1, GrowsLemma DEF IInv
  <2>5. IsMap(cache, Indices(g), Indices(g))
    BY <2>4 DEF CachesInv
  <2>6. /\ IsMap(Insert(cache, s, r), Indices(g), Indices(g))
        /\ DOMAIN Insert(cache, s, r) = DOMAIN cache \cup {s}
        /\ \A x \in DOMAIN cache : Insert(cache, s, r)[x] = cache[x]
        /\ s \notin DOMAIN cache => Insert(cache, s, r)[s] = r
    BY <2>1, <2>4, <2>5 DEF IsMap, Insert
  <2>7. /\ caches' = [k \in Filter |-> caches'[k]]
        /\ caches'[keep] = Insert(cache, s, r)
        /\ \A k \in Filter : k # keep => caches'[k] = caches[k]
    BY <1>5 DEF IInv, CachesInv
  <2>8. FiltersSound(g, caches')
    <3>1. SUFFICES ASSUME NEW k \in Filter, NEW i \in DOMAIN caches'[k]
                   PROVE  get_value(g, caches'[k][i]) = get_value(g, i) \cap k
      BY DEF FiltersSound
    <3>2. CASE i \in DOMAIN caches[k]
      <4>1. caches'[k][i] = caches[k][i]
        BY <3>2, <2>6, <2>7
      <4>. QED
        BY <3>2, <4>1, <2>4 DEF CachesInv, FiltersSound
    <3>3. CASE i \notin DOMAIN caches[k]
      <4>1. k = keep /\ i = s /\ caches'[k][i] = r
        BY <3>3, <2>6, <2>7
      <4>. QED
        BY <4>1, <2>1, <2>4 DEF kept
    <3>. QED
      BY <3>2, <3>3
  <2>9. CachesInv(g, caches')
    BY <2>4, <2>6, <2>7, <2>8 DEF CachesInv
  <2>10. IInv'
    BY <2>2, <2>3, <2>9 DEF IInv, ReplyInv, Answered
  <2>. QED
    BY <2>3, <2>10
<1>. QED
  BY <1>3, <1>4, <1>5 DEF set_filter

LEMMA StepLemma ==
  ASSUME IInv, Next
  PROVE  IInv' /\ Promise!Next
<1>0. Promise!Indices = Indices(forest)
  BY DEF Promise!Indices, Indices
<1>1. CASE \E s \in SUBSET Property : register_set(s)
  <2>1. PICK s \in SUBSET Property : register_set(s)
    BY <1>1
  <2>2. IInv' /\ Promise!Answer(Call("register_set", <<>>, s), {}, s)
    BY <2>1, RegisteringStep DEF register_set
  <2>. QED
    BY <2>2 DEF Promise!Next, Promise!register_set, Promise!Call, Call
<1>2. CASE \E p \in Property : register_set_single(p)
  <2>1. PICK p \in Property : register_set_single(p)
    BY <1>2
  <2>2. /\ IInv'
        /\ Promise!Answer(Call("register_set_single", <<>>, {p}), {}, {p})
    BY <2>1, RegisteringStep DEF register_set_single
  <2>. QED
    BY <2>2 DEF Promise!Next, Promise!register_set_single, Promise!Call, Call
<1>3. CASE \E a, b \in Indices(forest) :
             set_union(a, b) \/ set_difference(a, b) \/ set_intersection(a, b)
  <2>1. PICK a \in Indices(forest), b \in Indices(forest) :
             set_union(a, b) \/ set_difference(a, b) \/ set_intersection(a, b)
    BY <1>3
  <2>2. CASE set_union(a, b)
    BY <1>0, <2>2, UnionStep DEF Promise!Next
  <2>3. CASE set_difference(a, b)
    BY <1>0, <2>3, DifferenceStep DEF Promise!Next
  <2>4. CASE set_intersection(a, b)
    BY <1>0, <2>4, IntersectionStep DEF Promise!Next
  <2>. QED
    BY <2>1, <2>2, <2>3, <2>4
<1>4. CASE \E a \in Indices(forest), p \in Property :
             \/ set_insert_single(a, p)
             \/ set_remove_single(a, p)
             \/ set_remove_single_key(a, p)
  <2>1. PICK a \in Indices(forest), p \in Property :
             \/ set_insert_single(a, p)
             \/ set_remove_single(a, p)
             \/ set_remove_single_key(a, p)
    BY <1>4
  <2>2. CASE set_insert_single(a, p)
    BY <1>0, <2>2, InsertSingleStep DEF Promise!Next
  <2>3. CASE set_remove_single(a, p)
    BY <1>0, <2>3, RemoveSingleStep DEF Promise!Next
  <2>4. CASE set_remove_single_key(a, p)
    BY <1>0, <2>4, RemoveKeyStep DEF Promise!Next
  <2>. QED
    BY <2>1, <2>2, <2>3, <2>4
<1>5. CASE \E s \in Indices(forest), keep \in Filter : set_filter(s, keep)
  <2>1. PICK s \in Indices(forest), keep \in Filter : set_filter(s, keep)
    BY <1>5
  <2>. QED
    BY <1>0, <2>1, FilterStep DEF Promise!Next
<1>. QED
  BY <1>1, <1>2, <1>3, <1>4, <1>5 DEF Next

LEMMA InitLemma ==
  ASSUME Init
  PROVE  IInv /\ Promise!Init
<1>1. forest = FreshForest /\ ForestInv(forest)
  BY FreshLemma DEF Init
<1>2. forest.property_sets = <<{}>> /\ Indices(forest) = {0}
  BY <1>1 DEF FreshForest, Indices
<1>3. CachesInv(forest, caches)
  BY DEF Init, CachesInv, FiltersSound, IsMap, NoEntries
<1>4. ReplyInv(forest)
  BY <1>2 DEF Init, ReplyInv, EMPTY_SET_VALUE
<1>5. Promise!Init
  BY <1>2 DEF Init, Promise!Init, Promise!Call, Call, EMPTY_SET_VALUE
<1>. QED
  BY <1>1, <1>3, <1>4, <1>5 DEF IInv

(* The invariant is inductive.                                              *)
THEOREM Invariance == Spec => []IInv
<1>1. Init => IInv
  BY InitLemma
<1>2. IInv /\ [Next]_vars => IInv'
  <2>1. ASSUME IInv, UNCHANGED vars
        PROVE  IInv'
    BY <2>1 DEF vars, IInv, ReplyInv
  <2>. QED
    BY <2>1, StepLemma
<1>. QED
  BY <1>1, <1>2, PTL DEF Spec

(* Every map of the forest leads from indices that exist to indices that    *)
(* exist, so get_value of anything an operation hands out or looks up finds *)
(* a set (lhf.hpp 1786).                                                    *)
THEOREM TypeCorrect == Spec => []TypeOK
<1>1. IInv => TypeOK
  BY DEF IInv, ForestInv, CachesInv, ReplyInv, TypeOK
<1>. QED
  BY <1>1, Invariance, PTL

(* A set never has two indices and property_set_map finds the one it has,   *)
(* whatever the order of registrations, operations and filters.             *)
THEOREM OneIndexPerSet == Spec => []IndexCanonical
<1>1. IInv => IndexCanonical
  BY DEF IInv, ForestInv, IndexCanonical
<1>. QED
  BY <1>1, Invariance, PTL

(* Every union, intersection, difference, containment and filter that is    *)
(* remembered, by whichever operation, is true of the sets themselves.      *)
THEOREM RecordsTrue == Spec => []RecordsSound
<1>1. IInv => RecordsSound
  BY DEF IInv, ForestInv, CachesInv, RecordsSound
<1>. QED
  BY <1>1, Invariance, PTL

(* The forest implements UniqueIndexing: a call returns the index of the    *)
(* set its operation denotes, and no set is ever moved or stored twice.     *)
THEOREM Implementation == Spec => KeepsPromise
<1>1. Init => Promise!Init
  BY InitLemma
<1>2. IInv /\ [Next]_vars => [Promise!Next]_(Promise!vars)
  <2>1. ASSUME UNCHANGED vars
        PROVE  UNCHANGED Promise!vars
    BY <2>1 DEF vars, Promise!vars
  <2>. QED
    BY <2>1, StepLemma
<1>. QED
  BY <1>1, <1>2, Invariance, PTL DEF Spec, KeepsPromise, Promise!Spec

-----------------------------------------------------------------------------
(* What an operation leaves behind *)

(* ByProductsKept, as a predicate of the members of a forest.               *)
UnionsRelated(f) ==
  \A k \in DOMAIN f.unions :
    Known(f, k[1], f.unions[k]) /\ Known(f, k[2], f.unions[k])

DifferenceRelated(f, k) ==
  IF f.differences[k] # k[1]
    THEN Known(f, f.differences[k], k[1])
    ELSE <<minimum(k[1], k[2]), maximum(k[1], k[2])>> \in DOMAIN f.intersections

Related(f) ==
  UnionsRelated(f) /\ \A k \in DOMAIN f.differences : DifferenceRelated(f, k)

(* g remembers what f remembers, and relates what it adds.                  *)
Learns(f, g) == Remembers(f, g) /\ (Related(f) => Related(g))

LEMMA LearnsTransitive ==
  ASSUME NEW f, NEW g, NEW h, Learns(f, g), Learns(g, h)
  PROVE  Learns(f, h)
BY RemembersTransitive DEF Learns

(* Known containments stay known.                                           *)
LEMMA KnownKept ==
  ASSUME NEW f, NEW g, Remembers(f, g), NEW a, NEW b, Known(f, a, b)
  PROVE  Known(g, a, b)
BY DEF Known, is_subset, Remembers, Kept

(* A forest with the same unions and differences relates them as before.    *)
LEMMA SameRelated ==
  ASSUME NEW f, NEW g, Remembers(f, g),
         g.unions = f.unions, g.differences = f.differences
  PROVE  Learns(f, g)
<1>. SUFFICES ASSUME Related(f) PROVE Related(g)
  BY DEF Learns
<1>1. UnionsRelated(g)
  BY KnownKept DEF Related, UnionsRelated
<1>2. ASSUME NEW k \in DOMAIN g.differences PROVE DifferenceRelated(g, k)
  <2>1. DifferenceRelated(f, k)
    BY DEF Related
  <2>2. DOMAIN f.intersections \subseteq DOMAIN g.intersections
    BY DEF Remembers, Kept
  <2>. QED
    BY <2>1, <2>2, KnownKept DEF DifferenceRelated
<1>. QED
  BY <1>1, <1>2 DEF Related

LEMMA RegisteredLearns ==
  ASSUME NEW f, ForestInv(f), NEW s
  PROVE  /\ Learns(f, registered(f, s))
         /\ registered(f, s).unions = f.unions
         /\ registered(f, s).differences = f.differences
         /\ registered(f, s).subsets = f.subsets
<1> DEFINE g == registered(f, s)
<1>1. /\ g.unions = f.unions /\ g.intersections = f.intersections
      /\ g.differences = f.differences /\ g.subsets = f.subsets
  BY DEF registered, ForestInv, ForestType
<1>. HIDE DEF g
<1>2. Remembers(f, g)
  BY <1>1 DEF Remembers, Kept
<1>. QED
  BY <1>1, <1>2, SameRelated DEF g

(* A containment that is recorded is known: were the opposite one in its    *)
(* place, the two sets would be the same and have one index.                *)
LEMMA StoreSubsetLearns ==
  ASSUME NEW f, ForestInv(f), NEW a \in Indices(f), NEW b \in Indices(f),
         a # b, get_value(f, a) \subseteq get_value(f, b)
  PROVE  LET g == store_subset(f, a, b)
         IN  /\ Learns(f, g) /\ Known(g, a, b)
             /\ g.unions = f.unions
             /\ g.intersections = f.intersections
             /\ g.differences = f.differences
<1> DEFINE g == store_subset(f, a, b)
           k == IF a > b THEN <<b, a>> ELSE <<a, b>>
           v == IF a > b THEN "SUPERSET" ELSE "SUBSET"
<1>1. /\ g.subsets = Insert(f.subsets, k, v)
      /\ g.unions = f.unions
      /\ g.intersections = f.intersections
      /\ g.differences = f.differences
  BY DEF store_subset, ForestInv, ForestType
<1>2. Remembers(f, g)
  BY TrustedLemma, StoreSubsetRemembers
<1>3. k \in DOMAIN g.subsets /\ g.subsets[k] = v
  <2>1. CASE k \notin DOMAIN f.subsets
    BY <1>1, <2>1 DEF Insert
  <2>2. CASE k \in DOMAIN f.subsets
    <3>1. g.subsets = f.subsets /\ f.subsets[k] \in {"SUBSET", "SUPERSET"}
      BY <1>1, <2>2 DEF Insert, ForestInv, ForestType, IsMap
    <3>2. get_value(f, a) # get_value(f, b)
      BY DEF ForestInv, Canonical
    <3>3. /\ f.subsets[k] = "SUBSET"
               => get_value(f, k[1]) \subseteq get_value(f, k[2])
          /\ f.subsets[k] = "SUPERSET"
               => get_value(f, k[2]) \subseteq get_value(f, k[1])
      BY <2>2 DEF ForestInv, Sound, SubsetsSound
    <3>4. CASE a > b
      <4>1. k[1] = b /\ k[2] = a /\ v = "SUPERSET"
        BY <3>4
      <4>2. f.subsets[k] # "SUBSET"
        BY <3>2, <3>3, <4>1
      <4>. QED
        BY <2>2, <3>1, <4>1, <4>2
    <3>5. CASE ~ (a > b)
      <4>1. k[1] = a /\ k[2] = b /\ v = "SUBSET"
        BY <3>5
      <4>2. f.subsets[k] # "SUPERSET"
        BY <3>2, <3>3, <4>1
      <4>. QED
        BY <2>2, <3>1, <4>1, <4>2
    <3>. QED
      BY <3>4, <3>5
  <2>. QED
    BY <2>1, <2>2
<1>. HIDE DEF g
<1>4. Known(g, a, b)
  BY <1>3 DEF Known, is_subset
<1>. QED
  BY <1>1, <1>2, <1>4, SameRelated DEF g

(* A union that was computed is found in its map and related to both        *)
(* operands, in whichever of its three ways the code records it.            *)
LEMMA UnionRecordedLearns ==
  ASSUME NEW f, ForestInv(f), NEW a \in Indices(f), NEW b \in Indices(f),
         0 < a, a < b, NEW r \in Indices(f),
         get_value(f, r) = get_value(f, a) \cup get_value(f, b)
  PROVE  /\ Learns(f, union_recorded(f, a, b, r))
         /\ <<a, b>> \in DOMAIN union_recorded(f, a, b, r).unions
<1> DEFINE k == <<a, b>>
           g == [f EXCEPT !.unions = Insert(@, k, r)]
           h == union_recorded(f, a, b, r)
<1>0. a \in Nat /\ b \in Nat /\ a # b
  BY DEF Indices
<1>1. /\ g.unions = Insert(f.unions, k, r)
      /\ g.intersections = f.intersections
      /\ g.differences = f.differences
      /\ g.subsets = f.subsets
  BY DEF ForestInv, ForestType
<1>2. ForestInv(g) /\ Indices(g) = Indices(f)
      /\ \A i : get_value(g, i) = get_value(f, i)
  <2>1. SameSets(f, g)
    BY RecordUnionLemma DEF Pairs, Ordered
  <2>. QED
    BY <2>1, SameSetsLemma DEF SameSets
<1>3. h = IF r = a THEN store_subset(g, b, r)
          ELSE IF r = b THEN store_subset(g, a, r)
          ELSE store_subset(store_subset(g, a, r), b, r)
  BY DEF union_recorded
<1>. HIDE DEF g, h
<1>4. Remembers(f, g)
  BY <1>1, InsertKeeps DEF Remembers, Kept
<1>5. /\ Remembers(g, h)
      /\ h.unions = g.unions /\ h.differences = g.differences
      /\ Known(h, a, r) /\ Known(h, b, r)
  <2>1. CASE r = a
    <3>1. h = store_subset(g, b, r) /\ b # r
      BY <1>0, <1>3, <2>1
    <3>. QED
      BY <1>2, <2>1, <3>1, StoreSubsetLearns DEF Learns, Known
  <2>2. CASE r = b
    <3>1. h = store_subset(g, a, r) /\ a # r
      BY <1>0, <1>3, <2>2
    <3>. QED
      BY <1>2, <2>2, <3>1, StoreSubsetLearns DEF Learns, Known
  <2>3. CASE r # a /\ r # b
    <3> DEFINE m == store_subset(g, a, r)
    <3>1. SameSets(g, m)
      BY <1>2, <2>3, StoreSubsetLemma
    <3>2. Indices(m) = Indices(g) /\ \A i : get_value(m, i) = get_value(g, i)
      BY <3>1, SameSetsLemma
    <3>3. /\ Learns(g, m) /\ Known(m, a, r)
          /\ m.unions = g.unions /\ m.differences = g.differences
      BY <1>2, <2>3, StoreSubsetLearns
    <3>4. h = store_subset(m, b, r)
      BY <1>3, <2>3
    <3>. HIDE DEF m
    <3>5. /\ Learns(m, h) /\ Known(h, b, r)
          /\ h.unions = m.unions /\ h.differences = m.differences
      BY <1>2, <2>3, <3>1, <3>2, <3>4, StoreSubsetLearns DEF SameSets
    <3>6. Known(h, a, r)
      BY <3>3, <3>5, KnownKept DEF Learns
    <3>7. Remembers(g, h)
      BY <3>3, <3>5, RemembersTransitive DEF Learns
    <3>. QED
      BY <3>3, <3>5, <3>6, <3>7
  <2>. QED
    BY <2>1, <2>2, <2>3
<1>6. Remembers(f, h)
  BY <1>4, <1>5, RemembersTransitive
<1>7. ASSUME Related(f) PROVE Related(h)
  <2>1. ASSUME NEW x \in DOMAIN h.unions
        PROVE  Known(h, x[1], h.unions[x]) /\ Known(h, x[2], h.unions[x])
    <3>1. CASE x \in DOMAIN f.unions
      <4>1. h.unions[x] = f.unions[x]
        BY <3>1, <1>6 DEF Remembers, Kept
      <4>2. Known(f, x[1], f.unions[x]) /\ Known(f, x[2], f.unions[x])
        BY <3>1, <1>7 DEF Related, UnionsRelated
      <4>. QED
        BY <1>6, <4>1, <4>2, KnownKept
    <3>2. CASE x \notin DOMAIN f.unions
      <4>1. x = k /\ h.unions[x] = r
        BY <3>2, <1>1, <1>5 DEF Insert
      <4>. QED
        BY <4>1, <1>5
    <3>. QED
      BY <3>1, <3>2
  <2>2. ASSUME NEW x \in DOMAIN h.differences PROVE DifferenceRelated(h, x)
    <3>1. DifferenceRelated(f, x) /\ h.differences = f.differences
      BY <1>1, <1>5, <1>7 DEF Related
    <3>2. DOMAIN f.intersections \subseteq DOMAIN h.intersections
      BY <1>6 DEF Remembers, Kept
    <3>. QED
      BY <1>6, <3>1, <3>2, KnownKept DEF DifferenceRelated
  <2>. QED
    BY <2>1, <2>2 DEF Related, UnionsRelated
<1>8. k \in DOMAIN h.unions
  BY <1>1, <1>5, InsertKeeps
<1>. QED
  BY <1>6, <1>7, <1>8 DEF Learns, h

LEMMA IntersectionRecordedLearns ==
  ASSUME NEW f, ForestInv(f), NEW a \in Indices(f), NEW b \in Indices(f),
         0 < a, a < b, NEW r \in Indices(f),
         get_value(f, r) = get_value(f, a) \cap get_value(f, b)
  PROVE  /\ Learns(f, intersection_recorded(f, a, b, r))
         /\ <<a, b>> \in DOMAIN intersection_recorded(f, a, b, r).intersections
<1> DEFINE k == <<a, b>>
           g == [f EXCEPT !.intersections = Insert(@, k, r)]
           h == intersection_recorded(f, a, b, r)
<1>1. /\ g.intersections = Insert(f.intersections, k, r)
      /\ g.unions = f.unions
      /\ g.differences = f.differences
      /\ g.subsets = f.subsets
  BY DEF ForestInv, ForestType
<1>2. /\ ForestInv(g) /\ Indices(g) = Indices(f)
      /\ \A i : get_value(g, i) = get_value(f, i)
  <2>1. SameSets(f, g)
    BY RecordIntersectionLemma DEF Pairs, Ordered
  <2>. QED
    BY <2>1, SameSetsLemma DEF SameSets
<1>3. \E i, j \in Indices(g) :
        /\ i # j /\ get_value(g, i) \subseteq get_value(g, j)
        /\ h = store_subset(g, i, j)
  <2>1. h = IF r # a THEN store_subset(g, r, a) ELSE store_subset(g, r, b)
    BY DEF intersection_recorded
  <2>. HIDE DEF g, h
  <2>2. CASE r # a
    BY <1>2, <2>1, <2>2
  <2>3. CASE r = a
    <3>1. r # b
      BY <2>3 DEF Indices
    <3>. QED
      BY <1>2, <2>1, <2>3, <3>1
  <2>. QED
    BY <2>2, <2>3
<1>. HIDE DEF g, h
<1>4. /\ Learns(g, h)
      /\ h.unions = g.unions /\ h.differences = g.differences
      /\ h.intersections = g.intersections
  BY <1>2, <1>3, StoreSubsetLearns
<1>5. Remembers(f, g) /\ k \in DOMAIN g.intersections
  BY <1>1, InsertKeeps DEF Remembers, Kept
<1>6. Learns(f, g)
  BY <1>1, <1>5, SameRelated
<1>. QED
  BY <1>4, <1>5, <1>6, LearnsTransitive DEF h

(* A difference is found in its map, and its containment or the empty       *)
(* intersection of its operands is left behind.                             *)
LEMMA DifferenceRecordedLearns ==
  ASSUME NEW f, ForestInv(f), NEW a \in Indices(f), NEW b \in Indices(f),
         a # 0, b # 0, a # b, NEW r \in Indices(f),
         get_value(f, r) = get_value(f, a) \ get_value(f, b)
  PROVE  /\ Learns(f, difference_recorded(f, a, b, r))
         /\ <<a, b>> \in DOMAIN difference_recorded(f, a, b, r).differences
<1> DEFINE k == <<a, b>>
           p == <<minimum(a, b), maximum(a, b)>>
           g == [f EXCEPT !.differences = Insert(@, k, r)]
           h == difference_recorded(f, a, b, r)
<1>1. /\ g.differences = Insert(f.differences, k, r)
      /\ g.unions = f.unions
      /\ g.intersections = f.intersections
      /\ g.subsets = f.subsets
  BY DEF ForestInv, ForestType
<1>2. /\ ForestInv(g) /\ Indices(g) = Indices(f)
      /\ \A i : get_value(g, i) = get_value(f, i)
  <2>1. k \in Pairs(f)
    BY DEF Pairs
  <2>2. SameSets(f, g)
    BY <2>1, RecordDifferenceLemma
  <2>. QED
    BY <2>2, SameSetsLemma DEF SameSets
<1>3. h = IF r # a
            THEN store_subset(g, r, a)
            ELSE [g EXCEPT !.intersections = Insert(@, p, EMPTY_SET_VALUE)]
  BY DEF difference_recorded
<1>. HIDE DEF g, h, p
<1>4. Remembers(f, g)
  BY <1>1, InsertKeeps DEF Remembers, Kept
<1>5. /\ Remembers(g, h)
      /\ h.unions = g.unions /\ h.differences = g.differences
      /\ IF r # a THEN Known(h, r, a) ELSE p \in DOMAIN h.intersections
  <2>1. CASE r # a
    BY <1>2, <1>3, <2>1, StoreSubsetLearns DEF Learns
  <2>2. CASE r = a
    <3>1. /\ h.intersections = Insert(g.intersections, p, EMPTY_SET_VALUE)
          /\ h.unions = g.unions /\ h.differences = g.differences
          /\ h.subsets = g.subsets
      BY <1>2, <1>3, <2>2 DEF ForestInv, ForestType
    <3>. QED
      BY <2>2, <3>1, InsertKeeps DEF Remembers, Kept
  <2>. QED
    BY <2>1, <2>2
<1>6. Remembers(f, h)
  BY <1>4, <1>5, RemembersTransitive
<1>7. ASSUME Related(f) PROVE Related(h)
  <2>1. UnionsRelated(h)
    BY <1>1, <1>5, <1>6, <1>7, KnownKept DEF Related, UnionsRelated
  <2>2. ASSUME NEW x \in DOMAIN h.differences PROVE DifferenceRelated(h, x)
    <3>1. CASE x \in DOMAIN f.differences
      <4>1. DifferenceRelated(f, x) /\ h.differences[x] = f.differences[x]
        BY <3>1, <1>6, <1>7 DEF Related, Remembers, Kept
      <4>2. DOMAIN f.intersections \subseteq DOMAIN h.intersections
        BY <1>6 DEF Remembers, Kept
      <4>. QED
        BY <1>6, <4>1, <4>2, KnownKept DEF DifferenceRelated
    <3>2. CASE x \notin DOMAIN f.differences
      <4>1. x = k /\ h.differences[x] = r
        BY <3>2, <1>1, <1>5 DEF Insert
      <4>2. x[1] = a /\ x[2] = b
        BY <4>1
      <4>. QED
        BY <1>5, <4>1, <4>2 DEF DifferenceRelated, p
    <3>. QED
      BY <3>1, <3>2
  <2>. QED
    BY <2>1, <2>2 DEF Related
<1>8. k \in DOMAIN h.differences
  BY <1>1, <1>5, InsertKeeps
<1>. QED
  BY <1>6, <1>7, <1>8 DEF Learns, h

-----------------------------------------------------------------------------
(* What the operations leave behind, and what they count *)

(* The counter of a computation tells whether the set it found is new.      *)
LEMMA MissLemma ==
  ASSUME NEW f, ForestInv(f), NEW s \in SUBSET Property
  PROVE  LET r == index_of(registered(f, s), s)
         IN  /\ miss_stat(f, s) = "cold_misses" <=> r \notin Indices(f)
             /\ register_stat(f, s) = "cold_misses" <=> r \notin Indices(f)
             /\ miss_stat(f, s) \in {"cold_misses", "edge_misses"}
             /\ register_stat(f, s) \in {"cold_misses", "hits"}
<1>1. CASE s \in DOMAIN f.property_set_map
  BY <1>1 DEF registered, index_of, miss_stat, register_stat, ForestInv,
              ForestType, IsMap
<1>2. CASE s \notin DOMAIN f.property_set_map
  <2>1. registered(f, s).property_set_map
          = Insert(f.property_set_map, s, Len(f.property_sets))
    BY <1>2 DEF registered, ForestInv, ForestType
  <2>2. index_of(registered(f, s), s) = Len(f.property_sets)
    BY <1>2, <2>1 DEF index_of, Insert
  <2>3. Len(f.property_sets) \notin Indices(f)
    BY DEF Indices, ForestInv, ForestType
  <2>. QED
    BY <1>2, <2>2, <2>3 DEF miss_stat, register_stat
<1>. QED
  BY <1>1, <1>2

(* What an operation `op` on (x, y) that starts from f does: it learns, can *)
(* then be answered from memory, counts a cold miss for just the sets that  *)
(* are new, and an edge miss only if it could not be answered before.       *)
Performed(f, op, x, y) ==
  /\ Learns(f, forest')
  /\ remembered(forest', op, x, y) # {}
  /\ reply'.stat = "cold_misses" <=> reply'.ret \notin Indices(f)
  /\ reply'.stat = "edge_misses" => remembered(f, op, x, y) = {}

(* An operation that is answered from memory.                               *)
LEMMA MemoryPerformed ==
  ASSUME NEW f, NEW op, NEW x, NEW y, NEW call, NEW r \in Indices(f),
         NEW stat, stat \notin {"cold_misses", "edge_misses"},
         Return(call, f, r, stat), remembered(f, op, x, y) # {}
  PROVE  Performed(f, op, x, y)
<1>1. forest' = f /\ reply'.ret = r /\ reply'.stat = stat
  BY DEF Return
<1>2. Learns(f, f)
  BY DEF Learns, Remembers, Kept
<1>. QED
  BY <1>1, <1>2 DEF Performed

(* An operation that is computed and recorded.                              *)
LEMMA ComputedPerformed ==
  ASSUME NEW f, ForestInv(f), NEW op, NEW x, NEW y, NEW call, NEW h,
         NEW s \in SUBSET Property,
         Learns(registered(f, s), h),
         remembered(f, op, x, y) = {}, remembered(h, op, x, y) # {},
         Return(call, h, index_of(registered(f, s), s), miss_stat(f, s))
  PROVE  Performed(f, op, x, y)
<1>1. /\ forest' = h
      /\ reply'.ret = index_of(registered(f, s), s)
      /\ reply'.stat = miss_stat(f, s)
  BY DEF Return
<1>2. Learns(f, h)
  BY RegisteredLearns, LearnsTransitive
<1>. QED
  BY <1>1, <1>2, MissLemma DEF Performed

LEMMA UnionPerformed ==
  ASSUME NEW f, ForestInv(f), NEW call, NEW x \in Indices(f),
         NEW y \in Indices(f), Union(f, call, x, y)
  PROVE  Performed(f, "set_union", x, y)
<1> DEFINE op == "set_union"
           a == minimum(x, y)
           b == maximum(x, y)
           s == get_value(f, a) \cup get_value(f, b)
           g == registered(f, s)
           r == index_of(g, s)
           k == <<a, b>>
<1>0. /\ a \in Indices(f) /\ b \in Indices(f) /\ k \in Pairs(f)
      /\ x # y => a < b
      /\ ~is_empty(a) => 0 < a
      /\ s \in SUBSET Property
  BY StoredValueLemma DEF minimum, maximum, Pairs, is_empty, EMPTY_SET_VALUE
<1>1. \A h : remembered(h, op, x, y)
               = IF x = y \/ is_empty(a) THEN {b}
                 ELSE IF is_subset(h, a, b) = "SUBSET" THEN {b}
                 ELSE IF is_subset(h, a, b) = "SUPERSET" THEN {a}
                 ELSE IF k \in DOMAIN h.unions THEN {h.unions[k]} ELSE {}
  BY DEF remembered
<1>2. CASE \E i \in Indices(f), stat \in {"equal_hits", "empty_hits",
                                          "subset_hits", "hits"} :
             Return(call, f, i, stat) /\ remembered(f, op, x, y) # {}
  BY <1>2, MemoryPerformed
<1>3. CASE /\ x # y /\ ~is_empty(a)
           /\ is_subset(f, a, b) = "UNKNOWN" /\ k \notin DOMAIN f.unions
           /\ Return(call, union_recorded(g, a, b, r), r, miss_stat(f, s))
  <2> DEFINE h == union_recorded(g, a, b, r)
  <2>1. remembered(f, op, x, y) = {}
    BY <1>1, <1>3
  <2>2. /\ ForestInv(g) /\ r \in Indices(g) /\ get_value(g, r) = s
        /\ Indices(f) \subseteq Indices(g)
        /\ \A i \in Indices(f) : get_value(g, i) = get_value(f, i)
    BY <1>0, RegistrationLemma
  <2>3. /\ a \in Indices(g) /\ b \in Indices(g) /\ r \in Indices(g)
        /\ get_value(g, r) = get_value(g, a) \cup get_value(g, b)
    BY <1>0, <2>2
  <2>. HIDE DEF a, b, g, r
  <2>4. Learns(g, h) /\ k \in DOMAIN h.unions
    BY <1>0, <1>3, <2>2, <2>3, UnionRecordedLearns
  <2>. HIDE DEF h, k
  <2>5. remembered(h, op, x, y) # {}
    BY <1>1, <2>4
  <2>. HIDE DEF s
  <2>6. Learns(registered(f, s), h)
    BY <2>4 DEF g
  <2>7. Return(call, h, index_of(registered(f, s), s), miss_stat(f, s))
    BY <1>3 DEF g, r, h
  <2>. QED
    BY <1>0, <2>1, <2>5, <2>6, <2>7, ComputedPerformed
<1>4. CASE x = y /\ Return(call, f, x, "equal_hits")
  BY <1>1, <1>2, <1>4
<1>5. CASE x # y /\ is_empty(a) /\ Return(call, f, b, "empty_hits")
  BY <1>0, <1>1, <1>2, <1>5
<1>6. CASE /\ x # y /\ ~is_empty(a) /\ is_subset(f, a, b) = "SUBSET"
           /\ Return(call, f, b, "subset_hits")
  BY <1>0, <1>1, <1>2, <1>6
<1>7. CASE /\ x # y /\ ~is_empty(a) /\ is_subset(f, a, b) = "SUPERSET"
           /\ Return(call, f, a, "subset_hits")
  BY <1>0, <1>1, <1>2, <1>7
<1>8. CASE /\ x # y /\ ~is_empty(a) /\ is_subset(f, a, b) = "UNKNOWN"
           /\ k \in DOMAIN f.unions /\ Return(call, f, f.unions[k], "hits")
  <2>1. f.unions[k] \in Indices(f)
    BY <1>8 DEF ForestInv, ForestType, IsMap
  <2>2. remembered(f, op, x, y) # {}
    BY <1>1, <1>8
  <2>. QED
    BY <1>2, <1>8, <2>1, <2>2
<1>. QED
  BY <1>3, <1>4, <1>5, <1>6, <1>7, <1>8 DEF Union

LEMMA IntersectionPerformed ==
  ASSUME NEW f, ForestInv(f), NEW call, NEW x \in Indices(f),
         NEW y \in Indices(f), Intersection(f, call, x, y)
  PROVE  Performed(f, "set_intersection", x, y)
<1> DEFINE op == "set_intersection"
           a == minimum(x, y)
           b == maximum(x, y)
           s == get_value(f, a) \cap get_value(f, b)
           g == registered(f, s)
           r == index_of(g, s)
           k == <<a, b>>
<1>0. /\ a \in Indices(f) /\ b \in Indices(f) /\ k \in Pairs(f)
      /\ EMPTY_SET_VALUE \in Indices(f)
      /\ x # y => a < b
      /\ ~is_empty(a) => 0 < a
      /\ s \in SUBSET Property
  BY StoredValueLemma DEF minimum, maximum, Pairs, is_empty, EMPTY_SET_VALUE
<1>1. \A h : remembered(h, op, x, y)
               = IF x = y \/ is_empty(a) THEN {a}
                 ELSE IF is_subset(h, a, b) = "SUBSET" THEN {a}
                 ELSE IF is_subset(h, a, b) = "SUPERSET" THEN {b}
                 ELSE IF k \in DOMAIN h.intersections
                        THEN {h.intersections[k]} ELSE {}
  BY DEF remembered
<1>2. CASE \E i \in Indices(f), stat \in {"equal_hits", "empty_hits",
                                          "subset_hits", "hits"} :
             Return(call, f, i, stat) /\ remembered(f, op, x, y) # {}
  BY <1>2, MemoryPerformed
<1>3. CASE /\ x # y /\ ~is_empty(a) /\ is_subset(f, a, b) = "UNKNOWN"
           /\ k \notin DOMAIN f.intersections
           /\ Return(call, intersection_recorded(g, a, b, r), r,
                     miss_stat(f, s))
  <2> DEFINE h == intersection_recorded(g, a, b, r)
  <2>1. remembered(f, op, x, y) = {}
    BY <1>1, <1>3
  <2>2. /\ ForestInv(g) /\ r \in Indices(g) /\ get_value(g, r) = s
        /\ Indices(f) \subseteq Indices(g)
        /\ \A i \in Indices(f) : get_value(g, i) = get_value(f, i)
    BY <1>0, RegistrationLemma
  <2>3. /\ a \in Indices(g) /\ b \in Indices(g) /\ r \in Indices(g)
        /\ get_value(g, r) = get_value(g, a) \cap get_value(g, b)
    BY <1>0, <2>2
  <2>. HIDE DEF a, b, g, r
  <2>4. Learns(g, h) /\ k \in DOMAIN h.intersections
    BY <1>0, <1>3, <2>2, <2>3, IntersectionRecordedLearns
  <2>. HIDE DEF h, k
  <2>5. remembered(h, op, x, y) # {}
    BY <1>1, <2>4
  <2>. HIDE DEF s
  <2>6. Learns(registered(f, s), h)
    BY <2>4 DEF g
  <2>7. Return(call, h, index_of(registered(f, s), s), miss_stat(f, s))
    BY <1>3 DEF g, r, h
  <2>. QED
    BY <1>0, <2>1, <2>5, <2>6, <2>7, ComputedPerformed
<1>4. CASE x = y /\ Return(call, f, x, "equal_hits")
  BY <1>1, <1>2, <1>4
<1>5. CASE /\ x # y /\ is_empty(a)
           /\ Return(call, f, EMPTY_SET_VALUE, "empty_hits")
  BY <1>0, <1>1, <1>2, <1>5
<1>6. CASE /\ x # y /\ ~is_empty(a) /\ is_subset(f, a, b) = "SUBSET"
           /\ Return(call, f, a, "subset_hits")
  BY <1>0, <1>1, <1>2, <1>6
<1>7. CASE /\ x # y /\ ~is_empty(a) /\ is_subset(f, a, b) = "SUPERSET"
           /\ Return(call, f, b, "subset_hits")
  BY <1>0, <1>1, <1>2, <1>7
<1>8. CASE /\ x # y /\ ~is_empty(a) /\ is_subset(f, a, b) = "UNKNOWN"
           /\ k \in DOMAIN f.intersections
           /\ Return(call, f, f.intersections[k], "hits")
  <2>1. f.intersections[k] \in Indices(f)
    BY <1>8 DEF ForestInv, ForestType, IsMap
  <2>2. remembered(f, op, x, y) # {}
    BY <1>1, <1>8
  <2>. QED
    BY <1>2, <1>8, <2>1, <2>2
<1>. QED
  BY <1>3, <1>4, <1>5, <1>6, <1>7, <1>8 DEF Intersection

LEMMA DifferencePerformed ==
  ASSUME NEW f, ForestInv(f), NEW call, NEW a \in Indices(f),
         NEW b \in Indices(f), Difference(f, call, a, b)
  PROVE  Performed(f, "set_difference", a, b)
<1> DEFINE op == "set_difference"
           s == get_value(f, a) \ get_value(f, b)
           g == registered(f, s)
           r == index_of(g, s)
           k == <<a, b>>
<1>0. s \in SUBSET Property /\ EMPTY_SET_VALUE \in Indices(f)
  BY StoredValueLemma
<1>1. \A h : remembered(h, op, a, b)
               = IF a = b \/ is_empty(a) THEN {EMPTY_SET_VALUE}
                 ELSE IF is_empty(b) THEN {a}
                 ELSE IF k \in DOMAIN h.differences
                        THEN {h.differences[k]} ELSE {}
  BY DEF remembered
<1>2. CASE \E i \in Indices(f), stat \in {"equal_hits", "empty_hits",
                                          "subset_hits", "hits"} :
             Return(call, f, i, stat) /\ remembered(f, op, a, b) # {}
  BY <1>2, MemoryPerformed
<1>3. CASE /\ a # b /\ ~is_empty(a) /\ ~is_empty(b)
           /\ k \notin DOMAIN f.differences
           /\ Return(call, difference_recorded(g, a, b, r), r, miss_stat(f, s))
  <2> DEFINE h == difference_recorded(g, a, b, r)
  <2>1. remembered(f, op, a, b) = {}
    BY <1>1, <1>3
  <2>2. /\ ForestInv(g) /\ r \in Indices(g) /\ get_value(g, r) = s
        /\ Indices(f) \subseteq Indices(g)
        /\ \A i \in Indices(f) : get_value(g, i) = get_value(f, i)
    BY <1>0, RegistrationLemma
  <2>3. /\ a \in Indices(g) /\ b \in Indices(g) /\ r \in Indices(g)
        /\ get_value(g, r) = get_value(g, a) \ get_value(g, b)
    BY <1>0, <2>2
  <2>. HIDE DEF g, r
  <2>4. Learns(g, h) /\ k \in DOMAIN h.differences
    BY <1>3, <2>2, <2>3, DifferenceRecordedLearns
       DEF is_empty, EMPTY_SET_VALUE
  <2>. HIDE DEF h, k
  <2>5. remembered(h, op, a, b) # {}
    BY <1>1, <2>4
  <2>. HIDE DEF s
  <2>6. Learns(registered(f, s), h)
    BY <2>4 DEF g
  <2>7. Return(call, h, index_of(registered(f, s), s), miss_stat(f, s))
    BY <1>3 DEF g, r, h
  <2>. QED
    BY <1>0, <2>1, <2>5, <2>6, <2>7, ComputedPerformed
<1>4. CASE a = b /\ Return(call, f, EMPTY_SET_VALUE, "equal_hits")
  BY <1>0, <1>1, <1>2, <1>4
<1>5. CASE a # b /\ is_empty(a) /\ Return(call, f, EMPTY_SET_VALUE, "empty_hits")
  BY <1>0, <1>1, <1>2, <1>5
<1>6. CASE a # b /\ is_empty(b) /\ Return(call, f, a, "empty_hits")
  BY <1>1, <1>2, <1>6
<1>7. CASE /\ a # b /\ ~is_empty(a) /\ ~is_empty(b)
           /\ k \in DOMAIN f.differences
           /\ Return(call, f, f.differences[k], "hits")
  <2>1. f.differences[k] \in Indices(f)
    BY <1>7 DEF ForestInv, ForestType, IsMap
  <2>2. remembered(f, op, a, b) # {}
    BY <1>1, <1>7
  <2>. QED
    BY <1>2, <1>7, <2>1, <2>2
<1>. QED
  BY <1>3, <1>4, <1>5, <1>6, <1>7 DEF Difference

-----------------------------------------------------------------------------
(* What a step leaves behind, and what it counts *)

(* Every action does this.                                                  *)
Outcome ==
  /\ Learns(forest, forest')
  /\ \E allowed : Grows(forest, forest', allowed)
  /\ AnswerRemembered'
  /\ reply'.stat = "cold_misses" => reply'.ret \notin Indices(forest)
  /\ reply'.ret \notin Indices(forest)
       => reply'.stat \in {"cold_misses", "empty_hits"}
  /\ reply'.stat = "edge_misses" /\ reply'.call.op \in BinaryOps =>
       remembered(forest, reply'.call.op, reply'.call.operands[1],
                  reply'.call.operands[2]) = {}

(* An index is determined by its set, so what is remembered of a binary     *)
(* operation is the index that it returned.                                 *)
LEMMA BinaryOutcome ==
  ASSUME IInv, NEW op \in BinaryOps,
         NEW a \in Indices(forest), NEW b \in Indices(forest),
         NEW s, Answered(forest, Call(op, <<a, b>>, {}), {s}, s),
         Performed(forest, op, a, b),
         op = "set_union" => s = get_value(forest, a) \cup get_value(forest, b),
         op = "set_intersection" =>
           s = get_value(forest, a) \cap get_value(forest, b),
         op = "set_difference" =>
           s = get_value(forest, a) \ get_value(forest, b)
  PROVE  Outcome
<1>1. /\ ForestInv(forest') /\ Trusted(forest')
      /\ Grows(forest, forest', {s})
      /\ reply'.ret \in Indices(forest')
      /\ get_value(forest', reply'.ret) = s
  BY TrustedLemma DEF Answered
<1>2. /\ reply'.call.op = op
      /\ reply'.call.operands[1] = a /\ reply'.call.operands[2] = b
  BY DEF Answered, Call
<1>3. /\ a \in Indices(forest') /\ b \in Indices(forest')
      /\ get_value(forest', a) = get_value(forest, a)
      /\ get_value(forest', b) = get_value(forest, b)
  BY <1>1, GrowsLemma DEF IInv
<1>4. PICK r : r \in remembered(forest', op, a, b)
  BY DEF Performed
<1>5. /\ remembered(forest', op, a, b) = {r} /\ r \in Indices(forest')
      /\ get_value(forest', r) = s
  <2>1. /\ remembered(forest', op, a, b) = {r} /\ r \in Indices(forest')
        /\ op = "set_union" => get_value(forest', r)
             = get_value(forest', a) \cup get_value(forest', b)
        /\ op = "set_intersection" => get_value(forest', r)
             = get_value(forest', a) \cap get_value(forest', b)
        /\ op = "set_difference" => get_value(forest', r)
             = get_value(forest', a) \ get_value(forest', b)
    BY <1>1, <1>3, <1>4, RememberedTrue
  <2>. QED
    BY <1>3, <2>1 DEF BinaryOps
<1>6. r = reply'.ret
  BY <1>1, <1>5 DEF ForestInv, Canonical
<1>7. AnswerRemembered'
  BY <1>2, <1>5, <1>6 DEF AnswerRemembered
<1>8. remembered(forest, op, a, b) = {} \/ reply'.stat # "edge_misses"
  BY DEF Performed
<1>9. reply'.ret \notin Indices(forest) <=> reply'.stat = "cold_misses"
  BY DEF Performed
<1>. QED
  BY <1>1, <1>2, <1>7, <1>8, <1>9 DEF Outcome, Performed

(* Calls that are no binary operations ask less.                            *)
LEMMA OtherOutcome ==
  ASSUME NEW call, call.op \notin BinaryOps, NEW allowed, NEW s,
         Answered(forest, call, allowed, s), Learns(forest, forest'),
         reply'.stat = "cold_misses" => reply'.ret \notin Indices(forest),
         reply'.ret \notin Indices(forest)
           => reply'.stat \in {"cold_misses", "empty_hits"}
  PROVE  Outcome
<1>1. reply'.call = call /\ Grows(forest, forest', allowed)
  BY DEF Answered
<1>2. AnswerRemembered'
  BY <1>1 DEF AnswerRemembered
<1>. QED
  BY <1>1, <1>2 DEF Outcome

LEMMA RegisterOutcome ==
  ASSUME IInv, NEW call, call.op \notin BinaryOps, NEW s \in SUBSET Property,
         Register(forest, call, s)
  PROVE  Outcome
<1>1. Answered(forest, call, {s}, s)
  BY RegisterLemma DEF IInv
<1>2. /\ forest' = registered(forest, s)
      /\ reply'.ret = index_of(registered(forest, s), s)
      /\ reply'.stat = register_stat(forest, s)
  BY DEF Register, Return
<1>3. Learns(forest, forest')
  BY <1>2, RegisteredLearns DEF IInv
<1>4. reply'.stat = "cold_misses" <=> reply'.ret \notin Indices(forest)
  BY <1>2, MissLemma DEF IInv
<1>. QED
  BY <1>1, <1>3, <1>4, OtherOutcome

(* A set that is new has no pair in any map.                                *)
LEMMA NewSingle ==
  ASSUME IInv, NEW p \in Property
  PROVE  LET g == registered(forest, {p})
             q == index_of(g, {p})
         IN  /\ ForestInv(g) /\ q \in Indices(g) /\ get_value(g, q) = {p}
             /\ Learns(forest, g) /\ Grows(forest, g, {{p}})
             /\ Indices(g) = Indices(forest) \cup {q}
             /\ \A i \in Indices(forest) :
                  get_value(g, i) = get_value(forest, i)
             /\ \A k \in DOMAIN g.unions \cup DOMAIN g.differences
                           \cup DOMAIN g.subsets : k \in Pairs(forest)
<1> DEFINE g == registered(forest, {p})
           q == index_of(g, {p})
<1>1. {p} \in SUBSET Property /\ ForestInv(forest)
  BY DEF IInv
<1>2. /\ ForestInv(g) /\ q \in Indices(g) /\ get_value(g, q) = {p}
      /\ Grows(forest, g, {{p}})
      /\ Indices(forest) \subseteq Indices(g)
      /\ \A i \in Indices(forest) : get_value(g, i) = get_value(forest, i)
  BY <1>1, RegistrationLemma
<1>3. Learns(forest, g)
  BY <1>1, RegisteredLearns
<1>4. \A k \in DOMAIN g.unions \cup DOMAIN g.differences
                 \cup DOMAIN g.subsets : k \in Pairs(forest)
  <2>1. /\ g.unions = forest.unions /\ g.differences = forest.differences
        /\ g.subsets = forest.subsets
    BY <1>1, RegisteredLearns
  <2>2. /\ DOMAIN forest.unions \subseteq Pairs(forest)
        /\ DOMAIN forest.differences \subseteq Pairs(forest)
        /\ DOMAIN forest.subsets \subseteq Pairs(forest)
    BY <1>1 DEF ForestInv, ForestType, IsMap
  <2>. HIDE DEF g
  <2>. QED
    BY <2>1, <2>2
<1>5. Indices(g) = Indices(forest) \cup {q}
  <2>1. CASE {p} \in DOMAIN forest.property_set_map
    <3>1. g = forest
      BY <2>1 DEF registered
    <3>. QED
      BY <1>2, <3>1
  <2>2. CASE {p} \notin DOMAIN forest.property_set_map
    <3>1. /\ g.property_sets = Append(forest.property_sets, {p})
          /\ g.property_set_map
               = Insert(forest.property_set_map, {p}, Len(forest.property_sets))
      BY <1>1, <2>2 DEF registered, ForestInv, ForestType
    <3>2. q = Len(forest.property_sets)
      BY <2>2, <3>1 DEF index_of, Insert
    <3>3. /\ forest.property_sets \in Seq(SUBSET Property)
          /\ Len(g.property_sets) = Len(forest.property_sets) + 1
      BY <1>1, <3>1 DEF ForestInv, ForestType
    <3>4. Len(forest.property_sets) \in Nat
      BY <3>3
    <3>. HIDE DEF g, q
    <3>. QED
      BY <3>2, <3>3, <3>4 DEF Indices
  <2>. QED
    BY <2>1, <2>2
<1>. QED
  BY <1>2, <1>3, <1>4, <1>5

LEMMA InsertSingleOutcome ==
  ASSUME IInv, NEW a \in Indices(forest), NEW p \in Property,
         set_insert_single(a, p)
  PROVE  Outcome
<1> DEFINE call == Call("set_insert_single", <<a>>, {p})
           g == registered(forest, {p})
           q == index_of(g, {p})
           x == minimum(a, q)
           y == maximum(a, q)
           s == get_value(g, x) \cup get_value(g, y)
           r == index_of(registered(g, s), s)
<1>1. /\ ForestInv(g) /\ q \in Indices(g) /\ get_value(g, q) = {p}
      /\ Learns(forest, g) /\ Grows(forest, g, {{p}})
      /\ Indices(g) = Indices(forest) \cup {q}
      /\ \A i \in Indices(forest) : get_value(g, i) = get_value(forest, i)
      /\ \A k \in DOMAIN g.unions \cup DOMAIN g.subsets : k \in Pairs(forest)
  BY NewSingle
<1>2. Union(g, call, a, q)
  BY DEF set_insert_single
<1>3. call.op \notin BinaryOps
  BY DEF Call, BinaryOps
<1>. HIDE DEF g, q, call
<1>4. Performed(g, "set_union", a, q)
  BY <1>1, <1>2, UnionPerformed
<1>5. Learns(forest, forest')
  BY <1>1, <1>4, LearnsTransitive DEF Performed
<1>6. \E t : Answered(forest, call, {{p}} \cup {t}, t)
  <2>1. \E t : Answered(g, call, {t}, t)
    BY <1>1, <1>2, UnionLemma
  <2>. QED
    BY <1>1, <2>1, AnsweredAfterLemma DEF IInv
<1>7. reply'.stat = "cold_misses" => reply'.ret \notin Indices(forest)
  BY <1>1, <1>4 DEF Performed
<1>8. ASSUME reply'.ret \notin Indices(forest)
      PROVE  reply'.stat \in {"cold_misses", "empty_hits"}
  <2>. SUFFICES ASSUME reply'.ret \in Indices(g)
                PROVE  reply'.stat = "empty_hits"
    BY <1>4 DEF Performed
  <2>1. reply'.ret = q /\ q \notin Indices(forest) /\ a # q
    BY <1>1, <1>8
  <2>2. /\ x \in Indices(g) /\ y \in Indices(g)
        /\ \/ x = a /\ y = q
           \/ x = q /\ y = a
    BY <1>1 DEF minimum, maximum
  <2>3. <<x, y>> \notin Pairs(forest)
    BY <2>1, <2>2 DEF Pairs
  <2>4. is_subset(g, x, y) = "UNKNOWN" /\ <<x, y>> \notin DOMAIN g.unions
    BY <1>1, <2>3 DEF is_subset
  <2>5. is_empty(x)
    <3>. SUFFICES ASSUME ~ is_empty(x) PROVE FALSE
      OBVIOUS
    <3>1. Return(call, union_recorded(registered(g, s), x, y, r), r,
                 miss_stat(g, s))
      BY <1>2, <2>1, <2>4 DEF Union
    <3>2. r = q
      BY <2>1, <3>1 DEF Return
    <3>3. s = {p} \cup get_value(g, a)
      BY <1>1, <2>2
    <3>4. s \in SUBSET Property
      BY <1>1, <2>2, StoredValueLemma
    <3>5. get_value(registered(g, s), r) = s
      BY <1>1, <3>4, RegistrationLemma
    <3>6. get_value(registered(g, s), q) = {p}
      <4>1. \A i \in Indices(g) :
              get_value(registered(g, s), i) = get_value(g, i)
        BY <1>1, <3>4, RegistrationLemma
      <4>. QED
        BY <1>1, <4>1
    <3>7. get_value(g, a) = {} \/ get_value(g, a) = {p}
      BY <3>2, <3>3, <3>5, <3>6
    <3>8. CASE get_value(g, a) = {p}
      BY <1>1, <2>1, <3>8 DEF ForestInv, Canonical
    <3>9. CASE get_value(g, a) = {}
      <4>1. EMPTY_SET_VALUE \in Indices(g) /\ get_value(g, EMPTY_SET_VALUE) = {}
        BY <1>1, StoredValueLemma
      <4>2. a = EMPTY_SET_VALUE
        BY <1>1, <3>9, <4>1 DEF ForestInv, Canonical
      <4>3. x = EMPTY_SET_VALUE
        BY <1>1, <4>2, StoredValueLemma DEF minimum, EMPTY_SET_VALUE
      <4>. QED
        BY <4>3 DEF is_empty
    <3>. QED
      BY <3>7, <3>8, <3>9
  <2>. QED
    BY <1>2, <2>1, <2>5 DEF Union, Return
<1>. QED
  BY <1>3, <1>5, <1>6, <1>7, <1>8, OtherOutcome

LEMMA RemoveSingleOutcome ==
  ASSUME IInv, NEW a \in Indices(forest), NEW p \in Property,
         set_remove_single(a, p)
  PROVE  Outcome
<1> DEFINE call == Call("set_remove_single", <<a>>, {p})
           g == registered(forest, {p})
           q == index_of(g, {p})
           s == get_value(g, a) \ get_value(g, q)
           r == index_of(registered(g, s), s)
<1>1. /\ ForestInv(g) /\ q \in Indices(g) /\ get_value(g, q) = {p}
      /\ Learns(forest, g) /\ Grows(forest, g, {{p}})
      /\ Indices(g) = Indices(forest) \cup {q}
      /\ \A k \in DOMAIN g.differences : k \in Pairs(forest)
  BY NewSingle
<1>2. Difference(g, call, a, q)
  BY DEF set_remove_single
<1>3. call.op \notin BinaryOps
  BY DEF Call, BinaryOps
<1>. HIDE DEF g, q, call
<1>4. Performed(g, "set_difference", a, q)
  BY <1>1, <1>2, DifferencePerformed
<1>5. Learns(forest, forest')
  BY <1>1, <1>4, LearnsTransitive DEF Performed
<1>6. \E t : Answered(forest, call, {{p}} \cup {t}, t)
  <2>1. \E t : Answered(g, call, {t}, t)
    BY <1>1, <1>2, DifferenceLemma
  <2>. QED
    BY <1>1, <2>1, AnsweredAfterLemma DEF IInv
<1>7. reply'.stat = "cold_misses" => reply'.ret \notin Indices(forest)
  BY <1>1, <1>4 DEF Performed
<1>8. ASSUME reply'.ret \notin Indices(forest)
      PROVE  reply'.stat \in {"cold_misses", "empty_hits"}
  <2>. SUFFICES ASSUME reply'.ret \in Indices(g)
                PROVE  FALSE
    BY <1>4 DEF Performed
  <2>1. reply'.ret = q /\ q \notin Indices(forest) /\ a # q
    BY <1>1, <1>8
  <2>2. EMPTY_SET_VALUE \in Indices(forest)
    BY StoredValueLemma DEF IInv
  <2>3. <<a, q>> \notin DOMAIN g.differences
    BY <1>1, <2>1 DEF Pairs
  <2>4. Return(call, difference_recorded(registered(g, s), a, q, r), r,
               miss_stat(g, s))
    BY <1>2, <2>1, <2>2, <2>3 DEF Difference, Return
  <2>5. r = q
    BY <2>1, <2>4 DEF Return
  <2>6. s = get_value(g, a) \ {p} /\ s \in SUBSET Property
    BY <1>1, StoredValueLemma
  <2>7. get_value(registered(g, s), r) = s
    BY <1>1, <2>6, RegistrationLemma
  <2>8. get_value(registered(g, s), q) = {p}
    <3>1. \A i \in Indices(g) :
            get_value(registered(g, s), i) = get_value(g, i)
      BY <1>1, <2>6, RegistrationLemma
    <3>. QED
      BY <1>1, <3>1
  <2>. QED
    BY <2>5, <2>6, <2>7, <2>8
<1>. QED
  BY <1>3, <1>5, <1>6, <1>7, <1>8, OtherOutcome

LEMMA FilterOutcome ==
  ASSUME IInv, NEW s \in Indices(forest), NEW keep \in Filter,
         set_filter(s, keep)
  PROVE  Outcome
<1> DEFINE call == Call("set_filter", <<s>>, keep)
           kept == get_value(forest, s) \cap keep
           g == registered(forest, kept)
           r == index_of(g, kept)
<1>1. kept \in SUBSET Property /\ ForestInv(forest)
  BY StoredValueLemma DEF IInv
<1>2. call.op \notin BinaryOps
  BY DEF Call, BinaryOps
<1>. HIDE DEF kept, call
<1>3. ASSUME NEW i \in Indices(forest), NEW stat \in {"none", "hits"},
             Return(call, forest, i, stat)
      PROVE  Outcome
  <2>1. /\ forest' = forest /\ reply'.ret = i /\ reply'.stat = stat
    BY <1>3 DEF Return
  <2>2. \E t : Answered(forest, call, {t}, t)
    BY <1>1, <1>3, FromMemoryLemma
  <2>3. Learns(forest, forest')
    BY <2>1 DEF Learns, Remembers, Kept
  <2>. QED
    BY <1>2, <2>1, <2>2, <2>3, OtherOutcome
<1>4. CASE Return(call, g, r, miss_stat(forest, kept))
  <2>1. SameSets(g, g)
    BY <1>1, RegistrationLemma DEF SameSets
  <2>2. Answered(forest, call, {kept}, kept)
    BY <1>1, <1>4, <2>1, ComputedLemma
  <2>3. /\ forest' = g /\ reply'.ret = r
        /\ reply'.stat = miss_stat(forest, kept)
    BY <1>4 DEF Return
  <2>4. Learns(forest, forest')
    BY <1>1, <2>3, RegisteredLearns
  <2>5. reply'.stat = "cold_misses" <=> reply'.ret \notin Indices(forest)
    BY <1>1, <2>3, MissLemma
  <2>. QED
    BY <1>2, <2>2, <2>4, <2>5, OtherOutcome
<1>5. s \in DOMAIN caches[keep] => caches[keep][s] \in Indices(forest)
  BY DEF IInv, CachesInv, IsMap
<1>. QED
  BY <1>3, <1>4, <1>5 DEF set_filter, kept, call

LEMMA NextOutcome ==
  ASSUME IInv, Next
  PROVE  Outcome
<1>1. ASSUME NEW s \in SUBSET Property, register_set(s) PROVE Outcome
  <2>1. Call("register_set", <<>>, s).op \notin BinaryOps
    BY DEF Call, BinaryOps
  <2>. QED
    BY <1>1, <2>1, RegisterOutcome DEF register_set
<1>2. ASSUME NEW p \in Property, register_set_single(p) PROVE Outcome
  <2>1. Call("register_set_single", <<>>, {p}).op \notin BinaryOps
    BY DEF Call, BinaryOps
  <2>. QED
    BY <1>2, <2>1, RegisterOutcome DEF register_set_single
<1>3. ASSUME NEW a \in Indices(forest), NEW b \in Indices(forest),
             set_union(a, b)
      PROVE  Outcome
  <2> DEFINE s == get_value(forest, a) \cup get_value(forest, b)
             c == Call("set_union", <<a, b>>, {})
  <2>1. Union(forest, c, a, b) /\ ForestInv(forest)
    BY <1>3 DEF set_union, IInv
  <2>2. Answered(forest, c, {s}, s)
    BY <2>1, UnionLemma
  <2>3. Performed(forest, "set_union", a, b)
    BY <2>1, UnionPerformed
  <2>. QED
    BY <2>2, <2>3, BinaryOutcome DEF BinaryOps
<1>4. ASSUME NEW a \in Indices(forest), NEW b \in Indices(forest),
             set_intersection(a, b)
      PROVE  Outcome
  <2> DEFINE s == get_value(forest, a) \cap get_value(forest, b)
             c == Call("set_intersection", <<a, b>>, {})
  <2>1. Intersection(forest, c, a, b) /\ ForestInv(forest)
    BY <1>4 DEF set_intersection, IInv
  <2>2. Answered(forest, c, {s}, s)
    BY <2>1, IntersectionLemma
  <2>3. Performed(forest, "set_intersection", a, b)
    BY <2>1, IntersectionPerformed
  <2>. QED
    BY <2>2, <2>3, BinaryOutcome DEF BinaryOps
<1>5. ASSUME NEW a \in Indices(forest), NEW b \in Indices(forest),
             set_difference(a, b)
      PROVE  Outcome
  <2> DEFINE s == get_value(forest, a) \ get_value(forest, b)
             c == Call("set_difference", <<a, b>>, {})
  <2>1. Difference(forest, c, a, b) /\ ForestInv(forest)
    BY <1>5 DEF set_difference, IInv
  <2>2. Answered(forest, c, {s}, s)
    BY <2>1, DifferenceLemma
  <2>3. Performed(forest, "set_difference", a, b)
    BY <2>1, DifferencePerformed
  <2>. QED
    BY <2>2, <2>3, BinaryOutcome DEF BinaryOps
<1>6. ASSUME NEW a \in Indices(forest), NEW p \in Property,
             set_remove_single_key(a, p)
      PROVE  Outcome
  <2> DEFINE c == Call("set_remove_single_key", <<a>>, {p})
             s == get_value(forest, a) \ {p}
  <2>1. c.op \notin BinaryOps
    BY DEF Call, BinaryOps
  <2>2. s \in SUBSET Property
    BY StoredValueLemma DEF IInv
  <2>3. Register(forest, c, s)
    BY <1>6 DEF set_remove_single_key
  <2>. HIDE DEF c, s
  <2>. QED
    BY <2>1, <2>2, <2>3, RegisterOutcome
<1>. QED
  BY <1>1, <1>2, <1>3, <1>4, <1>5, <1>6, InsertSingleOutcome,
     RemoveSingleOutcome, FilterOutcome DEF Next

(* Whatever binary operation just returned would now be answered from       *)
(* memory, with the same index (guide.md: performed only once).             *)
THEOREM Remembering == Spec => []AnswerRemembered
<1>1. Init => AnswerRemembered
  BY DEF Init, AnswerRemembered, Call, BinaryOps
<1>2. IInv /\ AnswerRemembered /\ [Next]_vars => AnswerRemembered'
  <2>1. ASSUME AnswerRemembered, UNCHANGED vars PROVE AnswerRemembered'
    BY <2>1 DEF AnswerRemembered, vars
  <2>. QED
    BY <2>1, NextOutcome DEF Outcome
<1>. QED
  BY <1>1, <1>2, Invariance, PTL DEF Spec

(* No operation computes again what could be answered from memory, and no   *)
(* answer from memory ever changes, although containments that other        *)
(* operations record later take precedence over the maps.                   *)
THEOREM MemoryStable == Spec => NeverRecomputed
<1> DEFINE Stable ==
      forest' # forest => \A op \in BinaryOps, a, b \in Indices(forest) :
        remembered(forest, op, a, b) # {} =>
          remembered(forest', op, a, b) = remembered(forest, op, a, b)
<1>1. ASSUME IInv, IInv', Next PROVE Stable
  <2>. SUFFICES ASSUME NEW op \in BinaryOps, NEW a \in Indices(forest),
                       NEW b \in Indices(forest),
                       remembered(forest, op, a, b) # {}
                PROVE  remembered(forest', op, a, b)
                         = remembered(forest, op, a, b)
    OBVIOUS
  <2>1. ForestInv(forest) /\ ForestInv(forest')
    BY <1>1 DEF IInv
  <2>2. Trusted(forest) /\ Trusted(forest')
    BY <2>1, TrustedLemma
  <2>3. Remembers(forest, forest')
    BY <1>1, NextOutcome DEF Outcome, Learns
  <2>4. /\ Indices(forest) \subseteq Indices(forest')
        /\ \A i \in Indices(forest) :
             get_value(forest', i) = get_value(forest, i)
    BY <1>1, <2>1, NextOutcome, GrowsLemma DEF Outcome
  <2>5. PICK r : r \in remembered(forest, op, a, b)
    OBVIOUS
  <2>6. PICK t : t \in remembered(forest', op, a, b)
    BY <2>2, <2>3, RememberedKept
  <2>7. /\ remembered(forest, op, a, b) = {r} /\ r \in Indices(forest)
        /\ op = "set_union" => get_value(forest, r)
             = get_value(forest, a) \cup get_value(forest, b)
        /\ op = "set_intersection" => get_value(forest, r)
             = get_value(forest, a) \cap get_value(forest, b)
        /\ op = "set_difference" => get_value(forest, r)
             = get_value(forest, a) \ get_value(forest, b)
    BY <2>2, <2>5, RememberedTrue
  <2>8. a \in Indices(forest') /\ b \in Indices(forest')
    BY <2>4
  <2>9. /\ remembered(forest', op, a, b) = {t} /\ t \in Indices(forest')
        /\ op = "set_union" => get_value(forest', t)
             = get_value(forest', a) \cup get_value(forest', b)
        /\ op = "set_intersection" => get_value(forest', t)
             = get_value(forest', a) \cap get_value(forest', b)
        /\ op = "set_difference" => get_value(forest', t)
             = get_value(forest', a) \ get_value(forest', b)
    BY <2>2, <2>6, <2>8, RememberedTrue
  <2>10. get_value(forest', t) = get_value(forest', r)
    BY <2>4, <2>7, <2>9 DEF BinaryOps
  <2>11. t = r
    BY <2>1, <2>4, <2>7, <2>9, <2>10 DEF ForestInv, Canonical
  <2>. QED
    BY <2>7, <2>9, <2>11
<1>2. ASSUME UNCHANGED vars PROVE Stable
  BY <1>2 DEF vars
<1>3. IInv /\ IInv' /\ [Next]_vars => [Stable]_vars
  BY <1>1, <1>2
<1>. HIDE DEF Stable
<1>4. Spec => [][Stable]_vars
  BY <1>3, Invariance, PTL DEF Spec
<1>. QED
  BY <1>4 DEF Stable, NeverRecomputed

(* Every computation leaves its by-products behind: the containments of a   *)
(* union's operands and of a difference, or the empty intersection.         *)
THEOREM ByProducts == Spec => []ByProductsKept
<1>1. Related(forest) <=> ByProductsKept
  BY DEF Related, UnionsRelated, DifferenceRelated, ByProductsKept
<1>2. Init => Related(forest)
  BY DEF Init, FreshForest, NoEntries, Related, UnionsRelated
<1>3. IInv /\ Related(forest) /\ [Next]_vars => Related(forest)'
  <2>1. ASSUME Related(forest), UNCHANGED vars PROVE Related(forest')
    BY <2>1 DEF vars
  <2>. QED
    BY <2>1, NextOutcome DEF Outcome, Learns
<1>. QED
  BY <1>1, <1>2, <1>3, Invariance, PTL DEF Spec

(* A cold miss is counted for a set that was not in the lattice, and for    *)
(* each such set but one that an operation on a single property brought in  *)
(* and returned at once; an edge miss only for an operation that could not  *)
(* be answered from memory (lhf.hpp 1035-1041).                             *)
THEOREM CountersTrue == Spec => MissesClassified
<1> DEFINE Classified ==
      LET new == reply'.ret \notin Indices(forest)
      IN  /\ reply'.stat = "cold_misses" => new
          /\ new => reply'.stat \in {"cold_misses", "empty_hits"}
          /\ reply'.stat = "edge_misses" /\ reply'.call.op \in BinaryOps =>
               remembered(forest, reply'.call.op, reply'.call.operands[1],
                          reply'.call.operands[2]) = {}
<1>1. ASSUME IInv, Next PROVE Classified
  BY <1>1, NextOutcome DEF Outcome
<1>2. IInv /\ [Next]_vars => [Classified]_vars
  BY <1>1
<1>. HIDE DEF Classified
<1>3. Spec => [][Classified]_vars
  BY <1>2, Invariance, PTL DEF Spec
<1>. QED
  BY <1>3 DEF Classified, MissesClassified
=============================================================================
