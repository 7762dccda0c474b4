------------------------- MODULE NestedForestProofs -------------------------
(***************************************************************************)
(* Theorems about NestedForest, for every set of keys, properties and       *)
(* filters.  The child is a forest of its own, and ForestDataProofs has the *)
(* facts about it.  The parent is described key by key: V(c, s, k) is what  *)
(* the parent set s nests under the key k, and the inductive invariant says *)
(* of every V that the parent's records, and the merge loop in progress,    *)
(* are true of it.  What the child does in between leaves every V as it is. *)
(***************************************************************************)
EXTENDS NestedForest, ForestDataProofs, WellFoundedInduction, TLAPS

-----------------------------------------------------------------------------
(* The child *)

(* The child uses the operators of ForestData under names of its own.       *)
LEMMA SameOperators ==
  /\ Child!EMPTY_SET_VALUE = EMPTY_SET_VALUE
  /\ \A i : Child!is_empty(i) <=> is_empty(i)
  /\ \A i, j : /\ Child!minimum(i, j) = minimum(i, j)
               /\ Child!maximum(i, j) = maximum(i, j)
  /\ \A f : Child!Indices(f) = Indices(f)
  /\ \A f, i : Child!get_value(f, i) = get_value(f, i)
  /\ \A f, s : /\ Child!registered(f, s) = registered(f, s)
               /\ Child!index_of(f, s) = index_of(f, s)
               /\ Child!register_stat(f, s) = register_stat(f, s)
  /\ \A f, a, b : Child!is_subset(f, a, b) = is_subset(f, a, b)
<1>1. \A m, k, v : Child!Insert(m, k, v) = Insert(m, k, v)
  BY Zenon DEF Child!Insert, Insert
<1>2. \A f, s : Child!registered(f, s) = registered(f, s)
  BY Zenon DEF Child!registered, registered, Child!Insert, Insert
<1>3. /\ Child!EMPTY_SET_VALUE = EMPTY_SET_VALUE
      /\ \A i : Child!is_empty(i) <=> is_empty(i)
      /\ \A i, j : /\ Child!minimum(i, j) = minimum(i, j)
                   /\ Child!maximum(i, j) = maximum(i, j)
      /\ \A f : Child!Indices(f) = Indices(f)
      /\ \A f, i : Child!get_value(f, i) = get_value(f, i)
  BY DEF Child!EMPTY_SET_VALUE, EMPTY_SET_VALUE, Child!is_empty,
         is_empty, Child!minimum, minimum, Child!maximum, maximum,
         Child!Indices, Indices, Child!get_value, get_value
<1>4. /\ \A f, s : /\ Child!index_of(f, s) = index_of(f, s)
                   /\ Child!register_stat(f, s) = register_stat(f, s)
      /\ \A f, a, b : Child!is_subset(f, a, b) = is_subset(f, a, b)
  BY DEF Child!index_of, index_of, Child!register_stat, register_stat,
         Child!is_subset, is_subset
<1>. QED
  BY <1>2, <1>3, <1>4

(* ... and its three recording operators.                                   *)
LEMMA SameRecording ==
  /\ \A f, a, b, r : Child!union_recorded(f, a, b, r)
                       = union_recorded(f, a, b, r)
  /\ \A f, a, b, r : Child!intersection_recorded(f, a, b, r)
                       = intersection_recorded(f, a, b, r)
  /\ \A f, a, b, r : Child!difference_recorded(f, a, b, r)
                       = difference_recorded(f, a, b, r)
<1>1. \A f, a, b : Child!store_subset(f, a, b) = store_subset(f, a, b)
  BY Zenon DEF Child!store_subset, store_subset, Child!Insert, Insert
<1>2. ASSUME NEW f, NEW a, NEW b, NEW r
      PROVE  Child!union_recorded(f, a, b, r) = union_recorded(f, a, b, r)
  <2> DEFINE g == [f EXCEPT !.unions = Insert(@, <<a, b>>, r)]
  <2>1. g = [f EXCEPT !.unions = Child!Insert(@, <<a, b>>, r)]
    BY Zenon DEF Child!Insert, Insert
  <2>2. union_recorded(f, a, b, r)
          = IF r = a THEN store_subset(g, b, r)
            ELSE IF r = b THEN store_subset(g, a, r)
            ELSE store_subset(store_subset(g, a, r), b, r)
    BY DEF union_recorded
  <2>. HIDE DEF g
  <2>3. Child!union_recorded(f, a, b, r)
          = IF r = a THEN store_subset(g, b, r)
            ELSE IF r = b THEN store_subset(g, a, r)
            ELSE store_subset(store_subset(g, a, r), b, r)
    BY <1>1, <2>1, Zenon DEF Child!union_recorded
  <2>. QED
    BY <2>2, <2>3
<1>3. ASSUME NEW f, NEW a, NEW b, NEW r
      PROVE  Child!intersection_recorded(f, a, b, r)
               = intersection_recorded(f, a, b, r)
  <2> DEFINE g == [f EXCEPT !.intersections = Insert(@, <<a, b>>, r)]
  <2>1. g = [f EXCEPT !.intersections = Child!Insert(@, <<a, b>>, r)]
    BY Zenon DEF Child!Insert, Insert
  <2>2. intersection_recorded(f, a, b, r)
          = IF r # a THEN store_subset(g, r, a) ELSE store_subset(g, r, b)
    BY DEF intersection_recorded
  <2>. HIDE DEF g
  <2>3. Child!intersection_recorded(f, a, b, r)
          = IF r # a THEN store_subset(g, r, a) ELSE store_subset(g, r, b)
    BY <1>1, <2>1, Zenon DEF Child!intersection_recorded
  <2>. QED
    BY <2>2, <2>3
<1>4. ASSUME NEW f, NEW a, NEW b, NEW r
      PROVE  Child!difference_recorded(f, a, b, r)
               = difference_recorded(f, a, b, r)
  <2> DEFINE p == <<minimum(a, b), maximum(a, b)>>
             g == [f EXCEPT !.differences = Insert(@, <<a, b>>, r)]
             h == [g EXCEPT !.intersections = Insert(@, p, EMPTY_SET_VALUE)]
  <2>1. g = [f EXCEPT !.differences = Child!Insert(@, <<a, b>>, r)]
    BY Zenon DEF Child!Insert, Insert
  <2>2. difference_recorded(f, a, b, r)
          = IF r # a THEN store_subset(g, r, a) ELSE h
    BY DEF difference_recorded
  <2>. HIDE DEF g
  <2>3. h = [g EXCEPT !.intersections =
               Child!Insert(@, <<Child!minimum(a, b),
                                     Child!maximum(a, b)>>,
                                Child!EMPTY_SET_VALUE)]
    BY Zenon DEF Child!Insert, Insert, Child!minimum, minimum,
       Child!maximum, maximum, Child!EMPTY_SET_VALUE, EMPTY_SET_VALUE
  <2>. HIDE DEF h
  <2>4. Child!difference_recorded(f, a, b, r)
          = IF r # a THEN store_subset(g, r, a) ELSE h
    BY <1>1, <2>1, <2>3, Zenon DEF Child!difference_recorded
  <2>. QED
    BY <2>2, <2>4
<1>. QED
  BY <1>2, <1>3, <1>4

(* A call of the child that started from members f, and returned an index   *)
(* of the set s.                                                            *)
Answered(f, s) ==
  /\ ForestInv(child') /\ Later(f, child')
  /\ child_reply'.ret \in Indices(child')
  /\ get_value(child', child_reply'.ret) = s

LEMMA MemoryAnswered ==
  ASSUME NEW f, ForestInv(f), NEW call, NEW stat, NEW r \in Indices(f),
         Child!Return(call, f, r, stat)
  PROVE  Answered(f, get_value(f, r))
BY DEF Child!Return, Answered, Later

LEMMA ComputedAnswered ==
  ASSUME NEW f, ForestInv(f), NEW call, NEW stat, NEW s \in SUBSET Property,
         NEW h, SameSets(registered(f, s), h),
         Child!Return(call, h, index_of(registered(f, s), s), stat)
  PROVE  Answered(f, s)
<1> DEFINE g == registered(f, s)
           r == index_of(g, s)
<1>1. Later(f, g) /\ r \in Indices(g) /\ get_value(g, r) = s
  BY RegistrationLemma DEF Later
<1>2. child' = h /\ child_reply'.ret = r
  BY DEF Child!Return
<1>. HIDE DEF g, r
<1>3. /\ ForestInv(h) /\ Indices(h) = Indices(g)
      /\ \A i : get_value(h, i) = get_value(g, i)
  BY SameSetsLemma DEF g, SameSets
<1>. QED
  BY <1>1, <1>2, <1>3 DEF Answered, Later

LEMMA RegisterAnswered ==
  ASSUME NEW f, ForestInv(f), NEW call, NEW s \in SUBSET Property,
         Child!Register(f, call, s)
  PROVE  Answered(f, s)
<1>1. SameSets(registered(f, s), registered(f, s))
  BY RegistrationLemma DEF SameSets
<1>2. Child!Return(call, registered(f, s), index_of(registered(f, s), s),
                   register_stat(f, s))
  BY SameOperators DEF Child!Register
<1>. QED
  BY <1>1, <1>2, ComputedAnswered

(* An operation is answered from memory, or computed and recorded.          *)
LEMMA UnionWays ==
  ASSUME NEW f, NEW call, NEW x, NEW y, Child!Union(f, call, x, y)
  PROVE  LET a == minimum(x, y)
             b == maximum(x, y)
             s == get_value(f, a) \cup get_value(f, b)
             g == registered(f, s)
             r == index_of(g, s)
         IN  \/ \E i \in remembered(f, "set_union", x, y) : \E stat :
                  Child!Return(call, f, i, stat)
             \/ /\ x # y /\ ~is_empty(a)
                /\ \E stat : Child!Return(call, union_recorded(g, a, b, r), r,
                                          stat)
<1> DEFINE a == minimum(x, y)
           b == maximum(x, y)
           s == get_value(f, a) \cup get_value(f, b)
           g == registered(f, s)
           r == index_of(g, s)
           u == is_subset(f, a, b)
           k == <<a, b>>
<1>1. \/ x = y /\ Child!Return(call, f, x, "equal_hits")
      \/ x # y /\ is_empty(a) /\ Child!Return(call, f, b, "empty_hits")
      \/ /\ x # y /\ ~is_empty(a)
         /\ \/ u = "SUBSET" /\ Child!Return(call, f, b, "subset_hits")
            \/ u = "SUPERSET" /\ Child!Return(call, f, a, "subset_hits")
            \/ /\ u = "UNKNOWN" /\ k \in DOMAIN f.unions
               /\ Child!Return(call, f, f.unions[k], "hits")
            \/ /\ u = "UNKNOWN" /\ k \notin DOMAIN f.unions
               /\ Child!Return(call, union_recorded(g, a, b, r), r,
                               Child!miss_stat(f, s))
  BY SameOperators, SameRecording DEF Child!Union
<1>2. x = y => b = x
  BY DEF maximum
<1>3. remembered(f, "set_union", x, y)
        = IF x = y \/ is_empty(a) THEN {b}
          ELSE IF u = "SUBSET" THEN {b}
          ELSE IF u = "SUPERSET" THEN {a}
          ELSE IF k \in DOMAIN f.unions THEN {f.unions[k]} ELSE {}
  BY DEF remembered
<1>. HIDE DEF a, b, g, r, s, u
<1>. QED
  BY <1>1, <1>2, <1>3 DEF a, b, g, r, s

LEMMA UnionAnswered ==
  ASSUME NEW f, ForestInv(f), NEW call,
         NEW x \in Indices(f), NEW y \in Indices(f), Child!Union(f, call, x, y)
  PROVE  Answered(f, get_value(f, x) \cup get_value(f, y))
<1> DEFINE a == minimum(x, y)
           b == maximum(x, y)
           s == get_value(f, a) \cup get_value(f, b)
           g == registered(f, s)
           r == index_of(g, s)
<1>1. /\ a \in Indices(f) /\ b \in Indices(f)
      /\ x # y => a < b
      /\ ~is_empty(a) => 0 < a
      /\ s = get_value(f, x) \cup get_value(f, y)
      /\ s \in SUBSET Property
  BY StoredValueLemma DEF minimum, maximum, is_empty, EMPTY_SET_VALUE
<1>2. CASE \E i \in remembered(f, "set_union", x, y) : \E stat :
             Child!Return(call, f, i, stat)
  <2>1. PICK i \in remembered(f, "set_union", x, y) :
          \E stat : Child!Return(call, f, i, stat)
    BY <1>2
  <2>2. i \in Indices(f) /\ get_value(f, i) = get_value(f, x) \cup get_value(f, y)
    BY TrustedLemma, RememberedTrue DEF BinaryOps
  <2>. QED
    BY <2>1, <2>2, MemoryAnswered
<1>3. CASE /\ x # y /\ ~is_empty(a)
           /\ \E stat : Child!Return(call, union_recorded(g, a, b, r), r, stat)
  <2>1. PICK stat : Child!Return(call, union_recorded(g, a, b, r), r, stat)
    BY <1>3
  <2>2. /\ ForestInv(g) /\ r \in Indices(g) /\ get_value(g, r) = s
        /\ Indices(f) \subseteq Indices(g)
        /\ \A i \in Indices(f) : get_value(g, i) = get_value(f, i)
    BY <1>1, RegistrationLemma
  <2>3. /\ a \in Indices(g) /\ b \in Indices(g)
        /\ get_value(g, r) = get_value(g, a) \cup get_value(g, b)
    BY <1>1, <2>2
  <2>. HIDE DEF a, b
  <2>4. SameSets(g, union_recorded(g, a, b, r))
    BY <1>1, <1>3, <2>2, <2>3, UnionRecordedLemma
  <2>. HIDE DEF s
  <2>. QED
    BY <1>1, <2>1, <2>4, ComputedAnswered
<1>. QED
  BY <1>2, <1>3, UnionWays

LEMMA IntersectionWays ==
  ASSUME NEW f, NEW call, NEW x, NEW y, Child!Intersection(f, call, x, y)
  PROVE  LET a == minimum(x, y)
             b == maximum(x, y)
             s == get_value(f, a) \cap get_value(f, b)
             g == registered(f, s)
             r == index_of(g, s)
         IN  \/ \E i \in remembered(f, "set_intersection", x, y) : \E stat :
                  Child!Return(call, f, i, stat)
             \/ /\ x # y /\ ~is_empty(a)
                /\ \E stat : Child!Return(call, intersection_recorded(g, a, b, r),
                                          r, stat)
<1> DEFINE a == minimum(x, y)
           b == maximum(x, y)
           s == get_value(f, a) \cap get_value(f, b)
           g == registered(f, s)
           r == index_of(g, s)
           u == is_subset(f, a, b)
           k == <<a, b>>
<1>1. \/ x = y /\ Child!Return(call, f, x, "equal_hits")
      \/ x # y /\ is_empty(a) /\ Child!Return(call, f, EMPTY_SET_VALUE, "empty_hits")
      \/ /\ x # y /\ ~is_empty(a)
         /\ \/ u = "SUBSET" /\ Child!Return(call, f, a, "subset_hits")
            \/ u = "SUPERSET" /\ Child!Return(call, f, b, "subset_hits")
            \/ /\ u = "UNKNOWN" /\ k \in DOMAIN f.intersections
               /\ Child!Return(call, f, f.intersections[k], "hits")
            \/ /\ u = "UNKNOWN" /\ k \notin DOMAIN f.intersections
               /\ Child!Return(call, intersection_recorded(g, a, b, r), r,
                               Child!miss_stat(f, s))
  BY SameOperators, SameRecording DEF Child!Intersection
<1>2. (x = y => a = x) /\ (is_empty(a) => a = EMPTY_SET_VALUE)
  BY DEF minimum, is_empty
<1>3. remembered(f, "set_intersection", x, y)
        = IF x = y \/ is_empty(a) THEN {a}
          ELSE IF u = "SUBSET" THEN {a}
          ELSE IF u = "SUPERSET" THEN {b}
          ELSE IF k \in DOMAIN f.intersections THEN {f.intersections[k]} ELSE {}
  BY DEF remembered
<1>. HIDE DEF a, b, g, r, s, u
<1>. QED
  BY <1>1, <1>2, <1>3 DEF a, b, g, r, s

LEMMA IntersectionAnswered ==
  ASSUME NEW f, ForestInv(f), NEW call,
         NEW x \in Indices(f), NEW y \in Indices(f), Child!Intersection(f, call, x, y)
  PROVE  Answered(f, get_value(f, x) \cap get_value(f, y))
<1> DEFINE a == minimum(x, y)
           b == maximum(x, y)
           s == get_value(f, a) \cap get_value(f, b)
           g == registered(f, s)
           r == index_of(g, s)
<1>1. /\ a \in Indices(f) /\ b \in Indices(f)
      /\ x # y => a < b
      /\ ~is_empty(a) => 0 < a
      /\ s = get_value(f, x) \cap get_value(f, y)
      /\ s \in SUBSET Property
  BY StoredValueLemma DEF minimum, maximum, is_empty, EMPTY_SET_VALUE
<1>2. CASE \E i \in remembered(f, "set_intersection", x, y) : \E stat :
             Child!Return(call, f, i, stat)
  <2>1. PICK i \in remembered(f, "set_intersection", x, y) :
          \E stat : Child!Return(call, f, i, stat)
    BY <1>2
  <2>2. i \in Indices(f) /\ get_value(f, i) = get_value(f, x) \cap get_value(f, y)
    BY TrustedLemma, RememberedTrue DEF BinaryOps
  <2>. QED
    BY <2>1, <2>2, MemoryAnswered
<1>3. CASE /\ x # y /\ ~is_empty(a)
           /\ \E stat : Child!Return(call, intersection_recorded(g, a, b, r), r, stat)
  <2>1. PICK stat : Child!Return(call, intersection_recorded(g, a, b, r), r, stat)
    BY <1>3
  <2>2. /\ ForestInv(g) /\ r \in Indices(g) /\ get_value(g, r) = s
        /\ Indices(f) \subseteq Indices(g)
        /\ \A i \in Indices(f) : get_value(g, i) = get_value(f, i)
    BY <1>1, RegistrationLemma
  <2>3. /\ a \in Indices(g) /\ b \in Indices(g)
        /\ get_value(g, r) = get_value(g, a) \cap get_value(g, b)
    BY <1>1, <2>2
  <2>. HIDE DEF a, b
  <2>4. SameSets(g, intersection_recorded(g, a, b, r))
    BY <1>1, <1>3, <2>2, <2>3, IntersectionRecordedLemma
  <2>. HIDE DEF s
  <2>. QED
    BY <1>1, <2>1, <2>4, ComputedAnswered
<1>. QED
  BY <1>2, <1>3, IntersectionWays

LEMMA DifferenceWays ==
  ASSUME NEW f, NEW call, NEW a, NEW b, Child!Difference(f, call, a, b)
  PROVE  LET s == get_value(f, a) \ get_value(f, b)
             g == registered(f, s)
             r == index_of(g, s)
         IN  \/ \E i \in remembered(f, "set_difference", a, b) : \E stat :
                  Child!Return(call, f, i, stat)
             \/ /\ a # b /\ ~is_empty(a) /\ ~is_empty(b)
                /\ \E stat : Child!Return(call, difference_recorded(g, a, b, r),
                                          r, stat)
<1> DEFINE s == get_value(f, a) \ get_value(f, b)
           g == registered(f, s)
           r == index_of(g, s)
           k == <<a, b>>
<1>1. \/ a = b /\ Child!Return(call, f, EMPTY_SET_VALUE, "equal_hits")
      \/ /\ a # b /\ is_empty(a)
         /\ Child!Return(call, f, EMPTY_SET_VALUE, "empty_hits")
      \/ a # b /\ is_empty(b) /\ Child!Return(call, f, a, "empty_hits")
      \/ /\ a # b /\ ~is_empty(a) /\ ~is_empty(b)
         /\ \/ /\ k \in DOMAIN f.differences
               /\ Child!Return(call, f, f.differences[k], "hits")
            \/ /\ k \notin DOMAIN f.differences
               /\ Child!Return(call, difference_recorded(g, a, b, r), r,
                               Child!miss_stat(f, s))
  BY SameOperators, SameRecording DEF Child!Difference
<1>2. remembered(f, "set_difference", a, b)
        = IF a = b \/ is_empty(a) THEN {EMPTY_SET_VALUE}
          ELSE IF is_empty(b) THEN {a}
          ELSE IF k \in DOMAIN f.differences THEN {f.differences[k]} ELSE {}
  BY DEF remembered
<1>3. is_empty(a) => a = EMPTY_SET_VALUE
  BY DEF is_empty
<1>. HIDE DEF g, r, s
<1>. QED
  BY <1>1, <1>2, <1>3 DEF g, r, s

LEMMA DifferenceAnswered ==
  ASSUME NEW f, ForestInv(f), NEW call, NEW a \in Indices(f),
         NEW b \in Indices(f), Child!Difference(f, call, a, b)
  PROVE  Answered(f, get_value(f, a) \ get_value(f, b))
<1> DEFINE s == get_value(f, a) \ get_value(f, b)
           g == registered(f, s)
           r == index_of(g, s)
<1>1. s \in SUBSET Property
  BY StoredValueLemma
<1>2. CASE \E i \in remembered(f, "set_difference", a, b) : \E stat :
             Child!Return(call, f, i, stat)
  <2>1. PICK i \in remembered(f, "set_difference", a, b) :
          \E stat : Child!Return(call, f, i, stat)
    BY <1>2
  <2>2. i \in Indices(f) /\ get_value(f, i) = s
    BY TrustedLemma, RememberedTrue DEF BinaryOps
  <2>. QED
    BY <2>1, <2>2, MemoryAnswered
<1>3. CASE /\ a # b /\ ~is_empty(a) /\ ~is_empty(b)
           /\ \E stat : Child!Return(call, difference_recorded(g, a, b, r), r,
                                     stat)
  <2>1. PICK stat : Child!Return(call, difference_recorded(g, a, b, r), r, stat)
    BY <1>3
  <2>2. /\ ForestInv(g) /\ r \in Indices(g) /\ get_value(g, r) = s
        /\ Indices(f) \subseteq Indices(g)
        /\ \A i \in Indices(f) : get_value(g, i) = get_value(f, i)
    BY <1>1, RegistrationLemma
  <2>3. /\ a \in Indices(g) /\ b \in Indices(g)
        /\ get_value(g, r) = get_value(g, a) \ get_value(g, b)
    BY <2>2
  <2>4. SameSets(g, difference_recorded(g, a, b, r))
    BY <1>3, <2>2, <2>3, DifferenceRecordedLemma DEF is_empty, EMPTY_SET_VALUE
  <2>. HIDE DEF s
  <2>5. Answered(f, s)
    BY <1>1, <2>1, <2>4, ComputedAnswered
  <2>. QED
    BY <2>5 DEF s
<1>. QED
  BY <1>2, <1>3, DifferenceWays

-----------------------------------------------------------------------------
(* The inductive invariant *)

(* What an element of the set s with the key k nests, none included.        *)
V(c, s, k) ==
  {p \in Property : \E e \in s : e[1] = k /\ p \in get_value(c, e[2])}

(* Key by key, the set u is the result of the operation on s and t.         *)
Combines(op, c, u, s, t) ==
  \A k \in Key : V(c, u, k) = flat_result(op, V(c, s, k), V(c, t, k))

(* Key by key, s lies in t.                                                 *)
Within(c, s, t) ==
  Keys(s) \subseteq Keys(t) /\ \A k \in Key : V(c, s, k) \subseteq V(c, t, k)

(* The keys that the result of an operation has.                            *)
result_keys(op, s, t) ==
  CASE op = "set_union"        -> Keys(s) \cup Keys(t)
    [] op = "set_intersection" -> Keys(s) \cap Keys(t)
    [] op = "set_difference"   -> Keys(s)

MapCombines(op, c, f, m) ==
  \A k \in DOMAIN m :
    Combines(op, c, get_value(f, m[k]), get_value(f, k[1]), get_value(f, k[2]))

MapContains(c, f, m) ==
  \A k \in DOMAIN m :
    /\ m[k] = "SUBSET" => Within(c, get_value(f, k[1]), get_value(f, k[2]))
    /\ m[k] = "SUPERSET" => Within(c, get_value(f, k[2]), get_value(f, k[1]))

(* What the parent f remembers is typed and true, key by key.               *)
Recorded(f, c) ==
  /\ IsMap(f.unions, Pairs(f), Indices(f))
  /\ IsMap(f.intersections, Pairs(f), Indices(f))
  /\ IsMap(f.differences, Pairs(f), Indices(f))
  /\ IsMap(f.subsets, Pairs(f), {"SUBSET", "SUPERSET"})
  /\ MapCombines("set_union", c, f, f.unions)
  /\ MapCombines("set_intersection", c, f, f.intersections)
  /\ MapCombines("set_difference", c, f, f.differences)
  /\ MapContains(c, f, f.subsets)

(* The sets of the parent f nest sets of the child c.                       *)
Stores(f, c) ==
  /\ f = Members(f)
  /\ f.property_sets \in Seq(SUBSET (Key \X Nat)) /\ Len(f.property_sets) > 0
  /\ IsMap(f.property_set_map, SUBSET (Key \X Nat), Indices(f))
  /\ Canonical(f)
  /\ \A i \in Indices(f) : IsElementSet(get_value(f, i), c)

ParentInv(f, c) == Stores(f, c) /\ Recorded(f, c)

ChildInv == ForestInv(child) /\ CachesHeld(Filter, child, child_caches)

(* A merge loop in progress has the result for the keys it is done with.    *)
MergeInv(m, f, c) ==
  /\ m = [op |-> m.op, a |-> m.a, b |-> m.b, todo |-> m.todo,
          new_set |-> m.new_set]
  /\ m.op \in BinaryOps
  /\ m.a \in Indices(f) /\ m.b \in Indices(f)
  /\ m.op # "set_difference" => m.a < m.b
  /\ remembered(f, m.op, m.a, m.b) = {}
  /\ IsElementSet(m.new_set, c)
  /\ LET s == get_value(f, m.a)
         t == get_value(f, m.b)
     IN  /\ m.todo \subseteq Keys(s) \cap Keys(t)
         /\ Keys(m.new_set) = result_keys(m.op, s, t) \ m.todo
         /\ \A k \in Key : k \notin m.todo =>
              V(c, m.new_set, k) = flat_result(m.op, V(c, s, k), V(c, t, k))

(* A single conjunct of TypeOK.                                             *)
Replied == reply.ret \in Indices(parent)

IInv ==
  /\ ChildInv
  /\ ParentInv(parent, child)
  /\ Replied
  /\ AnswerRemembered
  /\ Idle \/ MergeInv(merge, parent, child)

-----------------------------------------------------------------------------
(* A step of the child *)

(* The child after a step: as well formed, with all its sets.               *)
ChildGoes == ChildInv' /\ Later(child, child')

LEMMA AnsweredGoes ==
  ASSUME ChildInv, NEW f, Later(child, f), NEW s, Answered(f, s),
         UNCHANGED child_caches
  PROVE  ChildGoes
<1>1. ForestInv(child') /\ Later(child, child')
  BY DEF Answered, Later
<1>2. CachesHeld(Filter, child', child_caches)
  BY <1>1, CachesLater DEF ChildInv
<1>. QED
  BY <1>1, <1>2 DEF ChildGoes, ChildInv

(* What the parent calls.                                                   *)
LEMMA ChildOperation ==
  ASSUME ChildInv, NEW op \in BinaryOps,
         NEW x \in Indices(child), NEW y \in Indices(child),
         child_operation(op, x, y)
  PROVE  /\ ChildGoes
         /\ child_reply'.ret \in Indices(child')
         /\ get_value(child', child_reply'.ret)
              = flat_result(op, get_value(child, x), get_value(child, y))
<1>1. ForestInv(child) /\ Later(child, child)
  BY DEF ChildInv, Later
<1>2. CASE op = "set_union" /\ Child!set_union(x, y)
  <2>1. PICK call : Child!Union(child, call, x, y) /\ UNCHANGED child_caches
    BY <1>2 DEF Child!set_union
  <2>2. Answered(child, get_value(child, x) \cup get_value(child, y))
    BY <1>1, <2>1, UnionAnswered
  <2>3. ChildGoes
    BY <1>1, <2>1, <2>2, AnsweredGoes
  <2>. QED
    BY <1>2, <2>2, <2>3 DEF Answered, flat_result
<1>3. CASE op = "set_intersection" /\ Child!set_intersection(x, y)
  <2>1. PICK call : /\ Child!Intersection(child, call, x, y)
                    /\ UNCHANGED child_caches
    BY <1>3 DEF Child!set_intersection
  <2>2. Answered(child, get_value(child, x) \cap get_value(child, y))
    BY <1>1, <2>1, IntersectionAnswered
  <2>3. ChildGoes
    BY <1>1, <2>1, <2>2, AnsweredGoes
  <2>. QED
    BY <1>3, <2>2, <2>3 DEF Answered, flat_result
<1>4. CASE op = "set_difference" /\ Child!set_difference(x, y)
  <2>1. PICK call : Child!Difference(child, call, x, y) /\ UNCHANGED child_caches
    BY <1>4 DEF Child!set_difference
  <2>2. Answered(child, get_value(child, x) \ get_value(child, y))
    BY <1>1, <2>1, DifferenceAnswered
  <2>3. ChildGoes
    BY <1>1, <2>1, <2>2, AnsweredGoes
  <2>. QED
    BY <1>4, <2>2, <2>3 DEF Answered, flat_result
<1>. QED
  BY <1>2, <1>3, <1>4 DEF child_operation

(* What the caller calls besides.                                           *)
LEMMA ChildRegisters ==
  ASSUME ChildInv, NEW call, NEW s \in SUBSET Property,
         Child!Register(child, call, s), UNCHANGED child_caches
  PROVE  ChildGoes
<1>1. ForestInv(child) /\ Later(child, child)
  BY DEF ChildInv, Later
<1>2. Answered(child, s)
  BY <1>1, RegisterAnswered
<1>. QED
  BY <1>1, <1>2, AnsweredGoes

LEMMA ChildSingle ==
  ASSUME ChildInv, NEW a \in Indices(child), NEW p \in Property,
         Child!set_insert_single(a, p) \/ Child!set_remove_single(a, p)
  PROVE  ChildGoes
<1> DEFINE g == registered(child, {p})
           i == index_of(g, {p})
<1>1. ForestInv(child) /\ {p} \in SUBSET Property
  BY DEF ChildInv
<1>2. /\ ForestInv(g) /\ Later(child, g)
      /\ i \in Indices(g)
  BY <1>1, RegistrationLemma DEF Later
<1>3. a \in Indices(g)
  BY <1>2 DEF Later
<1>4. Child!registered(child, {p}) = g /\ Child!index_of(g, {p}) = i
  BY SameOperators
<1>. HIDE DEF g, i
<1>5. CASE Child!set_insert_single(a, p)
  <2>1. PICK call : Child!Union(g, call, a, i) /\ UNCHANGED child_caches
    BY <1>4, <1>5 DEF Child!set_insert_single
  <2>2. Answered(g, get_value(g, a) \cup get_value(g, i))
    BY <1>2, <1>3, <2>1, UnionAnswered
  <2>. QED
    BY <1>2, <2>1, <2>2, AnsweredGoes
<1>6. CASE Child!set_remove_single(a, p)
  <2>1. PICK call : Child!Difference(g, call, a, i) /\ UNCHANGED child_caches
    BY <1>4, <1>6 DEF Child!set_remove_single
  <2>2. Answered(g, get_value(g, a) \ get_value(g, i))
    BY <1>2, <1>3, <2>1, DifferenceAnswered
  <2>. QED
    BY <1>2, <2>1, <2>2, AnsweredGoes
<1>. QED
  BY <1>5, <1>6

LEMMA ChildFilters ==
  ASSUME ChildInv, NEW s \in Indices(child), NEW keep \in Filter,
         Child!set_filter(s, keep)
  PROVE  ChildGoes
<1> DEFINE kept == get_value(child, s) \cap keep
           g == registered(child, kept)
           r == index_of(g, kept)
           call == Child!Call("set_filter", <<s>>, keep)
<1>1. ForestInv(child) /\ CachesHeld(Filter, child, child_caches)
  BY DEF ChildInv
<1>2. kept \in SUBSET Property
  BY <1>1, StoredValueLemma
<1>3. \/ \E i, stat : Child!Return(call, child, i, stat) /\ UNCHANGED child_caches
      \/ /\ s \notin DOMAIN child_caches[keep]
         /\ \E stat : Child!Return(call, g, r, stat)
         /\ child_caches' = [child_caches EXCEPT ![keep] = Insert(@, s, r)]
  <2>1. \A m, k, v : Child!Insert(m, k, v) = Insert(m, k, v)
    BY Zenon DEF Child!Insert, Insert
  <2>2. /\ Child!get_value(child, s) \cap keep = kept
        /\ Child!registered(child, kept) = g
        /\ Child!index_of(g, kept) = r
    BY SameOperators
  <2>. HIDE DEF kept, g, r, call
  <2>. QED
    BY <2>1, <2>2 DEF Child!set_filter, call
<1>4. CASE \E i, stat :
             Child!Return(call, child, i, stat) /\ UNCHANGED child_caches
  BY <1>1, <1>4 DEF Child!Return, ChildGoes, ChildInv, Later
<1>5. CASE /\ s \notin DOMAIN child_caches[keep]
           /\ \E stat : Child!Return(call, g, r, stat)
           /\ child_caches' = [child_caches EXCEPT ![keep] = Insert(@, s, r)]
  <2>1. /\ ForestInv(g) /\ Later(child, g)
        /\ r \in Indices(g) /\ get_value(g, r) = kept
    BY <1>1, <1>2, RegistrationLemma DEF Later
  <2>2. child' = g
    BY <1>5 DEF Child!Return
  <2>. HIDE DEF g, r, kept
  <2>3. CachesHeld(Filter, g, child_caches)
    BY <1>1, <2>1, CachesLater
  <2>4. s \in Indices(g) /\ get_value(g, r) = get_value(g, s) \cap keep
    BY <2>1 DEF Later, kept
  <2>5. CachesHeld(Filter, g, child_caches')
    BY <1>5, <2>1, <2>3, <2>4, CachesInserted
  <2>. QED
    BY <2>1, <2>2, <2>5 DEF ChildGoes, ChildInv
<1>. QED
  BY <1>3, <1>4, <1>5

LEMMA ChildStep ==
  ASSUME ChildInv, Child!Next
  PROVE  ChildGoes
<1>1. ForestInv(child) /\ Child!Indices(child) = Indices(child)
  BY SameOperators DEF ChildInv
<1>2. ASSUME NEW s \in SUBSET Property, Child!register_set(s)
      PROVE  ChildGoes
  BY <1>2, ChildRegisters DEF Child!register_set
<1>3. ASSUME NEW p \in Property, Child!register_set_single(p)
      PROVE  ChildGoes
  <2>1. {p} \in SUBSET Property
    OBVIOUS
  <2>. QED
    BY <1>3, <2>1, ChildRegisters DEF Child!register_set_single
<1>4. ASSUME NEW a \in Indices(child), NEW b \in Indices(child),
             \/ Child!set_union(a, b)
             \/ Child!set_difference(a, b)
             \/ Child!set_intersection(a, b)
      PROVE  ChildGoes
  <2>1. \E op \in BinaryOps : child_operation(op, a, b)
    BY <1>4 DEF BinaryOps, child_operation
  <2>. QED
    BY <2>1, ChildOperation
<1>5. ASSUME NEW a \in Indices(child), NEW p \in Property,
             \/ Child!set_insert_single(a, p)
             \/ Child!set_remove_single(a, p)
             \/ Child!set_remove_single_key(a, p)
      PROVE  ChildGoes
  <2>1. CASE Child!set_remove_single_key(a, p)
    <3>1. Child!get_value(child, a) \ {p} \in SUBSET Property
      BY <1>1, SameOperators, StoredValueLemma
    <3>. QED
      BY <2>1, <3>1, ChildRegisters DEF Child!set_remove_single_key
  <2>. QED
    BY <1>5, <2>1, ChildSingle
<1>. QED
  BY <1>1, <1>2, <1>3, <1>4, <1>5, ChildFilters DEF Child!Next

-----------------------------------------------------------------------------
(* Sets of elements *)

(* An element is found by its key.                                          *)
LEMMA ElementLemma ==
  ASSUME NEW c, ForestInv(c), NEW s, IsElementSet(s, c)
  PROVE  /\ Keys(s) \subseteq Key
         /\ \A k \in Keys(s) : /\ nested(s, k) \in Indices(c)
                               /\ V(c, s, k) = get_value(c, nested(s, k))
         /\ \A k : k \notin Keys(s) => V(c, s, k) = {}
         /\ \A e \in s : /\ e[1] \in Keys(s) /\ e[2] \in Indices(c)
                         /\ V(c, s, e[1]) = get_value(c, e[2])
<1>1. /\ \A e \in s : e[1] \in Key /\ e[2] \in Indices(c)
      /\ \A e, g \in s : e[1] = g[1] => e = g
  BY DEF IsElementSet, Element
<1>2. \A i \in Indices(c) : get_value(c, i) \subseteq Property
  BY StoredValueLemma
<1>3. ASSUME NEW e \in s PROVE V(c, s, e[1]) = get_value(c, e[2])
  <2>1. \A g \in s : g[1] = e[1] => g = e
    BY <1>1
  <2>2. get_value(c, e[2]) \subseteq Property
    BY <1>1, <1>2
  <2>. QED
    BY <2>1, <2>2 DEF V
<1>4. ASSUME NEW k \in Keys(s)
      PROVE  \E e \in s : e[1] = k /\ nested(s, k) = e[2]
  <2> DEFINE e == CHOOSE e \in s : e[1] = k
  <2>1. \E g \in s : g[1] = k
    BY DEF Keys
  <2>2. e \in s /\ e[1] = k
    BY <2>1
  <2>3. nested(s, k) = e[2]
    BY DEF nested
  <2>. HIDE DEF e
  <2>. QED
    BY <2>2, <2>3
<1>5. \A k \in Keys(s) : /\ nested(s, k) \in Indices(c)
                         /\ V(c, s, k) = get_value(c, nested(s, k))
  BY <1>1, <1>3, <1>4
<1>6. \A k : k \notin Keys(s) => V(c, s, k) = {}
  BY DEF V, Keys
<1>7. Keys(s) \subseteq Key /\ \A e \in s : e[1] \in Keys(s)
  BY <1>1 DEF Keys
<1>. QED
  BY <1>1, <1>3, <1>5, <1>6, <1>7

(* Whatever the child does later, sets of elements nest what they nested.   *)
LEMMA LaterLemma ==
  ASSUME NEW c, NEW d, Later(c, d), NEW s, IsElementSet(s, c)
  PROVE  IsElementSet(s, d) /\ \A k : V(d, s, k) = V(c, s, k)
<1>1. Element(c) \subseteq Element(d)
  BY DEF Later, Element
<1>2. IsElementSet(s, d)
  BY <1>1 DEF IsElementSet
<1>3. \A e \in s : get_value(d, e[2]) = get_value(c, e[2])
  BY DEF IsElementSet, Element, Later
<1>4. \A k : V(d, s, k) = V(c, s, k)
  BY <1>3 DEF V
<1>. QED
  BY <1>2, <1>4

LEMMA CombinesLater ==
  ASSUME NEW c, NEW d, Later(c, d), NEW op, NEW s, IsElementSet(s, c),
         NEW t, IsElementSet(t, c), NEW u, IsElementSet(u, c)
  PROVE  /\ Combines(op, c, u, s, t) => Combines(op, d, u, s, t)
         /\ Within(c, s, t) => Within(d, s, t)
<1>1. \A k : /\ V(d, s, k) = V(c, s, k) /\ V(d, t, k) = V(c, t, k)
             /\ V(d, u, k) = V(c, u, k)
  BY LaterLemma
<1>2. Combines(op, c, u, s, t) => Combines(op, d, u, s, t)
  BY <1>1 DEF Combines
<1>3. Within(c, s, t) => Within(d, s, t)
  BY <1>1 DEF Within
<1>. QED
  BY <1>2, <1>3

LEMMA ParentLater ==
  ASSUME NEW f, NEW c, ParentInv(f, c), NEW d, Later(c, d)
  PROVE  ParentInv(f, d)
<1>1. \A i \in Indices(f) : IsElementSet(get_value(f, i), c)
  BY DEF ParentInv, Stores
<1>2. \A i \in Indices(f) : IsElementSet(get_value(f, i), d)
  BY <1>1, LaterLemma
<1>3. Stores(f, d)
  BY <1>2 DEF ParentInv, Stores
<1>4. ASSUME NEW op, NEW m, IsMap(m, Pairs(f), Indices(f)),
             MapCombines(op, c, f, m)
      PROVE  MapCombines(op, d, f, m)
  <2>. SUFFICES ASSUME NEW k \in DOMAIN m
                PROVE  Combines(op, d, get_value(f, m[k]),
                                get_value(f, k[1]), get_value(f, k[2]))
    BY DEF MapCombines
  <2>1. k[1] \in Indices(f) /\ k[2] \in Indices(f) /\ m[k] \in Indices(f)
    BY <1>4 DEF IsMap, Pairs
  <2>2. Combines(op, c, get_value(f, m[k]), get_value(f, k[1]),
                 get_value(f, k[2]))
    BY <1>4 DEF MapCombines
  <2>. QED
    BY <1>1, <2>1, <2>2, CombinesLater
<1>5. ASSUME NEW m, IsMap(m, Pairs(f), {"SUBSET", "SUPERSET"}),
             MapContains(c, f, m)
      PROVE  MapContains(d, f, m)
  <2>. SUFFICES ASSUME NEW k \in DOMAIN m
                PROVE  /\ m[k] = "SUBSET" =>
                            Within(d, get_value(f, k[1]), get_value(f, k[2]))
                       /\ m[k] = "SUPERSET" =>
                            Within(d, get_value(f, k[2]), get_value(f, k[1]))
    BY DEF MapContains
  <2>1. k[1] \in Indices(f) /\ k[2] \in Indices(f)
    BY <1>5 DEF IsMap, Pairs
  <2>2. /\ m[k] = "SUBSET" =>
             Within(c, get_value(f, k[1]), get_value(f, k[2]))
        /\ m[k] = "SUPERSET" =>
             Within(c, get_value(f, k[2]), get_value(f, k[1]))
    BY <1>5 DEF MapContains
  <2>. QED
    BY <1>1, <2>1, <2>2, CombinesLater
<1>6. Recorded(f, d)
  BY <1>4, <1>5 DEF ParentInv, Recorded
<1>. QED
  BY <1>3, <1>6 DEF ParentInv

(* The sets of f keep their indices in g, so what was recorded stays true.  *)
LEMMA RecordedLater ==
  ASSUME NEW f, NEW c, Recorded(f, c), NEW g, Later(f, g),
         g.unions = f.unions, g.intersections = f.intersections,
         g.differences = f.differences, g.subsets = f.subsets
  PROVE  Recorded(g, c)
<1>1. Pairs(f) \subseteq Pairs(g) /\ Indices(f) \subseteq Indices(g)
  BY DEF Later, Pairs
<1>2. \A i \in Indices(f) : get_value(g, i) = get_value(f, i)
  BY DEF Later
<1>3. ASSUME NEW m, NEW W, NEW X, W \subseteq X, IsMap(m, Pairs(f), W)
      PROVE  IsMap(m, Pairs(g), X)
  BY <1>1, <1>3 DEF IsMap
<1>4. ASSUME NEW op, NEW m, IsMap(m, Pairs(f), Indices(f)),
             MapCombines(op, c, f, m)
      PROVE  MapCombines(op, c, g, m)
  <2>1. \A k \in DOMAIN m :
          k[1] \in Indices(f) /\ k[2] \in Indices(f) /\ m[k] \in Indices(f)
    BY <1>4 DEF IsMap, Pairs
  <2>. QED
    BY <1>2, <1>4, <2>1 DEF MapCombines
<1>5. ASSUME NEW m, IsMap(m, Pairs(f), {"SUBSET", "SUPERSET"}),
             MapContains(c, f, m)
      PROVE  MapContains(c, g, m)
  <2>1. \A k \in DOMAIN m : k[1] \in Indices(f) /\ k[2] \in Indices(f)
    BY <1>5 DEF IsMap, Pairs
  <2>. QED
    BY <1>2, <1>5, <2>1 DEF MapContains
<1>6. /\ IsMap(g.unions, Pairs(g), Indices(g))
      /\ IsMap(g.intersections, Pairs(g), Indices(g))
      /\ IsMap(g.differences, Pairs(g), Indices(g))
      /\ IsMap(g.subsets, Pairs(g), {"SUBSET", "SUPERSET"})
  BY <1>1, <1>3 DEF Recorded
<1>7. /\ MapCombines("set_union", c, g, g.unions)
      /\ MapCombines("set_intersection", c, g, g.intersections)
      /\ MapCombines("set_difference", c, g, g.differences)
      /\ MapContains(c, g, g.subsets)
  BY <1>4, <1>5 DEF Recorded
<1>. QED
  BY <1>6, <1>7 DEF Recorded

-----------------------------------------------------------------------------
(* What the operations of the parent do to its members *)

LEMMA ParentFacts ==
  ASSUME NEW f, NEW c, Stores(f, c)
  PROVE  /\ Indices(f) \subseteq Nat /\ EMPTY_SET_VALUE \in Indices(f)
         /\ get_value(f, EMPTY_SET_VALUE) = {}
         /\ \A i \in Indices(f) : IsElementSet(get_value(f, i), c)
  BY DEF Stores, Canonical, Indices, EMPTY_SET_VALUE

LEMMA ParentRegisters ==
  ASSUME NEW f, NEW c, ParentInv(f, c), ForestInv(c), NEW s, IsElementSet(s, c)
  PROVE  LET g == registered(f, s)
             r == index_of(g, s)
         IN  /\ ParentInv(g, c) /\ Later(f, g)
             /\ r \in Indices(g) /\ get_value(g, r) = s
             /\ g.unions = f.unions /\ g.intersections = f.intersections
             /\ g.differences = f.differences /\ g.subsets = f.subsets
<1> DEFINE g == registered(f, s)
           r == index_of(g, s)
           n == Len(f.property_sets)
           E == SUBSET (Key \X Nat)
<1>1. /\ f = Members(f) /\ f.property_sets \in Seq(E)
      /\ n \in Nat /\ n > 0
      /\ IsMap(f.property_set_map, E, Indices(f))
      /\ Canonical(f)
      /\ \A i \in Indices(f) : IsElementSet(get_value(f, i), c)
  BY DEF ParentInv, Stores
<1>2. s \in E
  <2>1. Indices(c) \subseteq Nat
    BY StoredValueLemma
  <2>. QED
    BY <2>1 DEF IsElementSet, Element
<1>. HIDE DEF E
<1>3. CASE s \in DOMAIN f.property_set_map
  <2>1. g = f
    BY <1>3 DEF registered
  <2>2. f.property_set_map[s] \in Indices(f)
    BY <1>1, <1>3 DEF IsMap
  <2>3. get_value(f, index_of(f, s)) = s
    BY <1>1, <1>3 DEF Canonical
  <2>. HIDE DEF g
  <2>4. r \in Indices(g) /\ get_value(g, r) = s
    BY <2>1, <2>2, <2>3 DEF index_of
  <2>. HIDE DEF r
  <2>. QED
    BY <2>1, <2>4 DEF Later, g, r
<1>4. CASE s \notin DOMAIN f.property_set_map
  <2> DEFINE m == Insert(f.property_set_map, s, n)
  <2>1. /\ g.property_sets = Append(f.property_sets, s)
        /\ g.property_set_map = m
        /\ g.unions = f.unions
        /\ g.intersections = f.intersections
        /\ g.differences = f.differences
        /\ g.subsets = f.subsets
        /\ g = Members(g)
    <3>1. f = [property_sets    |-> f.property_sets,
               property_set_map |-> f.property_set_map,
               unions           |-> f.unions,
               intersections    |-> f.intersections,
               differences      |-> f.differences,
               subsets          |-> f.subsets]
      BY <1>1 DEF Members
    <3>. HIDE DEF m
    <3>2. g = [f EXCEPT !.property_sets = Append(@, s), !.property_set_map = m]
      BY <1>4 DEF registered, m
    <3>. QED
      BY <3>1, <3>2 DEF Members
  <2>. HIDE DEF g
  <2>2. /\ g.property_sets \in Seq(E) /\ Len(g.property_sets) = n + 1
        /\ \A i \in 1 .. n : g.property_sets[i] = f.property_sets[i]
        /\ g.property_sets[n + 1] = s
    BY <1>1, <1>2, <2>1
  <2>3. Indices(f) = 0 .. n - 1 /\ Indices(g) = 0 .. n
    BY <1>1, <2>2 DEF Indices
  <2>4. /\ \A i \in Indices(f) : get_value(g, i) = get_value(f, i)
        /\ get_value(g, n) = s
    BY <1>1, <2>2, <2>3 DEF get_value
  <2>5. /\ IsMap(m, E, Indices(g))
        /\ DOMAIN m = DOMAIN f.property_set_map \cup {s} /\ m[s] = n
        /\ \A t \in DOMAIN f.property_set_map : m[t] = f.property_set_map[t]
    <3>1. Indices(f) \subseteq Indices(g) /\ n \in Indices(g)
      BY <1>1, <2>3
    <3>. QED
      BY <1>1, <1>2, <1>4, <3>1 DEF IsMap, Insert
  <2>. HIDE DEF m
  <2>6. Later(f, g)
    BY <1>1, <2>3, <2>4 DEF Later
  <2>7. r = n /\ n \in Indices(g)
    BY <1>1, <2>1, <2>3, <2>5 DEF index_of
  <2>. HIDE DEF r
  <2>8. Canonical(g)
    <3>1. get_value(g, EMPTY_SET_VALUE) = {}
      BY <1>1, <2>3, <2>4 DEF Canonical, EMPTY_SET_VALUE
    <3>2. ASSUME NEW i \in Indices(g)
          PROVE  /\ get_value(g, i) \in DOMAIN g.property_set_map
                 /\ index_of(g, get_value(g, i)) = i
      <4>1. CASE i = n
        BY <2>1, <2>4, <2>5, <4>1 DEF index_of
      <4>2. CASE i # n
        <5>1. i \in Indices(f)
          BY <1>1, <2>3, <4>2
        <5>2. /\ get_value(f, i) \in DOMAIN f.property_set_map
              /\ f.property_set_map[get_value(f, i)] = i
          BY <1>1, <5>1 DEF Canonical, index_of
        <5>. QED
          BY <2>1, <2>4, <2>5, <5>1, <5>2 DEF index_of
      <4>. QED
        BY <4>1, <4>2
    <3>3. ASSUME NEW t \in DOMAIN g.property_set_map
          PROVE  get_value(g, index_of(g, t)) = t
      <4>1. CASE t = s
        BY <2>1, <2>4, <2>5, <4>1 DEF index_of
      <4>2. CASE t # s
        <5>1. t \in DOMAIN f.property_set_map
          BY <2>1, <2>5, <4>2
        <5>2. /\ f.property_set_map[t] \in Indices(f)
              /\ get_value(f, f.property_set_map[t]) = t
          BY <1>1, <5>1 DEF Canonical, index_of, IsMap
        <5>. QED
          BY <2>1, <2>4, <2>5, <5>1, <5>2 DEF index_of
      <4>. QED
        BY <4>1, <4>2
    <3>. QED
      BY <3>1, <3>2, <3>3 DEF Canonical
  <2>9. \A i \in Indices(g) : IsElementSet(get_value(g, i), c)
    <3>1. \A i \in Indices(g) : i = n \/ i \in Indices(f)
      BY <1>1, <2>3
    <3>. QED
      BY <1>1, <2>4, <3>1
  <2>10. Stores(g, c)
    <3>1. Len(g.property_sets) > 0
      BY <1>1, <2>2
    <3>. QED
      BY <2>1, <2>2, <2>5, <2>8, <2>9, <3>1 DEF Stores, E
  <2>11. Recorded(g, c)
    BY <2>1, <2>6, RecordedLater DEF ParentInv
  <2>. QED
    BY <2>1, <2>4, <2>6, <2>7, <2>10, <2>11 DEF ParentInv, g, r
<1>. QED
  BY <1>3, <1>4

(* An entry after an insertion is an old one or the new one.                *)
LEMMA EntriesInserted ==
  ASSUME NEW m, NEW K, NEW W, IsMap(m, K, W), NEW k \in K, NEW v \in W
  PROVE  LET n == Insert(m, k, v)
         IN  /\ IsMap(n, K, W)
             /\ \A x \in DOMAIN n :
                  (x \in DOMAIN m /\ n[x] = m[x]) \/ (x = k /\ n[x] = v)
<1> DEFINE n == Insert(m, k, v)
<1>1. /\ k \in DOMAIN m => n = m
      /\ k \notin DOMAIN m
           => n = [x \in DOMAIN m \cup {k} |-> IF x = k THEN v ELSE m[x]]
  BY DEF Insert
<1>. HIDE DEF n
<1>2. /\ IsMap(n, K, W)
      /\ \A x \in DOMAIN n : (x \in DOMAIN m /\ n[x] = m[x]) \/ (x = k /\ n[x] = v)
  <2>1. CASE k \in DOMAIN m
    BY <1>1, <2>1
  <2>2. CASE k \notin DOMAIN m
    <3>1. /\ DOMAIN n = DOMAIN m \cup {k} /\ n = [x \in DOMAIN n |-> n[x]]
          /\ n[k] = v /\ \A x \in DOMAIN m : n[x] = m[x]
      BY <1>1, <2>2
    <3>2. IsMap(n, K, W)
      BY <3>1 DEF IsMap
    <3>. QED
      BY <3>1, <3>2
  <2>. QED
    BY <2>1, <2>2
<1>. QED
  BY <1>2 DEF n

(* A new entry that is true leaves a map true.                              *)
LEMMA CombinesInserted ==
  ASSUME NEW f, NEW c, NEW op, NEW m, IsMap(m, Pairs(f), Indices(f)),
         MapCombines(op, c, f, m), NEW a \in Indices(f), NEW b \in Indices(f),
         NEW r \in Indices(f),
         Combines(op, c, get_value(f, r), get_value(f, a), get_value(f, b))
  PROVE  /\ IsMap(Insert(m, <<a, b>>, r), Pairs(f), Indices(f))
         /\ MapCombines(op, c, f, Insert(m, <<a, b>>, r))
<1> DEFINE k == <<a, b>>
           n == Insert(m, k, r)
<1>1. k \in Pairs(f) /\ k[1] = a /\ k[2] = b
  BY DEF Pairs
<1>. HIDE DEF k
<1>2. /\ IsMap(n, Pairs(f), Indices(f))
      /\ \A x \in DOMAIN n : (x \in DOMAIN m /\ n[x] = m[x]) \/ (x = k /\ n[x] = r)
  BY <1>1, EntriesInserted
<1>. HIDE DEF n
<1>3. MapCombines(op, c, f, n)
  BY <1>1, <1>2 DEF MapCombines
<1>. QED
  BY <1>2, <1>3 DEF n, k

(* g records what f does, with other maps.                                  *)
SameStore(f, g) ==
  /\ g = Members(g) /\ g.property_sets = f.property_sets
  /\ g.property_set_map = f.property_set_map

LEMMA SameStoreLemma ==
  ASSUME NEW f, NEW c, Stores(f, c), NEW g, SameStore(f, g)
  PROVE  /\ Stores(g, c) /\ Indices(g) = Indices(f) /\ Pairs(g) = Pairs(f)
         /\ \A i : get_value(g, i) = get_value(f, i)
         /\ \A op, m : MapCombines(op, c, f, m) <=> MapCombines(op, c, g, m)
         /\ \A m : MapContains(c, f, m) <=> MapContains(c, g, m)
<1>1. /\ Indices(g) = Indices(f) /\ Pairs(g) = Pairs(f)
      /\ \A i : get_value(g, i) = get_value(f, i)
      /\ \A s : index_of(g, s) = index_of(f, s)
  BY DEF SameStore, Indices, Pairs, get_value, index_of
<1>2. Stores(g, c)
  BY <1>1 DEF Stores, Canonical, SameStore
<1>3. \A op, m : MapCombines(op, c, f, m) <=> MapCombines(op, c, g, m)
  BY <1>1 DEF MapCombines
<1>4. \A m : MapContains(c, f, m) <=> MapContains(c, g, m)
  BY <1>1 DEF MapContains
<1>. QED
  BY <1>1, <1>2, <1>3, <1>4

with_union(f, k, r) == [f EXCEPT !.unions = Insert(@, k, r)]

with_intersection(f, k, r) == [f EXCEPT !.intersections = Insert(@, k, r)]

with_difference(f, k, r) == [f EXCEPT !.differences = Insert(@, k, r)]

with_subset(f, k, r) == [f EXCEPT !.subsets = Insert(@, k, r)]

(* What the steps of the recording operators do to the members.             *)
LEMMA RecordingShapes ==
  ASSUME NEW f, f = Members(f), NEW k, NEW r
  PROVE  /\ LET g == with_union(f, k, r)
            IN  /\ SameStore(f, g) /\ g.unions = Insert(f.unions, k, r)
                /\ g.intersections = f.intersections
                /\ g.differences = f.differences /\ g.subsets = f.subsets
         /\ LET g == with_intersection(f, k, r)
            IN  /\ SameStore(f, g) /\ g.unions = f.unions
                /\ g.intersections = Insert(f.intersections, k, r)
                /\ g.differences = f.differences /\ g.subsets = f.subsets
         /\ LET g == with_difference(f, k, r)
            IN  /\ SameStore(f, g) /\ g.unions = f.unions
                /\ g.intersections = f.intersections
                /\ g.differences = Insert(f.differences, k, r)
                /\ g.subsets = f.subsets
         /\ LET g == with_subset(f, k, r)
            IN  /\ SameStore(f, g) /\ g.unions = f.unions
                /\ g.intersections = f.intersections
                /\ g.differences = f.differences
                /\ g.subsets = Insert(f.subsets, k, r)
<1>1. f = [property_sets    |-> f.property_sets,
           property_set_map |-> f.property_set_map,
           unions           |-> f.unions,
           intersections    |-> f.intersections,
           differences      |-> f.differences,
           subsets          |-> f.subsets]
  BY DEF Members
<1>. QED
  BY <1>1 DEF SameStore, Members, with_union, with_intersection,
              with_difference, with_subset

(* A containment of nested sets is recorded.                                *)
LEMMA ParentContains ==
  ASSUME NEW f, NEW c, ParentInv(f, c), NEW a \in Indices(f),
         NEW b \in Indices(f), Within(c, get_value(f, a), get_value(f, b))
  PROVE  LET g == store_subset(f, a, b)
         IN  /\ ParentInv(g, c) /\ SameStore(f, g)
             /\ g.unions = f.unions /\ g.intersections = f.intersections
             /\ g.differences = f.differences
             /\ g.subsets = IF a > b
                              THEN Insert(f.subsets, <<b, a>>, "SUPERSET")
                              ELSE Insert(f.subsets, <<a, b>>, "SUBSET")
<1> DEFINE g == store_subset(f, a, b)
           k == IF a > b THEN <<b, a>> ELSE <<a, b>>
           v == IF a > b THEN "SUPERSET" ELSE "SUBSET"
           n == Insert(f.subsets, k, v)
<1>1. f = Members(f) /\ Stores(f, c) /\ Recorded(f, c)
  BY DEF ParentInv, Stores
<1>2. g = with_subset(f, k, v)
  BY DEF store_subset, with_subset
<1>3. n = IF a > b THEN Insert(f.subsets, <<b, a>>, "SUPERSET")
          ELSE Insert(f.subsets, <<a, b>>, "SUBSET")
  OBVIOUS
<1>4. /\ k \in Pairs(f) /\ v \in {"SUBSET", "SUPERSET"}
      /\ v = "SUBSET" => Within(c, get_value(f, k[1]), get_value(f, k[2]))
      /\ v = "SUPERSET" => Within(c, get_value(f, k[2]), get_value(f, k[1]))
  BY DEF Pairs
<1>. HIDE DEF k, v, g
<1>5. /\ SameStore(f, g) /\ g.unions = f.unions
      /\ g.intersections = f.intersections /\ g.differences = f.differences
      /\ g.subsets = n
  BY <1>1, <1>2, RecordingShapes
<1>6. /\ IsMap(n, Pairs(f), {"SUBSET", "SUPERSET"})
      /\ \A x \in DOMAIN n :
           \/ x \in DOMAIN f.subsets /\ n[x] = f.subsets[x]
           \/ x = k /\ n[x] = v
  <2>1. IsMap(f.subsets, Pairs(f), {"SUBSET", "SUPERSET"})
    BY <1>1 DEF Recorded
  <2>. QED
    BY <1>4, <2>1, EntriesInserted
<1>. HIDE DEF n
<1>7. MapContains(c, f, n)
  BY <1>1, <1>4, <1>6 DEF MapContains, Recorded
<1>8. /\ Stores(g, c) /\ Indices(g) = Indices(f) /\ Pairs(g) = Pairs(f)
      /\ \A op, m : MapCombines(op, c, f, m) <=> MapCombines(op, c, g, m)
      /\ \A m : MapContains(c, f, m) <=> MapContains(c, g, m)
  BY <1>1, <1>5, SameStoreLemma
<1>9. Recorded(g, c)
  BY <1>1, <1>5, <1>6, <1>7, <1>8 DEF Recorded
<1>. QED
  BY <1>3, <1>5, <1>8, <1>9 DEF ParentInv, g

(* The answers from memory, spelled out for a pair in order.                *)
LEMMA MemoryLemma ==
  ASSUME NEW f, NEW a \in Nat, NEW b \in Nat
  PROVE  /\ a < b =>
              /\ remembered(f, "set_union", a, b)
                   = IF a = 0 THEN {b}
                     ELSE IF is_subset(f, a, b) = "SUBSET" THEN {b}
                     ELSE IF is_subset(f, a, b) = "SUPERSET" THEN {a}
                     ELSE IF <<a, b>> \in DOMAIN f.unions
                            THEN {f.unions[<<a, b>>]} ELSE {}
              /\ remembered(f, "set_intersection", a, b)
                   = IF a = 0 THEN {a}
                     ELSE IF is_subset(f, a, b) = "SUBSET" THEN {a}
                     ELSE IF is_subset(f, a, b) = "SUPERSET" THEN {b}
                     ELSE IF <<a, b>> \in DOMAIN f.intersections
                            THEN {f.intersections[<<a, b>>]} ELSE {}
         /\ remembered(f, "set_difference", a, b)
              = IF a = b \/ a = 0 THEN {0}
                ELSE IF b = 0 THEN {a}
                ELSE IF <<a, b>> \in DOMAIN f.differences
                       THEN {f.differences[<<a, b>>]} ELSE {}
<1>1. a < b => minimum(a, b) = a /\ maximum(a, b) = b /\ a # b
  BY DEF minimum, maximum
<1>2. a < b => remembered(f, "set_union", a, b)
                 = IF a = 0 THEN {b}
                   ELSE IF is_subset(f, a, b) = "SUBSET" THEN {b}
                   ELSE IF is_subset(f, a, b) = "SUPERSET" THEN {a}
                   ELSE IF <<a, b>> \in DOMAIN f.unions
                          THEN {f.unions[<<a, b>>]} ELSE {}
  BY <1>1 DEF remembered, is_empty, EMPTY_SET_VALUE
<1>3. a < b => remembered(f, "set_intersection", a, b)
                 = IF a = 0 THEN {a}
                   ELSE IF is_subset(f, a, b) = "SUBSET" THEN {a}
                   ELSE IF is_subset(f, a, b) = "SUPERSET" THEN {b}
                   ELSE IF <<a, b>> \in DOMAIN f.intersections
                          THEN {f.intersections[<<a, b>>]} ELSE {}
  BY <1>1 DEF remembered, is_empty, EMPTY_SET_VALUE
<1>4. remembered(f, "set_difference", a, b)
        = IF a = b \/ a = 0 THEN {0}
          ELSE IF b = 0 THEN {a}
          ELSE IF <<a, b>> \in DOMAIN f.differences
                 THEN {f.differences[<<a, b>>]} ELSE {}
  BY DEF remembered, is_empty, EMPTY_SET_VALUE
<1>. QED
  BY <1>2, <1>3, <1>4

(* Nothing is known yet of a pair that has to be computed.                  *)
LEMMA UnknownLemma ==
  ASSUME NEW f, NEW c, ParentInv(f, c), NEW a \in Indices(f),
         NEW b \in Indices(f), NEW op \in BinaryOps,
         op # "set_difference" => a < b, remembered(f, op, a, b) = {}
  PROVE  /\ a \in Nat /\ b \in Nat /\ a # 0 /\ b # 0 /\ a # b
         /\ op = "set_union" =>
              <<a, b>> \notin DOMAIN f.subsets /\ <<a, b>> \notin DOMAIN f.unions
         /\ op = "set_intersection" =>
              /\ <<a, b>> \notin DOMAIN f.subsets
              /\ <<a, b>> \notin DOMAIN f.intersections
         /\ op = "set_difference" => <<a, b>> \notin DOMAIN f.differences
<1>1. a \in Nat /\ b \in Nat
  BY DEF Indices
<1>2. <<a, b>> \in DOMAIN f.subsets
        => is_subset(f, a, b) \in {"SUBSET", "SUPERSET"}
  BY DEF ParentInv, Recorded, IsMap, is_subset
<1>3. CASE op = "set_union"
  <2>1. a < b /\ remembered(f, "set_union", a, b) = {}
    BY <1>3
  <2>2. remembered(f, "set_union", a, b)
          = IF a = 0 THEN {b}
            ELSE IF is_subset(f, a, b) = "SUBSET" THEN {b}
            ELSE IF is_subset(f, a, b) = "SUPERSET" THEN {a}
            ELSE IF <<a, b>> \in DOMAIN f.unions
                   THEN {f.unions[<<a, b>>]} ELSE {}
    BY <1>1, <2>1, MemoryLemma
  <2>. QED
    BY <1>1, <1>2, <1>3, <2>1, <2>2
<1>4. CASE op = "set_intersection"
  <2>1. a < b /\ remembered(f, "set_intersection", a, b) = {}
    BY <1>4
  <2>2. remembered(f, "set_intersection", a, b)
          = IF a = 0 THEN {a}
            ELSE IF is_subset(f, a, b) = "SUBSET" THEN {a}
            ELSE IF is_subset(f, a, b) = "SUPERSET" THEN {b}
            ELSE IF <<a, b>> \in DOMAIN f.intersections
                   THEN {f.intersections[<<a, b>>]} ELSE {}
    BY <1>1, <2>1, MemoryLemma
  <2>. QED
    BY <1>1, <1>2, <1>4, <2>1, <2>2
<1>5. CASE op = "set_difference"
  <2>1. remembered(f, "set_difference", a, b) = {}
    BY <1>5
  <2>2. remembered(f, "set_difference", a, b)
          = IF a = b \/ a = 0 THEN {0}
            ELSE IF b = 0 THEN {a}
            ELSE IF <<a, b>> \in DOMAIN f.differences
                   THEN {f.differences[<<a, b>>]} ELSE {}
    BY <1>1, MemoryLemma
  <2>. QED
    BY <1>1, <1>5, <2>1, <2>2
<1>. QED
  BY <1>3, <1>4, <1>5 DEF BinaryOps

LEMMA UnionRecorded ==
  ASSUME NEW f, NEW c, ParentInv(f, c), NEW a \in Indices(f),
         NEW b \in Indices(f), a < b, remembered(f, "set_union", a, b) = {},
         NEW r \in Indices(f),
         Combines("set_union", c, get_value(f, r), get_value(f, a),
                  get_value(f, b)),
         Keys(get_value(f, r))
           = result_keys("set_union", get_value(f, a), get_value(f, b))
  PROVE  LET h == union_recorded(f, a, b, r)
         IN  /\ ParentInv(h, c) /\ SameStore(f, h)
             /\ remembered(h, "set_union", a, b) = {r}
<1> DEFINE k == <<a, b>>
           g == with_union(f, k, r)
           h == union_recorded(f, a, b, r)
<1>1. /\ a \in Nat /\ b \in Nat /\ r \in Nat /\ a # 0 /\ a # b
      /\ k \notin DOMAIN f.subsets /\ k \notin DOMAIN f.unions
  BY UnknownLemma DEF BinaryOps, Indices
<1>2. /\ SameStore(f, g) /\ g.unions = Insert(f.unions, k, r)
      /\ g.intersections = f.intersections
      /\ g.differences = f.differences /\ g.subsets = f.subsets
  BY RecordingShapes DEF ParentInv, Stores
<1>3. h = IF r = a THEN store_subset(g, b, r)
          ELSE IF r = b THEN store_subset(g, a, r)
          ELSE store_subset(store_subset(g, a, r), b, r)
  BY DEF union_recorded, with_union
<1>4. /\ Within(c, get_value(f, a), get_value(f, r))
      /\ Within(c, get_value(f, b), get_value(f, r))
  BY DEF Within, Combines, result_keys, flat_result
<1>. HIDE DEF g, h
<1>5. /\ Stores(g, c) /\ Indices(g) = Indices(f) /\ Pairs(g) = Pairs(f)
      /\ \A i : get_value(g, i) = get_value(f, i)
      /\ \A op, m : MapCombines(op, c, f, m) <=> MapCombines(op, c, g, m)
      /\ \A m : MapContains(c, f, m) <=> MapContains(c, g, m)
  BY <1>2, SameStoreLemma DEF ParentInv
<1>6. /\ IsMap(g.unions, Pairs(f), Indices(f))
      /\ MapCombines("set_union", c, f, g.unions)
  <2>1. /\ IsMap(f.unions, Pairs(f), Indices(f))
        /\ MapCombines("set_union", c, f, f.unions)
    BY DEF ParentInv, Recorded
  <2>. QED
    BY <1>2, <2>1, CombinesInserted
<1>7. ParentInv(g, c)
  BY <1>2, <1>5, <1>6 DEF ParentInv, Recorded
<1>8. k \in DOMAIN g.unions /\ g.unions[k] = r
  BY <1>1, <1>2 DEF Insert
<1>9. \A x : SameStore(g, x) => SameStore(f, x)
  BY <1>2 DEF SameStore
<1>10. \A x : remembered(x, "set_union", a, b)
                = IF is_subset(x, a, b) = "SUBSET" THEN {b}
                  ELSE IF is_subset(x, a, b) = "SUPERSET" THEN {a}
                  ELSE IF k \in DOMAIN x.unions THEN {x.unions[k]} ELSE {}
  BY <1>1, MemoryLemma
<1>11. CASE r = a
  <2>1. h = store_subset(g, b, a)
    BY <1>3, <1>11
  <2>2. /\ ParentInv(h, c) /\ SameStore(g, h)
        /\ h.subsets = IF b > a THEN Insert(g.subsets, <<a, b>>, "SUPERSET")
                       ELSE Insert(g.subsets, <<b, a>>, "SUBSET")
    <3>1. Within(c, get_value(g, b), get_value(g, a))
      BY <1>4, <1>5, <1>11
    <3>2. LET x == store_subset(g, b, a)
          IN  /\ ParentInv(x, c) /\ SameStore(g, x)
              /\ x.subsets = IF b > a
                               THEN Insert(g.subsets, <<a, b>>, "SUPERSET")
                               ELSE Insert(g.subsets, <<b, a>>, "SUBSET")
      BY <1>5, <1>7, <3>1, ParentContains
    <3>. QED
      BY <2>1, <3>2
  <2>3. h.subsets = Insert(f.subsets, k, "SUPERSET")
    BY <1>1, <1>2, <2>2
  <2>4. is_subset(h, a, b) = "SUPERSET"
    BY <1>1, <2>3 DEF is_subset, Insert
  <2>. QED
    BY <1>9, <1>10, <1>11, <2>2, <2>4 DEF h
<1>12. CASE r = b
  <2>1. h = store_subset(g, a, b)
    BY <1>1, <1>3, <1>12
  <2>2. /\ ParentInv(h, c) /\ SameStore(g, h)
        /\ h.subsets = IF a > b THEN Insert(g.subsets, <<b, a>>, "SUPERSET")
                       ELSE Insert(g.subsets, <<a, b>>, "SUBSET")
    BY <1>4, <1>5, <1>7, <1>12, <2>1, ParentContains
  <2>3. h.subsets = Insert(f.subsets, k, "SUBSET")
    BY <1>1, <1>2, <2>2
  <2>4. is_subset(h, a, b) = "SUBSET"
    BY <1>1, <2>3 DEF is_subset, Insert
  <2>. QED
    BY <1>9, <1>10, <1>12, <2>2, <2>4 DEF h
<1>13. CASE r # a /\ r # b
  <2> DEFINE m == store_subset(g, a, r)
  <2>1. h = store_subset(m, b, r)
    BY <1>3, <1>13
  <2>2. /\ ParentInv(m, c) /\ SameStore(g, m) /\ m.unions = g.unions
        /\ m.subsets = IF a > r THEN Insert(g.subsets, <<r, a>>, "SUPERSET")
                       ELSE Insert(g.subsets, <<a, r>>, "SUBSET")
    BY <1>4, <1>5, <1>7, ParentContains
  <2>. HIDE DEF m
  <2>3. /\ Indices(m) = Indices(f) /\ \A i : get_value(m, i) = get_value(f, i)
    BY <1>5, <2>2, SameStoreLemma
  <2>4. /\ ParentInv(h, c) /\ SameStore(m, h) /\ h.unions = m.unions
        /\ h.subsets = IF b > r THEN Insert(m.subsets, <<r, b>>, "SUPERSET")
                       ELSE Insert(m.subsets, <<b, r>>, "SUBSET")
    BY <1>4, <2>1, <2>2, <2>3, ParentContains
  <2>5. k \notin DOMAIN m.subsets
    BY <1>1, <1>2, <1>13, <2>2 DEF Insert
  <2>6. k \notin DOMAIN h.subsets
    BY <1>1, <1>13, <2>4, <2>5 DEF Insert
  <2>7. is_subset(h, a, b) = "UNKNOWN"
    BY <2>6 DEF is_subset
  <2>8. SameStore(f, h)
    BY <1>9, <2>2, <2>4 DEF SameStore
  <2>9. remembered(h, "set_union", a, b) = {r}
    BY <1>8, <1>10, <2>2, <2>4, <2>7
  <2>. QED
    BY <2>4, <2>8, <2>9 DEF h
<1>. QED
  BY <1>11, <1>12, <1>13

LEMMA IntersectionRecorded ==
  ASSUME NEW f, NEW c, ParentInv(f, c), NEW a \in Indices(f),
         NEW b \in Indices(f), a < b,
         remembered(f, "set_intersection", a, b) = {}, NEW r \in Indices(f),
         Combines("set_intersection", c, get_value(f, r), get_value(f, a),
                  get_value(f, b)),
         Keys(get_value(f, r))
           = result_keys("set_intersection", get_value(f, a), get_value(f, b))
  PROVE  LET h == intersection_recorded(f, a, b, r)
         IN  /\ ParentInv(h, c) /\ SameStore(f, h)
             /\ remembered(h, "set_intersection", a, b) = {r}
<1> DEFINE k == <<a, b>>
           g == with_intersection(f, k, r)
           h == intersection_recorded(f, a, b, r)
<1>1. /\ a \in Nat /\ b \in Nat /\ r \in Nat /\ a # 0 /\ a # b
      /\ k \notin DOMAIN f.subsets /\ k \notin DOMAIN f.intersections
  BY UnknownLemma DEF BinaryOps, Indices
<1>2. /\ SameStore(f, g) /\ g.unions = f.unions
      /\ g.intersections = Insert(f.intersections, k, r)
      /\ g.differences = f.differences /\ g.subsets = f.subsets
  BY RecordingShapes DEF ParentInv, Stores
<1>3. h = IF r # a THEN store_subset(g, r, a) ELSE store_subset(g, r, b)
  BY DEF intersection_recorded, with_intersection
<1>4. /\ Within(c, get_value(f, r), get_value(f, a))
      /\ Within(c, get_value(f, r), get_value(f, b))
  BY DEF Within, Combines, result_keys, flat_result
<1>. HIDE DEF g, h
<1>5. /\ Stores(g, c) /\ Indices(g) = Indices(f) /\ Pairs(g) = Pairs(f)
      /\ \A i : get_value(g, i) = get_value(f, i)
      /\ \A op, m : MapCombines(op, c, f, m) <=> MapCombines(op, c, g, m)
      /\ \A m : MapContains(c, f, m) <=> MapContains(c, g, m)
  BY <1>2, SameStoreLemma DEF ParentInv
<1>6. /\ IsMap(g.intersections, Pairs(f), Indices(f))
      /\ MapCombines("set_intersection", c, f, g.intersections)
  <2>1. /\ IsMap(f.intersections, Pairs(f), Indices(f))
        /\ MapCombines("set_intersection", c, f, f.intersections)
    BY DEF ParentInv, Recorded
  <2>. QED
    BY <1>2, <2>1, CombinesInserted
<1>7. ParentInv(g, c)
  BY <1>2, <1>5, <1>6 DEF ParentInv, Recorded
<1>8. k \in DOMAIN g.intersections /\ g.intersections[k] = r
  BY <1>1, <1>2 DEF Insert
<1>9. \A x : SameStore(g, x) => SameStore(f, x)
  BY <1>2 DEF SameStore
<1>10. \A x : remembered(x, "set_intersection", a, b)
                = IF is_subset(x, a, b) = "SUBSET" THEN {a}
                  ELSE IF is_subset(x, a, b) = "SUPERSET" THEN {b}
                  ELSE IF k \in DOMAIN x.intersections
                         THEN {x.intersections[k]} ELSE {}
  BY <1>1, MemoryLemma
<1>11. CASE r = a
  <2>1. h = store_subset(g, a, b)
    BY <1>3, <1>11
  <2>2. /\ ParentInv(h, c) /\ SameStore(g, h)
        /\ h.subsets = IF a > b THEN Insert(g.subsets, <<b, a>>, "SUPERSET")
                       ELSE Insert(g.subsets, <<a, b>>, "SUBSET")
    <3>1. Within(c, get_value(g, a), get_value(g, b))
      BY <1>4, <1>5, <1>11
    <3>. QED
      BY <1>5, <1>7, <2>1, <3>1, ParentContains
  <2>3. h.subsets = Insert(f.subsets, k, "SUBSET")
    BY <1>1, <1>2, <2>2
  <2>4. is_subset(h, a, b) = "SUBSET"
    BY <1>1, <2>3 DEF is_subset, Insert
  <2>. QED
    BY <1>9, <1>10, <1>11, <2>2, <2>4 DEF h
<1>12. CASE r # a
  <2>1. h = store_subset(g, r, a)
    BY <1>3, <1>12
  <2>2. /\ ParentInv(h, c) /\ SameStore(g, h)
        /\ h.intersections = g.intersections
        /\ h.subsets = IF r > a THEN Insert(g.subsets, <<a, r>>, "SUPERSET")
                       ELSE Insert(g.subsets, <<r, a>>, "SUBSET")
    <3>1. Within(c, get_value(g, r), get_value(g, a))
      BY <1>4, <1>5
    <3>2. LET x == store_subset(g, r, a)
          IN  /\ ParentInv(x, c) /\ SameStore(g, x)
              /\ x.intersections = g.intersections
              /\ x.subsets = IF r > a
                               THEN Insert(g.subsets, <<a, r>>, "SUPERSET")
                               ELSE Insert(g.subsets, <<r, a>>, "SUBSET")
      BY <1>5, <1>7, <3>1, ParentContains
    <3>. QED
      BY <2>1, <3>2
  <2>3. CASE r = b
    <3>1. h.subsets = Insert(f.subsets, k, "SUPERSET")
      BY <1>1, <1>2, <2>2, <2>3
    <3>2. is_subset(h, a, b) = "SUPERSET"
      BY <1>1, <3>1 DEF is_subset, Insert
    <3>. QED
      BY <1>9, <1>10, <2>2, <2>3, <3>2 DEF h
  <2>4. CASE r # b
    <3>1. k \notin DOMAIN h.subsets
      BY <1>1, <1>2, <1>12, <2>2, <2>4 DEF Insert
    <3>2. is_subset(h, a, b) = "UNKNOWN"
      BY <3>1 DEF is_subset
    <3>3. remembered(h, "set_intersection", a, b) = {r}
      BY <1>8, <1>10, <2>2, <3>2
    <3>. QED
      BY <1>9, <2>2, <3>3 DEF h
  <2>. QED
    BY <2>3, <2>4
<1>. QED
  BY <1>11, <1>12

LEMMA DifferenceRecorded ==
  ASSUME NEW f, NEW c, ParentInv(f, c), NEW a \in Indices(f),
         NEW b \in Indices(f), remembered(f, "set_difference", a, b) = {},
         NEW r \in Indices(f),
         Combines("set_difference", c, get_value(f, r), get_value(f, a),
                  get_value(f, b)),
         Keys(get_value(f, r))
           = result_keys("set_difference", get_value(f, a), get_value(f, b))
  PROVE  LET h == difference_recorded(f, a, b, r)
         IN  /\ ParentInv(h, c) /\ SameStore(f, h)
             /\ remembered(h, "set_difference", a, b) = {r}
<1> DEFINE k == <<a, b>>
           x == minimum(a, b)
           y == maximum(a, b)
           p == <<x, y>>
           g == with_difference(f, k, r)
           h == difference_recorded(f, a, b, r)
<1>1. /\ a \in Nat /\ b \in Nat /\ a # 0 /\ b # 0 /\ a # b
      /\ k \notin DOMAIN f.differences
  BY UnknownLemma DEF BinaryOps
<1>2. /\ SameStore(f, g) /\ g.unions = f.unions
      /\ g.intersections = f.intersections
      /\ g.differences = Insert(f.differences, k, r)
      /\ g.subsets = f.subsets
  BY RecordingShapes DEF ParentInv, Stores
<1>3. h = IF r # a THEN store_subset(g, r, a)
          ELSE with_intersection(g, p, EMPTY_SET_VALUE)
  BY DEF difference_recorded, with_difference, with_intersection
<1>4. Within(c, get_value(f, r), get_value(f, a))
  BY DEF Within, Combines, result_keys, flat_result
<1>. HIDE DEF g, h
<1>5. /\ Stores(g, c) /\ Indices(g) = Indices(f) /\ Pairs(g) = Pairs(f)
      /\ \A i : get_value(g, i) = get_value(f, i)
      /\ \A op, m : MapCombines(op, c, f, m) <=> MapCombines(op, c, g, m)
      /\ \A m : MapContains(c, f, m) <=> MapContains(c, g, m)
  BY <1>2, SameStoreLemma DEF ParentInv
<1>6. /\ IsMap(g.differences, Pairs(f), Indices(f))
      /\ MapCombines("set_difference", c, f, g.differences)
  <2>1. /\ IsMap(f.differences, Pairs(f), Indices(f))
        /\ MapCombines("set_difference", c, f, f.differences)
    BY DEF ParentInv, Recorded
  <2>. QED
    BY <1>2, <2>1, CombinesInserted
<1>7. ParentInv(g, c)
  BY <1>2, <1>5, <1>6 DEF ParentInv, Recorded
<1>8. k \in DOMAIN g.differences /\ g.differences[k] = r
  BY <1>1, <1>2 DEF Insert
<1>9. \A z : SameStore(g, z) => SameStore(f, z)
  BY <1>2 DEF SameStore
<1>10. ASSUME NEW z, z.differences = g.differences
       PROVE  remembered(z, "set_difference", a, b) = {r}
  <2>1. remembered(z, "set_difference", a, b)
          = IF a = b \/ a = 0 THEN {0}
            ELSE IF b = 0 THEN {a}
            ELSE IF k \in DOMAIN z.differences THEN {z.differences[k]} ELSE {}
    BY <1>1, MemoryLemma
  <2>. QED
    BY <1>1, <1>8, <1>10, <2>1
<1>11. CASE r # a
  <2>. HIDE DEF k, p, x, y
  <2>1. h = store_subset(g, r, a)
    BY <1>3, <1>11
  <2>2. ParentInv(h, c) /\ SameStore(g, h) /\ h.differences = g.differences
    <3>1. Within(c, get_value(g, r), get_value(g, a))
      BY <1>4, <1>5
    <3>2. LET u == store_subset(g, r, a)
          IN  /\ ParentInv(u, c) /\ SameStore(g, u)
              /\ u.differences = g.differences
              /\ u.subsets = IF r > a
                               THEN Insert(g.subsets, <<a, r>>, "SUPERSET")
                               ELSE Insert(g.subsets, <<r, a>>, "SUBSET")
      BY <1>5, <1>7, <3>1, ParentContains
    <3>. QED
      BY <2>1, <3>2
  <2>. QED
    BY <1>9, <1>10, <2>2 DEF h
<1>12. CASE r = a
  <2>1. h = with_intersection(g, p, EMPTY_SET_VALUE)
    BY <1>3, <1>12
  <2>2. /\ SameStore(g, h) /\ h.unions = g.unions
        /\ h.intersections = Insert(g.intersections, p, EMPTY_SET_VALUE)
        /\ h.differences = g.differences /\ h.subsets = g.subsets
    BY <1>5, <2>1, RecordingShapes DEF Stores
  <2>3. /\ x \in Indices(g) /\ y \in Indices(g)
        /\ EMPTY_SET_VALUE \in Indices(g)
        /\ get_value(g, EMPTY_SET_VALUE) = {}
        /\ (x = a /\ y = b) \/ (x = b /\ y = a)
    BY <1>5, ParentFacts DEF minimum, maximum
  <2>. HIDE DEF x, y
  <2>4. Combines("set_intersection", c, get_value(g, EMPTY_SET_VALUE),
                 get_value(g, x), get_value(g, y))
    <3>1. \A j : V(c, {}, j) = {}
      BY DEF V
    <3>2. \A j \in Key :
            V(c, get_value(f, a), j) \cap V(c, get_value(f, b), j) = {}
      BY <1>12 DEF Combines, flat_result
    <3>. QED
      BY <1>5, <2>3, <3>1, <3>2 DEF Combines, flat_result
  <2>5. /\ IsMap(h.intersections, Pairs(g), Indices(g))
        /\ MapCombines("set_intersection", c, g, h.intersections)
    <3>1. /\ IsMap(g.intersections, Pairs(g), Indices(g))
          /\ MapCombines("set_intersection", c, g, g.intersections)
      BY <1>7 DEF ParentInv, Recorded
    <3>. QED
      BY <2>2, <2>3, <2>4, <3>1, CombinesInserted
  <2>6. /\ Stores(h, c) /\ Indices(h) = Indices(g) /\ Pairs(h) = Pairs(g)
        /\ \A op, m : MapCombines(op, c, g, m) <=> MapCombines(op, c, h, m)
        /\ \A m : MapContains(c, g, m) <=> MapContains(c, h, m)
    BY <1>5, <2>2, SameStoreLemma
  <2>7. ParentInv(h, c)
    BY <1>7, <2>2, <2>5, <2>6 DEF ParentInv, Recorded
  <2>. QED
    BY <1>9, <1>10, <2>2, <2>7 DEF h
<1>. QED
  BY <1>11, <1>12

-----------------------------------------------------------------------------
(* The merge loop *)

(* What an operation takes over without a call of the child.                *)
LEMMA UnmatchedLemma ==
  ASSUME NEW c, ForestInv(c), NEW op \in BinaryOps,
         NEW s, IsElementSet(s, c), NEW t, IsElementSet(t, c)
  PROVE  LET u == unmatched(op, s, t)
             common == Keys(s) \cap Keys(t)
         IN  /\ IsElementSet(u, c)
             /\ Keys(u) = result_keys(op, s, t) \ common
             /\ \A k \in Key : k \notin common =>
                  V(c, u, k) = flat_result(op, V(c, s, k), V(c, t, k))
<1> DEFINE u == unmatched(op, s, t)
           common == Keys(s) \cap Keys(t)
<1>1. /\ \A k : k \notin Keys(s) => V(c, s, k) = {}
      /\ \A k : k \notin Keys(t) => V(c, t, k) = {}
  BY ElementLemma
<1>2. CASE op = "set_union"
  <2>1. u = {e \in s \cup t : e[1] \notin common}
    BY <1>2 DEF unmatched
  <2>. HIDE DEF u
  <2>2. IsElementSet(u, c)
    BY <2>1 DEF IsElementSet, Keys
  <2>3. Keys(u) = (Keys(s) \cup Keys(t)) \ common
    BY <2>1 DEF Keys
  <2>4. \A k : k \notin common => V(c, u, k) = V(c, s, k) \cup V(c, t, k)
    BY <2>1 DEF V
  <2>. QED
    BY <1>2, <2>2, <2>3, <2>4 DEF u, result_keys, flat_result
<1>3. CASE op = "set_intersection"
  <2>1. u = {}
    BY <1>3 DEF unmatched
  <2>. HIDE DEF u
  <2>2. IsElementSet(u, c) /\ Keys(u) = {} /\ \A k : V(c, u, k) = {}
    BY <2>1 DEF IsElementSet, Keys, V
  <2>3. \A k : k \notin common => V(c, s, k) \cap V(c, t, k) = {}
    BY <1>1
  <2>. QED
    BY <1>3, <2>2, <2>3 DEF u, result_keys, flat_result
<1>4. CASE op = "set_difference"
  <2>1. u = {e \in s : e[1] \notin Keys(t)}
    BY <1>4 DEF unmatched
  <2>. HIDE DEF u
  <2>2. IsElementSet(u, c)
    BY <2>1 DEF IsElementSet
  <2>3. Keys(u) = Keys(s) \ common
    BY <2>1 DEF Keys
  <2>4. \A k : k \notin Keys(t) => V(c, u, k) = V(c, s, k)
    BY <2>1 DEF V
  <2>5. \A k : k \notin Keys(s) => V(c, u, k) = {}
    BY <2>1 DEF V, Keys
  <2>6. \A k : k \notin common => V(c, u, k) = V(c, s, k) \ V(c, t, k)
    BY <1>1, <2>4, <2>5
  <2>. QED
    BY <1>4, <2>2, <2>3, <2>6 DEF u, result_keys, flat_result
<1>. QED
  BY <1>2, <1>3, <1>4 DEF BinaryOps

(* There is a next key.                                                     *)
LEMMA NextKeyLemma ==
  ASSUME NEW S \in SUBSET Nat, S # {}
  PROVE  (CHOOSE k \in S : \A j \in S : k <= j) \in S
<1> DEFINE R == OpToRel(<, Nat)
<1>1. IsWellFoundedOn(R, Nat)
  BY NatLessThanWellFounded, Zenon
<1>2. \E k \in S : \A j \in S : <<j, k>> \notin R
  <2>. HIDE DEF R
  <2>. QED
    BY <1>1, WFMin
<1>3. \A j, k \in S : <<j, k>> \notin R => k <= j
  BY DEF OpToRel
<1>4. \E k \in S : \A j \in S : k <= j
  <2>. HIDE DEF R
  <2>. QED
    BY <1>2, <1>3
<1>. QED
  BY <1>4

(* The result of a child operation joins the elements done so far.          *)
LEMMA JoinedLemma ==
  ASSUME NEW c, NEW s, IsElementSet(s, c), NEW k \in Key, k \notin Keys(s),
         NEW r \in Indices(c), ForestInv(c)
  PROVE  LET u == s \cup {<<k, r>>}
         IN  /\ IsElementSet(u, c) /\ Keys(u) = Keys(s) \cup {k}
             /\ V(c, u, k) = get_value(c, r)
             /\ \A j : j # k => V(c, u, j) = V(c, s, j)
<1> DEFINE e == <<k, r>>
           u == s \cup {e}
<1>1. e \in Element(c) /\ e[1] = k /\ e[2] = r
  BY DEF Element
<1>2. \A g \in s : g[1] # k
  BY DEF Keys
<1>. HIDE DEF e
<1>3. IsElementSet(u, c)
  BY <1>1, <1>2 DEF IsElementSet
<1>4. Keys(u) = Keys(s) \cup {k}
  BY <1>1 DEF Keys
<1>5. V(c, u, k) = get_value(c, r)
  <2>1. get_value(c, r) \subseteq Property
    BY StoredValueLemma
  <2>. QED
    BY <1>1, <1>2, <2>1 DEF V
<1>6. \A j : j # k => V(c, u, j) = V(c, s, j)
  BY <1>1 DEF V
<1>. QED
  BY <1>3, <1>4, <1>5, <1>6 DEF e

(* The parent's loop goes on, on the child as it is now.                    *)
LEMMA MergeLater ==
  ASSUME NEW f, NEW c, ParentInv(f, c), NEW d, Later(c, d), NEW m,
         MergeInv(m, f, c)
  PROVE  MergeInv(m, f, d)
<1> DEFINE s == get_value(f, m.a)
           t == get_value(f, m.b)
<1>1. /\ IsElementSet(s, c) /\ IsElementSet(t, c)
      /\ IsElementSet(m.new_set, c)
  BY DEF MergeInv, ParentInv, Stores
<1>. HIDE DEF s, t
<1>2. /\ IsElementSet(m.new_set, d)
      /\ \A k : /\ V(d, s, k) = V(c, s, k) /\ V(d, t, k) = V(c, t, k)
                /\ V(d, m.new_set, k) = V(c, m.new_set, k)
  BY <1>1, LaterLemma
<1>. QED
  BY <1>2 DEF MergeInv, s, t

-----------------------------------------------------------------------------
(* The parent's steps *)

(* The answers from memory depend on the maps only.                         *)
LEMMA SameMemory ==
  ASSUME NEW f, NEW g, NEW op \in BinaryOps, NEW a, NEW b,
         g.unions = f.unions, g.intersections = f.intersections,
         g.differences = f.differences, g.subsets = f.subsets
  PROVE  remembered(g, op, a, b) = remembered(f, op, a, b)
<1> DEFINE x == minimum(a, b)
           y == maximum(a, b)
<1>1. is_subset(g, x, y) = is_subset(f, x, y)
  BY DEF is_subset
<1>2. CASE op = "set_union"
  BY <1>1, <1>2 DEF remembered
<1>3. CASE op = "set_intersection"
  BY <1>1, <1>3 DEF remembered
<1>4. CASE op = "set_difference"
  BY <1>4 DEF remembered
<1>. QED
  BY <1>2, <1>3, <1>4 DEF BinaryOps

(* The parent's last answer is in its memory as long as that is.            *)
LEMMA AnswerStays ==
  ASSUME AnswerRemembered, UNCHANGED reply,
         parent'.unions = parent.unions,
         parent'.intersections = parent.intersections,
         parent'.differences = parent.differences,
         parent'.subsets = parent.subsets
  PROVE  AnswerRemembered'
<1>1. \A op \in BinaryOps : \A a, b :
        remembered(parent', op, a, b) = remembered(parent, op, a, b)
  BY SameMemory
<1>. QED
  BY <1>1 DEF AnswerRemembered

LEMMA DescendStep ==
  ASSUME IInv, descend
  PROVE  IInv'
<1> DEFINE k == CHOOSE k \in merge.todo : \A j \in merge.todo : k <= j
           op == merge.op
           s == get_value(parent, merge.a)
           t == get_value(parent, merge.b)
           r == child_reply'.ret
           m == merge'
<1>1. /\ merge.todo # {}
      /\ child_operation(op, nested(s, k), nested(t, k))
      /\ m = [merge EXCEPT !.todo = @ \ {k}, !.new_set = @ \cup {<<k, r>>}]
      /\ UNCHANGED <<parent, reply>>
  BY DEF descend
<1>2. MergeInv(merge, parent, child)
  BY <1>1 DEF IInv, Idle, NoMerge
<1>3. /\ ChildInv /\ ParentInv(parent, child) /\ ForestInv(child)
      /\ IsElementSet(s, child) /\ IsElementSet(t, child)
      /\ merge.todo \subseteq Keys(s) \cap Keys(t)
      /\ op \in BinaryOps
  BY <1>2 DEF IInv, ChildInv, MergeInv, ParentInv, Stores
<1>4. /\ Keys(s) \subseteq Key
      /\ \A j \in Keys(s) : /\ nested(s, j) \in Indices(child)
                            /\ V(child, s, j) = get_value(child, nested(s, j))
      /\ \A j \in Keys(t) : /\ nested(t, j) \in Indices(child)
                            /\ V(child, t, j) = get_value(child, nested(t, j))
  BY <1>3, ElementLemma
<1>5. k \in merge.todo
  <2>1. merge.todo \in SUBSET Nat
    BY <1>3, <1>4, NestingAssumption
  <2>. QED
    BY <1>1, <2>1, NextKeyLemma
<1>. HIDE DEF k, s, t
<1>6. /\ ChildGoes /\ r \in Indices(child')
      /\ get_value(child', r)
           = flat_result(op, V(child, s, k), V(child, t, k))
  BY <1>1, <1>3, <1>4, <1>5, ChildOperation
<1>7. /\ ChildInv' /\ ForestInv(child') /\ Later(child, child')
  BY <1>6 DEF ChildGoes, ChildInv
<1>8. ParentInv(parent, child') /\ MergeInv(merge, parent, child')
  BY <1>2, <1>3, <1>7, ParentLater, MergeLater
<1>9. /\ merge = [op |-> op, a |-> merge.a, b |-> merge.b,
                  todo |-> merge.todo, new_set |-> merge.new_set]
      /\ IsElementSet(merge.new_set, child')
      /\ Keys(merge.new_set) = result_keys(op, s, t) \ merge.todo
      /\ \A j \in Key : j \notin merge.todo =>
           V(child', merge.new_set, j)
             = flat_result(op, V(child', s, j), V(child', t, j))
      /\ remembered(parent, op, merge.a, merge.b) = {}
      /\ op # "set_difference" => merge.a < merge.b
      /\ merge.a \in Indices(parent) /\ merge.b \in Indices(parent)
  BY <1>8 DEF MergeInv, s, t
<1>10. /\ \A j : V(child', s, j) = V(child, s, j)
       /\ \A j : V(child', t, j) = V(child, t, j)
  BY <1>3, <1>7, LaterLemma
<1>11. m = [op |-> op, a |-> merge.a, b |-> merge.b,
            todo |-> merge.todo \ {k},
            new_set |-> merge.new_set \cup {<<k, r>>}]
  BY <1>1, <1>9
<1>12. /\ m.op = op /\ m.a = merge.a /\ m.b = merge.b
       /\ m.todo = merge.todo \ {k}
       /\ m.new_set = merge.new_set \cup {<<k, r>>}
       /\ m = [op |-> m.op, a |-> m.a, b |-> m.b, todo |-> m.todo,
               new_set |-> m.new_set]
  BY <1>11
<1>13. k \in Key /\ k \notin Keys(merge.new_set)
  BY <1>3, <1>4, <1>5, <1>9
<1>. HIDE DEF m, r
<1>14. /\ IsElementSet(m.new_set, child')
       /\ Keys(m.new_set) = Keys(merge.new_set) \cup {k}
       /\ V(child', m.new_set, k) = get_value(child', r)
       /\ \A j : j # k => V(child', m.new_set, j) = V(child', merge.new_set, j)
  BY <1>6, <1>7, <1>9, <1>12, <1>13, JoinedLemma
<1>15. Keys(m.new_set) = result_keys(op, s, t) \ m.todo
  <2>1. k \in result_keys(op, s, t)
    BY <1>3, <1>5 DEF result_keys, BinaryOps
  <2>. QED
    BY <1>9, <1>12, <1>14, <2>1
<1>16. \A j \in Key : j \notin m.todo =>
         V(child', m.new_set, j)
           = flat_result(op, V(child', s, j), V(child', t, j))
  <2>. TAKE j \in Key
  <2>. HAVE j \notin m.todo
  <2>1. CASE j = k
    BY <1>6, <1>10, <1>14, <2>1
  <2>2. CASE j # k
    BY <1>9, <1>12, <1>14, <2>2
  <2>. QED
    BY <2>1, <2>2
<1>17. MergeInv(m, parent, child')
  BY <1>3, <1>9, <1>12, <1>14, <1>15, <1>16 DEF MergeInv, s, t
<1>18. Replied' /\ AnswerRemembered'
  BY <1>1, AnswerStays DEF IInv, Replied
<1>. QED
  BY <1>1, <1>7, <1>8, <1>17, <1>18 DEF IInv, m

(* What the parent answers from memory exists and is right, key by key.     *)
LEMMA ParentRemembers ==
  ASSUME NEW f, NEW c, ParentInv(f, c), NEW op \in BinaryOps,
         NEW a \in Indices(f), NEW b \in Indices(f),
         NEW r \in remembered(f, op, a, b)
  PROVE  /\ remembered(f, op, a, b) = {r} /\ r \in Indices(f)
         /\ Combines(op, c, get_value(f, r), get_value(f, a), get_value(f, b))
<1> DEFINE x == minimum(a, b)
           y == maximum(a, b)
           v(i, k) == V(c, get_value(f, i), k)
           sub == is_subset(f, x, y)
<1>1. /\ Indices(f) \subseteq Nat /\ EMPTY_SET_VALUE \in Indices(f)
      /\ \A k : v(EMPTY_SET_VALUE, k) = {}
  BY ParentFacts DEF ParentInv, V
<1>2. /\ x \in Indices(f) /\ y \in Indices(f)
      /\ (x = a /\ y = b) \/ (x = b /\ y = a)
  BY DEF minimum, maximum
<1>3. /\ sub = "SUBSET" => \A k \in Key : v(x, k) \subseteq v(y, k)
      /\ sub = "SUPERSET" => \A k \in Key : v(y, k) \subseteq v(x, k)
  <2>1. MapContains(c, f, f.subsets)
    BY DEF ParentInv, Recorded
  <2>2. \A k : <<x, y>> \in DOMAIN f.subsets =>
          /\ f.subsets[<<x, y>>] = "SUBSET"
               => Within(c, get_value(f, x), get_value(f, y))
          /\ f.subsets[<<x, y>>] = "SUPERSET"
               => Within(c, get_value(f, y), get_value(f, x))
    BY <2>1 DEF MapContains
  <2>. HIDE DEF x, y
  <2>. QED
    BY <2>2 DEF is_subset, Within
<1>4. ASSUME NEW m, NEW o, IsMap(m, Pairs(f), Indices(f)),
             MapCombines(o, c, f, m), NEW i, NEW j, <<i, j>> \in DOMAIN m
      PROVE  /\ m[<<i, j>>] \in Indices(f)
             /\ \A k \in Key : v(m[<<i, j>>], k) = flat_result(o, v(i, k), v(j, k))
  <2> DEFINE p == <<i, j>>
  <2>1. p[1] = i /\ p[2] = j
    OBVIOUS
  <2>. HIDE DEF p
  <2>. QED
    BY <1>4, <2>1 DEF IsMap, MapCombines, Combines, p
<1>5. /\ IsMap(f.unions, Pairs(f), Indices(f))
      /\ IsMap(f.intersections, Pairs(f), Indices(f))
      /\ IsMap(f.differences, Pairs(f), Indices(f))
      /\ MapCombines("set_union", c, f, f.unions)
      /\ MapCombines("set_intersection", c, f, f.intersections)
      /\ MapCombines("set_difference", c, f, f.differences)
  BY DEF ParentInv, Recorded
<1>6. /\ Combines(op, c, get_value(f, r), get_value(f, a), get_value(f, b))
           <=> \A k \in Key : v(r, k) = flat_result(op, v(a, k), v(b, k))
  BY DEF Combines
<1>7. CASE op = "set_union"
  <2>1. remembered(f, op, a, b)
          = IF a = b \/ x = EMPTY_SET_VALUE THEN {y}
            ELSE IF sub = "SUBSET" THEN {y}
            ELSE IF sub = "SUPERSET" THEN {x}
            ELSE IF <<x, y>> \in DOMAIN f.unions THEN {f.unions[<<x, y>>]}
            ELSE {}
    BY <1>7 DEF remembered, is_empty
  <2>2. <<x, y>> \in DOMAIN f.unions =>
          /\ f.unions[<<x, y>>] \in Indices(f)
          /\ \A k \in Key : v(f.unions[<<x, y>>], k) = v(x, k) \cup v(y, k)
    <3>. HIDE DEF x, y, v
    <3>1. <<x, y>> \in DOMAIN f.unions =>
            /\ f.unions[<<x, y>>] \in Indices(f)
            /\ \A k \in Key : v(f.unions[<<x, y>>], k)
                 = flat_result("set_union", v(x, k), v(y, k))
      BY <1>4, <1>5
    <3>2. \A S, T : flat_result("set_union", S, T) = S \cup T
      BY DEF flat_result
    <3>. QED
      BY <3>1, <3>2
  <2>. HIDE DEF x, y, v, sub
  <2>3. r \in Indices(f) /\ \A k \in Key : v(r, k) = v(x, k) \cup v(y, k)
    BY <1>1, <1>2, <1>3, <2>1, <2>2
  <2>4. \A k \in Key : v(r, k) = flat_result(op, v(a, k), v(b, k))
    BY <1>2, <1>7, <2>3 DEF flat_result
  <2>5. remembered(f, op, a, b) = {r}
    BY <2>1
  <2>. QED
    BY <1>6, <2>3, <2>4, <2>5
<1>8. CASE op = "set_intersection"
  <2>1. remembered(f, op, a, b)
          = IF a = b \/ x = EMPTY_SET_VALUE THEN {x}
            ELSE IF sub = "SUBSET" THEN {x}
            ELSE IF sub = "SUPERSET" THEN {y}
            ELSE IF <<x, y>> \in DOMAIN f.intersections
                   THEN {f.intersections[<<x, y>>]}
            ELSE {}
    BY <1>8 DEF remembered, is_empty
  <2>2. <<x, y>> \in DOMAIN f.intersections =>
          /\ f.intersections[<<x, y>>] \in Indices(f)
          /\ \A k \in Key :
               v(f.intersections[<<x, y>>], k) = v(x, k) \cap v(y, k)
    <3>. HIDE DEF x, y, v
    <3>1. <<x, y>> \in DOMAIN f.intersections =>
            /\ f.intersections[<<x, y>>] \in Indices(f)
            /\ \A k \in Key : v(f.intersections[<<x, y>>], k)
                 = flat_result("set_intersection", v(x, k), v(y, k))
      BY <1>4, <1>5
    <3>2. \A S, T : flat_result("set_intersection", S, T) = S \cap T
      BY DEF flat_result
    <3>. QED
      BY <3>1, <3>2
  <2>. HIDE DEF x, y, v, sub
  <2>3. r \in Indices(f) /\ \A k \in Key : v(r, k) = v(x, k) \cap v(y, k)
    BY <1>1, <1>2, <1>3, <2>1, <2>2
  <2>4. \A k \in Key : v(r, k) = flat_result(op, v(a, k), v(b, k))
    BY <1>2, <1>8, <2>3 DEF flat_result
  <2>5. remembered(f, op, a, b) = {r}
    BY <2>1
  <2>. QED
    BY <1>6, <2>3, <2>4, <2>5
<1>9. CASE op = "set_difference"
  <2>1. remembered(f, op, a, b)
          = IF a = b \/ a = EMPTY_SET_VALUE THEN {EMPTY_SET_VALUE}
            ELSE IF b = EMPTY_SET_VALUE THEN {a}
            ELSE IF <<a, b>> \in DOMAIN f.differences
                   THEN {f.differences[<<a, b>>]}
            ELSE {}
    BY <1>9 DEF remembered, is_empty
  <2>2. <<a, b>> \in DOMAIN f.differences =>
          /\ f.differences[<<a, b>>] \in Indices(f)
          /\ \A k \in Key : v(f.differences[<<a, b>>], k) = v(a, k) \ v(b, k)
    <3>. HIDE DEF x, y, v
    <3>1. <<a, b>> \in DOMAIN f.differences =>
            /\ f.differences[<<a, b>>] \in Indices(f)
            /\ \A k \in Key : v(f.differences[<<a, b>>], k)
                 = flat_result("set_difference", v(a, k), v(b, k))
      BY <1>4, <1>5
    <3>2. \A S, T : flat_result("set_difference", S, T) = S \ T
      BY DEF flat_result
    <3>. QED
      BY <3>1, <3>2
  <2>. HIDE DEF x, y, v, sub
  <2>3. r \in Indices(f) /\ \A k \in Key : v(r, k) = v(a, k) \ v(b, k)
    BY <1>1, <2>1, <2>2
  <2>4. \A k \in Key : v(r, k) = flat_result(op, v(a, k), v(b, k))
    BY <1>9, <2>3 DEF flat_result
  <2>5. remembered(f, op, a, b) = {r}
    BY <2>1
  <2>. QED
    BY <1>6, <2>3, <2>4, <2>5
<1>. QED
  BY <1>7, <1>8, <1>9 DEF BinaryOps

(* An operation that is computed has operands in order.                     *)
LEMMA OrderedLemma ==
  ASSUME NEW f, NEW op \in BinaryOps, NEW x \in Nat, NEW y \in Nat,
         remembered(f, op, x, y) = {}
  PROVE  LET a == IF op = "set_difference" THEN x ELSE minimum(x, y)
             b == IF op = "set_difference" THEN y ELSE maximum(x, y)
         IN  /\ remembered(f, op, a, b) = {}
             /\ op # "set_difference" => a < b
             /\ (a = x /\ b = y) \/ (a = y /\ b = x)
<1>1. CASE op = "set_difference"
  BY <1>1
<1>2. CASE op # "set_difference"
  <2>1. x # y
    <3>1. CASE op = "set_union"
      BY <3>1 DEF remembered
    <3>2. CASE op = "set_intersection"
      BY <3>2 DEF remembered
    <3>. QED
      BY <1>2, <3>1, <3>2 DEF BinaryOps
  <2>2. CASE x < y
    <3>1. minimum(x, y) = x /\ maximum(x, y) = y
      BY <2>2 DEF minimum, maximum
    <3>. QED
      BY <1>2, <2>2, <3>1
  <2>3. CASE y < x
    <3>1. /\ minimum(x, y) = y /\ maximum(x, y) = x
          /\ minimum(y, x) = y /\ maximum(y, x) = x
      BY <2>3 DEF minimum, maximum
    <3>2. CASE op = "set_union"
      BY <2>1, <2>3, <3>1, <3>2 DEF remembered
    <3>3. CASE op = "set_intersection"
      BY <2>1, <2>3, <3>1, <3>3 DEF remembered
    <3>. QED
      BY <1>2, <3>2, <3>3 DEF BinaryOps
  <2>. QED
    BY <2>1, <2>2, <2>3
<1>. QED
  BY <1>1, <1>2

LEMMA StartStep ==
  ASSUME IInv, NEW f, ParentInv(f, child), Later(parent, f),
         f.unions = parent.unions, f.intersections = parent.intersections,
         f.differences = parent.differences, f.subsets = parent.subsets,
         NEW op \in BinaryOps, NEW x \in Indices(f), NEW y \in Indices(f),
         Start(f, op, x, y)
  PROVE  IInv'
<1> DEFINE a == IF op = "set_difference" THEN x ELSE minimum(x, y)
           b == IF op = "set_difference" THEN y ELSE maximum(x, y)
           s == get_value(f, a)
           t == get_value(f, b)
           u == unmatched(op, s, t)
           m == merge'
<1>1. /\ Idle /\ parent' = f /\ UNCHANGED children
      /\ \/ /\ \E r \in remembered(f, op, x, y) : Return(op, x, y, r)
            /\ UNCHANGED merge
         \/ /\ remembered(f, op, x, y) = {}
            /\ m = [op |-> op, a |-> a, b |-> b,
                    todo |-> Keys(s) \cap Keys(t), new_set |-> u]
            /\ UNCHANGED reply
  BY DEF Start
<1>2. ChildInv' /\ ParentInv(parent', child')
  BY <1>1 DEF IInv, ChildInv, children
<1>3. CASE /\ \E r \in remembered(f, op, x, y) : Return(op, x, y, r)
           /\ UNCHANGED merge
  <2>1. PICK r \in remembered(f, op, x, y) : Return(op, x, y, r)
    BY <1>3
  <2>2. remembered(f, op, x, y) = {r} /\ r \in Indices(f)
    BY ParentRemembers
  <2>3. /\ reply'.op = op /\ reply'.a = x /\ reply'.b = y /\ reply'.ret = r
    BY <2>1 DEF Return
  <2>4. Replied' /\ AnswerRemembered'
    BY <1>1, <2>2, <2>3 DEF Replied, AnswerRemembered
  <2>5. Idle'
    BY <1>1, <1>3 DEF Idle, NoMerge
  <2>. QED
    BY <1>2, <2>4, <2>5 DEF IInv
<1>4. CASE /\ remembered(f, op, x, y) = {}
           /\ m = [op |-> op, a |-> a, b |-> b,
                   todo |-> Keys(s) \cap Keys(t), new_set |-> u]
           /\ UNCHANGED reply
  <2>1. x \in Nat /\ y \in Nat /\ remembered(f, op, x, y) = {}
    BY <1>4 DEF Indices
  <2>2. /\ remembered(f, op, a, b) = {}
        /\ op # "set_difference" => a < b
        /\ (a = x /\ b = y) \/ (a = y /\ b = x)
    BY <2>1, OrderedLemma
  <2>3. a \in Indices(f) /\ b \in Indices(f)
    BY <2>2
  <2>. HIDE DEF a, b
  <2>4. /\ IsElementSet(s, child) /\ IsElementSet(t, child)
        /\ ForestInv(child)
    BY <2>3 DEF ParentInv, Stores, IInv, ChildInv
  <2>5. /\ m.op = op /\ m.a = a /\ m.b = b
        /\ m.todo = Keys(s) \cap Keys(t) /\ m.new_set = u
        /\ m = [op |-> m.op, a |-> m.a, b |-> m.b, todo |-> m.todo,
                new_set |-> m.new_set]
    BY <1>4
  <2>. HIDE DEF s, t, u, m
  <2>6. /\ IsElementSet(u, child)
        /\ Keys(u) = result_keys(op, s, t) \ (Keys(s) \cap Keys(t))
        /\ \A k \in Key : k \notin Keys(s) \cap Keys(t) =>
             V(child, u, k) = flat_result(op, V(child, s, k), V(child, t, k))
    BY <2>4, UnmatchedLemma DEF u
  <2>7. MergeInv(m, f, child)
    BY <2>2, <2>3, <2>5, <2>6 DEF MergeInv, s, t
  <2>8. MergeInv(merge', parent', child')
    BY <1>1, <2>7 DEF m, children
  <2>9. AnswerRemembered'
    BY <1>1, <1>4, AnswerStays DEF IInv
  <2>10. Replied'
    <3>1. reply.ret \in Indices(f)
      BY DEF IInv, Replied, Later
    <3>. QED
      BY <1>1, <1>4, <3>1 DEF Replied
  <2>. QED
    BY <1>2, <2>8, <2>9, <2>10 DEF IInv
<1>. QED
  BY <1>1, <1>3, <1>4

(* The sets that a caller may register are sets of elements.                *)
LEMMA ElementSetsLemma ==
  ASSUME NEW c, NEW s \in ElementSets(c)
  PROVE  IsElementSet(s, c)
<1>1. PICK K \in SUBSET Key : \E v \in [K -> Indices(c)] :
        s = {<<k, v[k]>> : k \in K}
  BY DEF ElementSets
<1>2. PICK v \in [K -> Indices(c)] : s = {<<k, v[k]>> : k \in K}
  BY <1>1
<1>3. \A e \in s : e[1] \in K /\ e = <<e[1], v[e[1]]>>
  BY <1>2
<1>4. \A e \in s : e \in Element(c)
  BY <1>3 DEF Element
<1>5. \A e, g \in s : e[1] = g[1] => e = g
  BY <1>3
<1>. QED
  BY <1>4, <1>5 DEF IsElementSet

(* The parent registers a set and is idle again.                            *)
LEMMA RegisterStep ==
  ASSUME IInv, NEW s, IsElementSet(s, child), NEW op, op \notin BinaryOps,
         NEW a, Idle, parent' = registered(parent, s),
         Return(op, a, 0, index_of(parent', s)), UNCHANGED <<children, merge>>
  PROVE  IInv'
<1>1. /\ ChildInv /\ ParentInv(parent, child) /\ ForestInv(child)
  BY DEF IInv, ChildInv
<1>2. ParentInv(parent', child) /\ index_of(parent', s) \in Indices(parent')
  BY <1>1, ParentRegisters
<1>3. ChildInv' /\ ParentInv(parent', child')
  BY <1>1, <1>2 DEF ChildInv, children
<1>4. reply'.op = op /\ reply'.ret = index_of(parent', s)
  BY DEF Return
<1>5. Replied' /\ AnswerRemembered'
  BY <1>2, <1>4 DEF Replied, AnswerRemembered
<1>6. Idle'
  BY DEF Idle, NoMerge
<1>. QED
  BY <1>3, <1>5, <1>6 DEF IInv

(* A set with a single element is registered first.                         *)
LEMMA SingleStep ==
  ASSUME IInv, NEW a \in Indices(parent), NEW e \in Element(child),
         set_insert_single(a, e) \/ set_remove_single(a, e)
  PROVE  IInv'
<1> DEFINE f == registered(parent, {e})
           i == index_of(f, {e})
<1>1. ParentInv(parent, child) /\ ForestInv(child)
  BY DEF IInv, ChildInv
<1>2. IsElementSet({e}, child)
  BY DEF IsElementSet
<1>3. /\ ParentInv(f, child) /\ Later(parent, f) /\ i \in Indices(f)
      /\ f.unions = parent.unions /\ f.intersections = parent.intersections
      /\ f.differences = parent.differences /\ f.subsets = parent.subsets
  BY <1>1, <1>2, ParentRegisters
<1>4. a \in Indices(f)
  BY <1>3 DEF Later
<1>5. \E op \in BinaryOps : Start(f, op, a, i)
  BY DEF set_insert_single, set_remove_single, BinaryOps
<1>. HIDE DEF f, i
<1>. QED
  BY <1>3, <1>4, <1>5, StartStep

LEMMA FinishStep ==
  ASSUME IInv, finish
  PROVE  IInv'
<1> DEFINE op == merge.op
           a == merge.a
           b == merge.b
           u == merge.new_set
           s == get_value(parent, a)
           t == get_value(parent, b)
           f == registered(parent, u)
           r == index_of(f, u)
<1>1. /\ merge.todo = {} /\ merge' = NoMerge /\ UNCHANGED children
      /\ parent' = CASE op = "set_union" -> union_recorded(f, a, b, r)
                     [] op = "set_intersection" ->
                          intersection_recorded(f, a, b, r)
                     [] op = "set_difference" -> difference_recorded(f, a, b, r)
      /\ Return(op, a, b, r)
  BY DEF finish
<1>2. /\ ChildInv /\ ParentInv(parent, child) /\ ForestInv(child)
      /\ MergeInv(merge, parent, child)
  BY DEF finish, IInv, ChildInv
<1>3. /\ op \in BinaryOps /\ a \in Indices(parent) /\ b \in Indices(parent)
      /\ op # "set_difference" => a < b
      /\ remembered(parent, op, a, b) = {}
      /\ IsElementSet(u, child) /\ Keys(u) = result_keys(op, s, t)
      /\ Combines(op, child, u, s, t)
  BY <1>1, <1>2 DEF MergeInv, Combines
<1>. HIDE DEF op, a, b, u
<1>4. /\ ParentInv(f, child) /\ Later(parent, f)
      /\ r \in Indices(f) /\ get_value(f, r) = u
      /\ f.unions = parent.unions /\ f.intersections = parent.intersections
      /\ f.differences = parent.differences /\ f.subsets = parent.subsets
  BY <1>2, <1>3, ParentRegisters
<1>. HIDE DEF f, r
<1>5. /\ a \in Indices(f) /\ b \in Indices(f)
      /\ get_value(f, a) = s /\ get_value(f, b) = t
  BY <1>3, <1>4 DEF Later
<1>6. remembered(f, op, a, b) = {}
  BY <1>3, <1>4, SameMemory
<1>7. /\ Combines(op, child, get_value(f, r), get_value(f, a), get_value(f, b))
      /\ Keys(get_value(f, r))
           = result_keys(op, get_value(f, a), get_value(f, b))
  BY <1>3, <1>4, <1>5
<1>. HIDE DEF s, t
<1>8. /\ ParentInv(parent', child) /\ SameStore(f, parent')
      /\ remembered(parent', op, a, b) = {r}
  <2>1. CASE op = "set_union"
    <3>1. parent' = union_recorded(f, a, b, r) /\ a < b
      BY <1>1, <1>3, <2>1
    <3>. QED
      BY <1>4, <1>5, <1>6, <1>7, <2>1, <3>1, UnionRecorded
  <2>2. CASE op = "set_intersection"
    <3>1. parent' = intersection_recorded(f, a, b, r) /\ a < b
      BY <1>1, <1>3, <2>2
    <3>. QED
      BY <1>4, <1>5, <1>6, <1>7, <2>2, <3>1, IntersectionRecorded
  <2>3. CASE op = "set_difference"
    <3>1. parent' = difference_recorded(f, a, b, r)
      BY <1>1, <2>3
    <3>. QED
      BY <1>4, <1>5, <1>6, <1>7, <2>3, <3>1, DifferenceRecorded
  <2>. QED
    BY <1>3, <2>1, <2>2, <2>3 DEF BinaryOps
<1>9. ChildInv' /\ ParentInv(parent', child')
  BY <1>1, <1>2, <1>8 DEF ChildInv, children
<1>10. reply'.op = op /\ reply'.a = a /\ reply'.b = b /\ reply'.ret = r
  BY <1>1 DEF Return
<1>11. r \in Indices(parent')
  BY <1>4, <1>8 DEF SameStore, Indices
<1>12. Replied' /\ AnswerRemembered'
  BY <1>8, <1>10, <1>11 DEF Replied, AnswerRemembered
<1>13. Idle'
  BY <1>1 DEF Idle, NoMerge
<1>. QED
  BY <1>9, <1>12, <1>13 DEF IInv

LEMMA UseChildStep ==
  ASSUME IInv, use_child
  PROVE  IInv'
<1>1. Idle /\ Child!Next /\ UNCHANGED <<parent, merge, reply>>
  BY DEF use_child
<1>2. ChildGoes
  BY <1>1, ChildStep DEF IInv
<1>3. ParentInv(parent, child')
  BY <1>2, ParentLater DEF IInv, ChildGoes
<1>4. Replied' /\ AnswerRemembered'
  BY <1>1, AnswerStays DEF IInv, Replied
<1>5. Idle'
  BY <1>1 DEF Idle, NoMerge
<1>. QED
  BY <1>1, <1>2, <1>3, <1>4, <1>5 DEF IInv, ChildGoes

LEMMA StepLemma ==
  ASSUME IInv, [Next]_vars
  PROVE  IInv'
<1>1. ParentInv(parent, child) /\ ForestInv(child) /\ Later(parent, parent)
  BY DEF IInv, ChildInv, Later
<1>2. ASSUME NEW s \in ElementSets(child), register_set(s)
      PROVE  IInv'
  <2>1. IsElementSet(s, child) /\ "register_set" \notin BinaryOps
    BY ElementSetsLemma DEF BinaryOps
  <2>. QED
    BY <1>2, <2>1, RegisterStep DEF register_set
<1>3. ASSUME NEW op \in BinaryOps, NEW a \in Indices(parent),
             NEW b \in Indices(parent), operation(op, a, b)
      PROVE  IInv'
  BY <1>1, <1>3, StartStep DEF operation
<1>4. ASSUME NEW a \in Indices(parent), NEW e \in Element(child),
             set_insert_single(a, e) \/ set_remove_single(a, e)
      PROVE  IInv'
  BY <1>4, SingleStep
<1>5. ASSUME NEW a \in Indices(parent), NEW k \in Key,
             set_remove_single_key(a, k)
      PROVE  IInv'
  <2> DEFINE s == {e \in get_value(parent, a) : e[1] # k}
  <2>1. IsElementSet(s, child)
    BY <1>1 DEF ParentInv, Stores, IsElementSet
  <2>2. "set_remove_single_key" \notin BinaryOps
    BY DEF BinaryOps
  <2>3. /\ Idle /\ parent' = registered(parent, s)
        /\ Return("set_remove_single_key", a, 0, index_of(parent', s))
        /\ UNCHANGED <<children, merge>>
    BY <1>5 DEF set_remove_single_key
  <2>. HIDE DEF s
  <2>. QED
    BY <2>1, <2>2, <2>3, RegisterStep
<1>6. ASSUME UNCHANGED vars
      PROVE  IInv'
  BY <1>6 DEF IInv, vars, children, ChildInv, Replied, AnswerRemembered, Idle,
              NoMerge
<1>. QED
  BY <1>2, <1>3, <1>4, <1>5, <1>6, DescendStep, FinishStep, UseChildStep
     DEF Next

LEMMA InitLemma ==
  ASSUME Init
  PROVE  IInv
<1>1. Child!FreshForest = FreshForest /\ Child!NoEntries = NoEntries
  BY DEF Child!FreshForest, FreshForest, Child!NoEntries, NoEntries,
         Child!EMPTY_SET_VALUE, EMPTY_SET_VALUE
<1>2. /\ child = FreshForest
      /\ child_caches = [keep \in Filter |-> NoEntries]
  BY <1>1 DEF Init, Child!Init
<1>3. ChildInv
  <2>1. ForestInv(child)
    BY <1>2, FreshLemma
  <2>2. CachesHeld(Filter, child, child_caches)
    BY <1>2 DEF CachesHeld, IsMap, NoEntries
  <2>. QED
    BY <2>1, <2>2 DEF ChildInv
<1>4. /\ parent = Members(parent)
      /\ parent.property_sets = <<{}>>
      /\ parent.property_set_map = [s \in {{}} |-> 0]
      /\ parent.unions = NoEntries /\ parent.intersections = NoEntries
      /\ parent.differences = NoEntries /\ parent.subsets = NoEntries
  BY DEF Init, FreshForest, Members, EMPTY_SET_VALUE
<1>5. /\ Len(parent.property_sets) = 1
      /\ parent.property_sets \in Seq(SUBSET (Key \X Nat))
      /\ Indices(parent) = {0} /\ get_value(parent, 0) = {}
  <2>1. Len(parent.property_sets) = 1 /\ parent.property_sets[1] = {}
    BY <1>4
  <2>2. parent.property_sets \in Seq(SUBSET (Key \X Nat))
    BY <1>4
  <2>. QED
    BY <2>1, <2>2 DEF Indices, get_value
<1>6. IsElementSet({}, child)
  BY DEF IsElementSet
<1>7. Stores(parent, child)
  <2>1. IsMap(parent.property_set_map, SUBSET (Key \X Nat), Indices(parent))
    BY <1>4, <1>5 DEF IsMap
  <2>2. Canonical(parent)
    BY <1>4, <1>5 DEF Canonical, index_of, EMPTY_SET_VALUE
  <2>3. Len(parent.property_sets) > 0
    BY <1>5
  <2>4. \A i \in Indices(parent) : IsElementSet(get_value(parent, i), child)
    BY <1>5, <1>6
  <2>. QED
    BY <1>4, <1>5, <2>1, <2>2, <2>3, <2>4 DEF Stores
<1>8. Recorded(parent, child)
  BY <1>4 DEF Recorded, IsMap, MapCombines, MapContains, NoEntries
<1>9. Replied /\ AnswerRemembered /\ Idle
  BY <1>5 DEF Init, Replied, AnswerRemembered, BinaryOps, Idle
<1>. QED
  BY <1>3, <1>7, <1>8, <1>9 DEF IInv, ParentInv

-----------------------------------------------------------------------------
(* The theorems *)

(* Whatever the caller does with the two forests, the invariant holds.      *)
THEOREM Invariance == Spec => []IInv
<1>1. Init => IInv
  BY InitLemma
<1>2. IInv /\ [Next]_vars => IInv'
  BY StepLemma
<1>. QED
  BY <1>1, <1>2, PTL DEF Spec

(* Type correctness: every nested index exists in the child, a parent set   *)
(* has a key once, storage and lookup of the parent are inverse, and an     *)
(* operation in progress has every key either still to do or done.          *)
THEOREM TypeCorrect == Spec => []TypeOK
<1>1. IInv => TypeOK
  <2>. SUFFICES ASSUME IInv PROVE TypeOK
    OBVIOUS
  <2>1. /\ Stores(parent, child) /\ Recorded(parent, child) /\ Replied
        /\ ForestInv(child)
    BY DEF IInv, ParentInv, ChildInv
  <2>2. CASE Idle
    <3>1. merge.todo = {} /\ merge.new_set = {}
      BY <2>2 DEF Idle, NoMerge
    <3>2. /\ IsElementSet(merge.new_set, child)
          /\ merge.todo \subseteq Key \ Keys(merge.new_set)
      BY <3>1 DEF IsElementSet
    <3>. QED
      BY <2>1, <3>2 DEF TypeOK, Stores, Recorded, Replied
  <2>3. CASE MergeInv(merge, parent, child)
    <3> DEFINE s == get_value(parent, merge.a)
    <3>1. /\ IsElementSet(merge.new_set, child)
          /\ merge.todo \subseteq Keys(s)
          /\ merge.todo \cap Keys(merge.new_set) = {}
          /\ merge.a \in Indices(parent)
      BY <2>3 DEF MergeInv
    <3>2. IsElementSet(s, child)
      BY <2>1, <3>1 DEF Stores
    <3>. HIDE DEF s
    <3>3. Keys(s) \subseteq Key
      BY <2>1, <3>2, ElementLemma
    <3>4. merge.todo \subseteq Key \ Keys(merge.new_set)
      BY <3>1, <3>3
    <3>. QED
      BY <2>1, <3>1, <3>4 DEF TypeOK, Stores, Recorded, Replied
  <2>. QED
    BY <2>2, <2>3 DEF IInv
<1>. QED
  BY <1>1, Invariance, PTL

(* A set without its nesting.                                               *)
Flat(c, s) == UNION {{<<e[1], p>> : p \in get_value(c, e[2])} : e \in s}

LEMMA FlatLemma ==
  ASSUME NEW c, ForestInv(c), NEW s, IsElementSet(s, c)
  PROVE  Flat(c, s) = {x \in Key \X Property : x[2] \in V(c, s, x[1])}
<1>1. /\ \A e \in s : e[1] \in Key /\ e[2] \in Indices(c)
      /\ \A i \in Indices(c) : get_value(c, i) \subseteq Property
  BY StoredValueLemma DEF IsElementSet, Element
<1>2. ASSUME NEW x \in Flat(c, s)
      PROVE  x \in Key \X Property /\ x[2] \in V(c, s, x[1])
  <2>1. PICK e \in s : \E p \in get_value(c, e[2]) : x = <<e[1], p>>
    BY DEF Flat
  <2>2. PICK p \in get_value(c, e[2]) : x = <<e[1], p>>
    BY <2>1
  <2>3. p \in Property /\ e[1] \in Key
    BY <1>1
  <2>. QED
    BY <2>2, <2>3 DEF V
<1>3. ASSUME NEW x \in Key \X Property, x[2] \in V(c, s, x[1])
      PROVE  x \in Flat(c, s)
  <2>1. PICK e \in s : e[1] = x[1] /\ x[2] \in get_value(c, e[2])
    BY <1>3 DEF V
  <2>2. x = <<e[1], x[2]>>
    BY <2>1
  <2>3. x \in {<<e[1], p>> : p \in get_value(c, e[2])}
    BY <2>1, <2>2
  <2>. QED
    BY <2>3 DEF Flat
<1>. QED
  BY <1>2, <1>3

(* The flat image of sets that are combined key by key.                     *)
LEMMA FlatCombined ==
  ASSUME NEW c, ForestInv(c), NEW op \in BinaryOps,
         NEW s, IsElementSet(s, c), NEW t, IsElementSet(t, c),
         NEW u, IsElementSet(u, c), Combines(op, c, u, s, t)
  PROVE  Flat(c, u) = flat_result(op, Flat(c, s), Flat(c, t))
<1> DEFINE P == Key \X Property
           lies_in(w, x) == x[2] \in V(c, w, x[1])
<1>1. /\ Flat(c, s) = {x \in P : lies_in(s, x)}
      /\ Flat(c, t) = {x \in P : lies_in(t, x)}
      /\ Flat(c, u) = {x \in P : lies_in(u, x)}
  BY FlatLemma
<1>2. \A x \in P : V(c, u, x[1]) = flat_result(op, V(c, s, x[1]), V(c, t, x[1]))
  BY DEF Combines
<1>. HIDE DEF P
<1>3. CASE op = "set_union"
  <2>1. \A x \in P : lies_in(u, x) <=> lies_in(s, x) \/ lies_in(t, x)
    BY <1>2, <1>3 DEF flat_result
  <2>. HIDE DEF lies_in
  <2>. QED
    BY <1>1, <1>3, <2>1 DEF flat_result
<1>4. CASE op = "set_intersection"
  <2>1. \A x \in P : lies_in(u, x) <=> lies_in(s, x) /\ lies_in(t, x)
    BY <1>2, <1>4 DEF flat_result
  <2>. HIDE DEF lies_in
  <2>. QED
    BY <1>1, <1>4, <2>1 DEF flat_result
<1>5. CASE op = "set_difference"
  <2>1. \A x \in P : lies_in(u, x) <=> lies_in(s, x) /\ ~lies_in(t, x)
    BY <1>2, <1>5 DEF flat_result
  <2>. HIDE DEF lies_in
  <2>. QED
    BY <1>1, <1>5, <2>1 DEF flat_result
<1>. QED
  BY <1>3, <1>4, <1>5 DEF BinaryOps

(* The guide's promise for nesting: whatever the parent answers from memory *)
(* has the pairs of the flat operation, even though the child made new sets *)
(* in between and other operations recorded the answer (lhf.hpp 848-1014).  *)
THEOREM FlatteningRight == Spec => []AnswersFlattened
<1>1. IInv => AnswersFlattened
  <2>. SUFFICES ASSUME IInv, NEW op \in BinaryOps, NEW a \in Indices(parent),
                       NEW b \in Indices(parent),
                       NEW r \in remembered(parent, op, a, b)
                PROVE  flattened[r] = flat_result(op, flattened[a], flattened[b])
    BY DEF AnswersFlattened
  <2>1. /\ ParentInv(parent, child) /\ ForestInv(child)
        /\ \A i \in Indices(parent) : IsElementSet(get_value(parent, i), child)
    BY DEF IInv, ChildInv, ParentInv, Stores
  <2>2. /\ r \in Indices(parent)
        /\ Combines(op, child, get_value(parent, r), get_value(parent, a),
                    get_value(parent, b))
    BY <2>1, ParentRemembers
  <2>3. \A i \in Indices(parent) : flattened[i] = Flat(child, get_value(parent, i))
    BY DEF flattened, Flat
  <2>4. Flat(child, get_value(parent, r))
          = flat_result(op, Flat(child, get_value(parent, a)),
                        Flat(child, get_value(parent, b)))
    BY <2>1, <2>2, FlatCombined
  <2>. QED
    BY <2>2, <2>3, <2>4
<1>. QED
  BY <1>1, Invariance, PTL

(* Recorded containments are containments key by key, so a union that one   *)
(* answers keeps every key, also those whose nested sets are empty.         *)
THEOREM ContainmentsTrue == Spec => []ContainmentsKeyed
<1>1. IInv => ContainmentsKeyed
  <2>. SUFFICES ASSUME IInv PROVE ContainmentsKeyed
    OBVIOUS
  <2>1. /\ ForestInv(child)
        /\ \A i \in Indices(parent) : IsElementSet(get_value(parent, i), child)
        /\ MapContains(child, parent, parent.subsets)
        /\ IsMap(parent.subsets, Pairs(parent), {"SUBSET", "SUPERSET"})
    BY DEF IInv, ChildInv, ParentInv, Stores, Recorded
  <2>2. ASSUME NEW i \in Indices(parent), NEW j \in Indices(parent),
               Within(child, get_value(parent, i), get_value(parent, j))
        PROVE  Below(i, j)
    <3> DEFINE s == get_value(parent, i)
               t == get_value(parent, j)
    <3>1. /\ Keys(s) \subseteq Key
          /\ \A e \in s : /\ e[1] \in Keys(s)
                          /\ V(child, s, e[1]) = get_value(child, e[2])
          /\ \A g \in t : V(child, t, g[1]) = get_value(child, g[2])
      BY <2>1, ElementLemma
    <3>. SUFFICES ASSUME NEW e \in s
                  PROVE  \E g \in t :
                           /\ e[1] = g[1]
                           /\ get_value(child, e[2]) \subseteq get_value(child, g[2])
      BY DEF Below
    <3>2. e[1] \in Keys(t) /\ V(child, s, e[1]) \subseteq V(child, t, e[1])
      BY <2>2, <3>1 DEF Within
    <3>3. PICK g \in t : g[1] = e[1]
      BY <3>2 DEF Keys
    <3>. QED
      BY <3>1, <3>2, <3>3
  <2>3. ASSUME NEW k \in DOMAIN parent.subsets
        PROVE  IF parent.subsets[k] = "SUBSET" THEN Below(k[1], k[2])
               ELSE Below(k[2], k[1])
    <3>1. /\ k[1] \in Indices(parent) /\ k[2] \in Indices(parent)
          /\ parent.subsets[k] \in {"SUBSET", "SUPERSET"}
      BY <2>1 DEF IsMap, Pairs
    <3>2. /\ parent.subsets[k] = "SUBSET" =>
               Within(child, get_value(parent, k[1]), get_value(parent, k[2]))
          /\ parent.subsets[k] = "SUPERSET" =>
               Within(child, get_value(parent, k[2]), get_value(parent, k[1]))
      BY <2>1 DEF MapContains
    <3>. QED
      BY <2>2, <3>1, <3>2
  <2>. QED
    BY <2>3 DEF ContainmentsKeyed
<1>. QED
  BY <1>1, Invariance, PTL

(* An operation of the parent that came to its end is answered from memory, *)
(* with the same index, until the parent computes again.                    *)
THEOREM Remembering == Spec => []AnswerRemembered
<1>1. IInv => AnswerRemembered
  BY DEF IInv
<1>. QED
  BY <1>1, Invariance, PTL
=============================================================================
