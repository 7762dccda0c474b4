------------------------ MODULE EvictingForestProofs ------------------------
(***************************************************************************)
(* Theorems about EvictingForest, for every set of properties and filters.  *)
(* The argument goes through Restored(f), the members had nothing been      *)
(* evicted: a holder is empty or has the set that its index stands for      *)
(* there (Held), so that every operation does to Restored(f) what it does   *)
(* in the forest that never evicts.                                         *)
(***************************************************************************)
EXTENDS EvictingForest, ForestDataProofs, TLAPS

-----------------------------------------------------------------------------
(* The holders, and the forest had nothing been evicted *)

(* The members of f, with holders of at most one set for sets.              *)
Shaped(f) ==
  /\ f = Members(f)
  /\ f.property_sets \in Seq(SUBSET SUBSET Property)

(* f and g differ in their sets only, and have as many.                     *)
SameMaps(f, g) ==
  /\ g.property_set_map = f.property_set_map
  /\ g.unions = f.unions
  /\ g.intersections = f.intersections
  /\ g.differences = f.differences
  /\ g.subsets = f.subsets
  /\ Len(g.property_sets) = Len(f.property_sets)

(* A set that is there is the one its index stands for.                     *)
Held(f) ==
  /\ Shaped(f)
  /\ ForestInv(Restored(f))
  /\ \A i \in Indices(f) :
       is_evicted(f, i) \/ f.property_sets[i + 1] = {get_value(Restored(f), i)}
  /\ ~is_evicted(f, EMPTY_SET_VALUE)

(* Restoring the elements touches no map and no index.                      *)
LEMMA RestoredMembers ==
  ASSUME NEW f, Shaped(f)
  PROVE  SameMaps(f, Restored(f)) /\ Indices(Restored(f)) = Indices(f)
<1> DEFINE sets == [i \in 1 .. Len(f.property_sets) |->
                      UNION {s \in DOMAIN f.property_set_map :
                               index_of(f, s) = i - 1}]
           g == Restored(f)
<1>1. g = [f EXCEPT !.property_sets = sets]
  BY DEF Restored
<1>. HIDE DEF sets
<1>2. /\ g.property_sets = sets
      /\ g.property_set_map = f.property_set_map
      /\ g.unions = f.unions
      /\ g.intersections = f.intersections
      /\ g.differences = f.differences
      /\ g.subsets = f.subsets
  BY <1>1 DEF Shaped, Members
<1>3. Len(sets) = Len(f.property_sets)
  BY DEF sets, Shaped
<1>. HIDE DEF g
<1>. QED
  BY <1>2, <1>3 DEF SameMaps, Indices, g

(* A forest that gives every set one index is determined by its maps.       *)
LEMMA RestoredIs ==
  ASSUME NEW f, Shaped(f), NEW g, ForestInv(g), SameMaps(f, g)
  PROVE  Restored(f) = g
<1> DEFINE n == Len(f.property_sets)
           sets == [i \in 1 .. n |->
                      UNION {s \in DOMAIN f.property_set_map :
                               index_of(f, s) = i - 1}]
<1>1. /\ g.property_sets \in Seq(SUBSET Property)
      /\ Len(g.property_sets) = n /\ n \in Nat
  BY DEF ForestInv, ForestType, SameMaps
<1>2. ASSUME NEW i \in 1 .. n
      PROVE  sets[i] = g.property_sets[i]
  <2> DEFINE v == g.property_sets[i]
  <2>1. i - 1 \in Indices(g) /\ get_value(g, i - 1) = v
    BY <1>1 DEF Indices, get_value
  <2>2. {s \in DOMAIN f.property_set_map : index_of(f, s) = i - 1} = {v}
    <3>1. v \in DOMAIN f.property_set_map /\ index_of(f, v) = i - 1
      BY <2>1 DEF ForestInv, Canonical, SameMaps, index_of
    <3>2. ASSUME NEW s \in DOMAIN f.property_set_map, index_of(f, s) = i - 1
          PROVE  s = v
      BY <2>1, <3>2 DEF ForestInv, Canonical, SameMaps, index_of
    <3>. QED
      BY <3>1, <3>2
  <2>3. UNION {v} = v
    OBVIOUS
  <2>. QED
    BY <2>2, <2>3
<1>3. sets = g.property_sets
  <2>1. g.property_sets = [i \in 1 .. n |-> g.property_sets[i]]
    BY <1>1
  <2>. HIDE DEF n
  <2>. QED
    BY <1>2, <2>1
<1>4. Restored(f) = [f EXCEPT !.property_sets = sets]
  BY DEF Restored
<1>. HIDE DEF sets
<1>5. Restored(f) = [property_sets    |-> sets,
                     property_set_map |-> f.property_set_map,
                     unions           |-> f.unions,
                     intersections    |-> f.intersections,
                     differences      |-> f.differences,
                     subsets          |-> f.subsets]
  BY <1>4 DEF Shaped, Members
<1>6. g = Members(g)
  BY DEF ForestInv, ForestType, Members
<1>. QED
  BY <1>3, <1>5, <1>6 DEF SameMaps, Members

(* What holds of a set that is there.                                       *)
LEMMA PresentLemma ==
  ASSUME NEW f, Held(f)
  PROVE  /\ Indices(Restored(f)) = Indices(f)
         /\ Indices(f) \subseteq Nat /\ EMPTY_SET_VALUE \in Indices(f)
         /\ \A i \in Indices(f) :
              ~is_evicted(f, i) => value(f, i) = get_value(Restored(f), i)
         /\ \A i \in Indices(f) : get_value(Restored(f), i) \in SUBSET Property
<1>1. Indices(Restored(f)) = Indices(f)
  BY RestoredMembers DEF Held
<1>2. ASSUME NEW i \in Indices(f), ~is_evicted(f, i)
      PROVE  value(f, i) = get_value(Restored(f), i)
  <2>1. f.property_sets[i + 1] = {get_value(Restored(f), i)}
    BY <1>2 DEF Held
  <2>2. \A x : UNION {x} = x
    OBVIOUS
  <2>. QED
    BY <2>1, <2>2 DEF value
<1>3. ForestInv(Restored(f))
  BY DEF Held
<1>. HIDE DEF Restored
<1>. QED
  BY <1>1, <1>2, <1>3, StoredValueLemma DEF Indices

put(f, i, h) == [f EXCEPT !.property_sets[i + 1] = h]

(* Writing the holder of an index that exists: the set is dropped, or comes *)
(* back as it was.                                                          *)
LEMMA HolderLemma ==
  ASSUME NEW f, Held(f), NEW i \in Indices(f), NEW h,
         \/ h = {} /\ ~is_empty(i)
         \/ h = {get_value(Restored(f), i)}
  PROVE  LET g == put(f, i, h)
         IN  /\ Held(g) /\ Restored(g) = Restored(f) /\ Indices(g) = Indices(f)
             /\ is_evicted(g, i) <=> h = {}
             /\ \A j \in Indices(f) :
                  j # i => (is_evicted(g, j) <=> is_evicted(f, j))
<1> DEFINE R == Restored(f)
           g == put(f, i, h)
           n == Len(f.property_sets)
<1>1. /\ f.property_sets \in Seq(SUBSET SUBSET Property)
      /\ n \in Nat /\ i \in Nat /\ i + 1 \in 1 .. n
  BY DEF Held, Shaped, Indices
<1>2. get_value(R, i) \in SUBSET Property
  BY PresentLemma
<1>. HIDE DEF R
<1>3. h \in SUBSET SUBSET Property
  BY <1>2 DEF R
<1>4. /\ g.property_sets = [f.property_sets EXCEPT ![i + 1] = h]
      /\ g.property_set_map = f.property_set_map
      /\ g.unions = f.unions
      /\ g.intersections = f.intersections
      /\ g.differences = f.differences
      /\ g.subsets = f.subsets
      /\ g = Members(g)
  <2>1. f = Members(f)
    BY DEF Held, Shaped
  <2>2. Members(f) = [property_sets    |-> f.property_sets,
                      property_set_map |-> f.property_set_map,
                      unions           |-> f.unions,
                      intersections    |-> f.intersections,
                      differences      |-> f.differences,
                      subsets          |-> f.subsets]
    BY DEF Members
  <2>. QED
    BY <2>1, <2>2 DEF put, Members
<1>. HIDE DEF g
<1>5. /\ g.property_sets \in Seq(SUBSET SUBSET Property)
      /\ Len(g.property_sets) = n
      /\ g.property_sets[i + 1] = h
      /\ \A j \in 1 .. n : j # i + 1 =>
           g.property_sets[j] = f.property_sets[j]
  BY <1>1, <1>3, <1>4
<1>6. Shaped(g) /\ Indices(g) = Indices(f)
  BY <1>4, <1>5 DEF Shaped, Indices
<1>7. SameMaps(g, R)
  BY <1>4, <1>5, RestoredMembers DEF SameMaps, Held, R
<1>8. Restored(g) = R
  BY <1>6, <1>7, RestoredIs DEF Held, R
<1>9. \A j \in Indices(f) : j # i =>
        g.property_sets[j + 1] = f.property_sets[j + 1]
  BY <1>1, <1>5 DEF Indices
<1>10. /\ is_evicted(g, i) <=> h = {}
       /\ \A j \in Indices(f) :
            j # i => (is_evicted(g, j) <=> is_evicted(f, j))
  BY <1>5, <1>9 DEF is_evicted
<1>11. ASSUME NEW j \in Indices(g)
       PROVE  is_evicted(g, j) \/ g.property_sets[j + 1] = {get_value(R, j)}
  <2>1. CASE j = i
    BY <1>5, <1>10, <2>1 DEF R
  <2>2. CASE j # i
    BY <1>6, <1>9, <1>10, <2>2 DEF Held, R
  <2>. QED
    BY <2>1, <2>2
<1>12. ~is_evicted(g, EMPTY_SET_VALUE)
  <2>1. EMPTY_SET_VALUE \in Indices(f)
    BY PresentLemma
  <2>2. ~is_evicted(f, EMPTY_SET_VALUE)
    BY DEF Held
  <2>3. CASE i = EMPTY_SET_VALUE
    <3>1. h # {}
      BY <2>3 DEF is_empty
    <3>. QED
      BY <1>10, <2>3, <3>1
  <2>4. CASE i # EMPTY_SET_VALUE
    BY <1>10, <2>1, <2>2, <2>4
  <2>. QED
    BY <2>3, <2>4
<1>13. Held(g)
  BY <1>6, <1>8, <1>11, <1>12 DEF Held, R
<1>. QED
  BY <1>6, <1>8, <1>10, <1>13 DEF R, g

(* Eviction loses nothing but elements.                                     *)
LEMMA EvictLemma ==
  ASSUME NEW f, Held(f), NEW i \in Indices(f), ~is_empty(i)
  PROVE  /\ Held(evict(f, i)) /\ Restored(evict(f, i)) = Restored(f)
         /\ Indices(evict(f, i)) = Indices(f)
<1>1. evict(f, i) = put(f, i, {})
  BY DEF evict, put
<1>. QED
  BY <1>1, HolderLemma

(* A recomputed set comes back under its index.                             *)
LEMMA ReassignLemma ==
  ASSUME NEW f, Held(f), NEW i \in Indices(f), NEW s,
         s = get_value(Restored(f), i)
  PROVE  LET g == reassign(f, i, s)
         IN  /\ Held(g) /\ Restored(g) = Restored(f)
             /\ Indices(g) = Indices(f)
             /\ ~is_evicted(g, i)
             /\ \A j \in Indices(f) : ~is_evicted(f, j) => ~is_evicted(g, j)
<1>1. reassign(f, i, s) = put(f, i, {s}) /\ {s} # {}
  BY DEF reassign, put
<1>. HIDE DEF Restored
<1>. QED
  BY <1>1, HolderLemma

(* Registering a set, whether it is new, was evicted or is there, does to   *)
(* the forest had nothing been evicted what registering does.               *)
LEMMA StoredLemma ==
  ASSUME NEW f, Held(f), NEW s \in SUBSET Property
  PROVE  LET g == stored(f, s)
         IN  /\ Held(g) /\ Restored(g) = registered(Restored(f), s)
             /\ g.property_set_map = Restored(g).property_set_map
             /\ Indices(f) \subseteq Indices(g)
             /\ index_of(g, s) \in Indices(g)
             /\ ~is_evicted(g, index_of(g, s))
             /\ \A i \in Indices(f) : is_evicted(g, i) => is_evicted(f, i)
             /\ s \in DOMAIN f.property_set_map
                  => index_of(g, s) = index_of(f, s)
<1> DEFINE g == stored(f, s)
           R == Restored(f)
           n == Len(f.property_sets)
<1>1. /\ ForestInv(R) /\ SameMaps(f, R) /\ Indices(R) = Indices(f)
      /\ Shaped(f)
  BY RestoredMembers DEF Held
<1>. HIDE DEF R
<1>2. CASE s \in DOMAIN f.property_set_map
  <2>1. /\ index_of(R, s) \in Indices(R) /\ get_value(R, index_of(R, s)) = s
        /\ index_of(R, s) = index_of(f, s)
    BY <1>1, <1>2
       DEF SameMaps, ForestInv, ForestType, IsMap, Canonical, index_of
  <2>2. registered(R, s) = R
    BY <1>1, <1>2 DEF registered, SameMaps
  <2>3. CASE is_evicted(f, index_of(f, s))
    <3>1. g = reassign(f, index_of(f, s), s)
      BY <1>2, <2>3 DEF stored
    <3>. HIDE DEF g
    <3>2. /\ Held(g) /\ Restored(g) = R /\ Indices(g) = Indices(f)
          /\ ~is_evicted(g, index_of(f, s))
          /\ \A j \in Indices(f) : ~is_evicted(f, j) => ~is_evicted(g, j)
      BY <1>1, <2>1, <3>1, ReassignLemma DEF R
    <3>3. g.property_set_map = f.property_set_map
      BY <1>1, <3>2, RestoredMembers DEF SameMaps, Held, R
    <3>. QED
      BY <1>1, <2>1, <2>2, <3>2, <3>3 DEF index_of, g, R, SameMaps
  <2>4. CASE ~is_evicted(f, index_of(f, s))
    <3>1. g = f
      BY <1>2, <2>4 DEF stored
    <3>. HIDE DEF g
    <3>. QED
      BY <1>1, <2>1, <2>2, <2>4, <3>1 DEF g, R, SameMaps
  <2>. QED
    BY <2>3, <2>4
<1>3. CASE s \notin DOMAIN f.property_set_map
  <2> DEFINE G == registered(R, s)
  <2>1. s \notin DOMAIN R.property_set_map /\ R = Members(R)
    BY <1>1, <1>3 DEF SameMaps, ForestInv, ForestType, Members
  <2>2. /\ ForestInv(G) /\ Grows(R, G, {s})
        /\ Indices(R) \subseteq Indices(G)
        /\ \A i \in Indices(R) : get_value(G, i) = get_value(R, i)
        /\ index_of(G, s) \in Indices(G)
        /\ get_value(G, index_of(G, s)) = s
    BY <1>1, RegistrationLemma
  <2>3. /\ G.property_sets = Append(R.property_sets, s)
        /\ G.property_set_map = Insert(R.property_set_map, s, Len(R.property_sets))
        /\ G.unions = R.unions
        /\ G.intersections = R.intersections
        /\ G.differences = R.differences
        /\ G.subsets = R.subsets
    BY <2>1 DEF registered, Members
  <2>. HIDE DEF G
  <2>4. /\ g.property_sets = Append(f.property_sets, {s})
        /\ g.property_set_map = Insert(f.property_set_map, s, n)
        /\ g.unions = f.unions
        /\ g.intersections = f.intersections
        /\ g.differences = f.differences
        /\ g.subsets = f.subsets
        /\ g = Members(g)
    BY <1>1, <1>3 DEF stored, Shaped, Members
  <2>. HIDE DEF g
  <2>5. f.property_sets \in Seq(SUBSET SUBSET Property) /\ n \in Nat
    BY <1>1 DEF Shaped
  <2>6. R.property_sets \in Seq(SUBSET Property) /\ Len(R.property_sets) = n
    BY <1>1 DEF SameMaps, ForestInv, ForestType
  <2>7. /\ g.property_sets \in Seq(SUBSET SUBSET Property)
        /\ Len(g.property_sets) = n + 1
        /\ \A i \in 1 .. n : g.property_sets[i] = f.property_sets[i]
        /\ g.property_sets[n + 1] = {s}
        /\ Len(G.property_sets) = n + 1
    BY <2>3, <2>4, <2>5, <2>6
  <2>8. Shaped(g) /\ SameMaps(g, G)
    BY <1>1, <2>3, <2>4, <2>6, <2>7 DEF Shaped, SameMaps
  <2>9. Restored(g) = G
    BY <2>2, <2>8, RestoredIs
  <2>10. index_of(G, s) = n /\ index_of(g, s) = n
    BY <2>1, <2>3, <2>6, <2>8 DEF index_of, Insert, SameMaps
  <2>11. /\ Indices(f) = 0 .. n - 1 /\ Indices(g) = 0 .. n
         /\ Indices(G) = 0 .. n
    BY <2>5, <2>7 DEF Indices
  <2>12. /\ \A i \in Indices(f) : g.property_sets[i + 1] = f.property_sets[i + 1]
         /\ \A i \in Indices(f) : is_evicted(g, i) <=> is_evicted(f, i)
         /\ ~is_evicted(g, n)
    <3>1. \A i \in Indices(f) : g.property_sets[i + 1] = f.property_sets[i + 1]
      BY <2>5, <2>7, <2>11
    <3>. QED
      BY <2>7, <3>1 DEF is_evicted
  <2>13. ASSUME NEW i \in Indices(g)
         PROVE  is_evicted(g, i) \/ g.property_sets[i + 1] = {get_value(G, i)}
    <3>1. CASE i = n
      BY <2>2, <2>7, <2>10, <3>1
    <3>2. CASE i # n
      <4>1. i \in Indices(f)
        BY <2>5, <2>11, <3>2
      <4>2. get_value(G, i) = get_value(R, i)
        BY <1>1, <2>2, <4>1
      <4>3. is_evicted(f, i) \/ f.property_sets[i + 1] = {get_value(R, i)}
        BY <4>1 DEF Held, R
      <4>. QED
        BY <2>12, <4>1, <4>2, <4>3
    <3>. QED
      BY <3>1, <3>2
  <2>14. ~is_evicted(g, EMPTY_SET_VALUE)
    <3>1. EMPTY_SET_VALUE \in Indices(f) /\ ~is_evicted(f, EMPTY_SET_VALUE)
      BY PresentLemma DEF Held
    <3>. QED
      BY <2>12, <3>1
  <2>15. Held(g)
    BY <2>2, <2>8, <2>9, <2>13, <2>14 DEF Held
  <2>16. Indices(f) \subseteq Indices(g)
    BY <2>5, <2>11
  <2>17. g.property_set_map = Restored(g).property_set_map
    BY <2>8, <2>9 DEF SameMaps
  <2>. QED
    BY <1>3, <2>9, <2>10, <2>11, <2>12, <2>15, <2>16, <2>17 DEF g, G, R
<1>. QED
  BY <1>2, <1>3

-----------------------------------------------------------------------------
(* Recording, with and without the elements *)

Alike(f, g) == f = Members(f) /\ g = Members(g) /\ SameMaps(f, g)

(* Recording reads and writes the maps only.                                *)
LEMMA StoreSubsetAlike ==
  ASSUME NEW f, NEW g, Alike(f, g), NEW a, NEW b
  PROVE  /\ Alike(store_subset(f, a, b), store_subset(g, a, b))
         /\ store_subset(f, a, b).property_sets = f.property_sets
<1>1. ASSUME NEW h, h = Members(h)
      PROVE  LET m == store_subset(h, a, b)
             IN  /\ m = Members(m)
                 /\ m.property_sets = h.property_sets
                 /\ m.property_set_map = h.property_set_map
                 /\ m.unions = h.unions
                 /\ m.intersections = h.intersections
                 /\ m.differences = h.differences
                 /\ m.subsets = IF a > b
                                  THEN Insert(h.subsets, <<b, a>>, "SUPERSET")
                                  ELSE Insert(h.subsets, <<a, b>>, "SUBSET")
  BY <1>1 DEF store_subset, Members
<1>. QED
  BY <1>1 DEF Alike, SameMaps

LEMMA UnionAlike ==
  ASSUME NEW f, NEW g, Alike(f, g), NEW a, NEW b, NEW r
  PROVE  /\ Alike(union_recorded(f, a, b, r), union_recorded(g, a, b, r))
         /\ union_recorded(f, a, b, r).property_sets = f.property_sets
<1> DEFINE k == <<a, b>>
           first(h) == [h EXCEPT !.unions = Insert(@, k, r)]
<1>1. Alike(first(f), first(g)) /\ first(f).property_sets = f.property_sets
  BY DEF Alike, SameMaps, Members
<1>2. \A h : union_recorded(h, a, b, r)
        = IF r = a THEN store_subset(first(h), b, r)
          ELSE IF r = b THEN store_subset(first(h), a, r)
          ELSE store_subset(store_subset(first(h), a, r), b, r)
  BY DEF union_recorded
<1>. HIDE DEF first
<1>3. /\ Alike(store_subset(first(f), a, r), store_subset(first(g), a, r))
      /\ store_subset(first(f), a, r).property_sets = f.property_sets
      /\ Alike(store_subset(first(f), b, r), store_subset(first(g), b, r))
      /\ store_subset(first(f), b, r).property_sets = f.property_sets
  BY <1>1, StoreSubsetAlike
<1>4. /\ Alike(store_subset(store_subset(first(f), a, r), b, r),
               store_subset(store_subset(first(g), a, r), b, r))
      /\ store_subset(store_subset(first(f), a, r), b, r).property_sets
           = f.property_sets
  BY <1>3, StoreSubsetAlike
<1>. QED
  BY <1>2, <1>3, <1>4

LEMMA IntersectionAlike ==
  ASSUME NEW f, NEW g, Alike(f, g), NEW a, NEW b, NEW r
  PROVE  /\ Alike(intersection_recorded(f, a, b, r),
                  intersection_recorded(g, a, b, r))
         /\ intersection_recorded(f, a, b, r).property_sets = f.property_sets
<1> DEFINE k == <<a, b>>
           first(h) == [h EXCEPT !.intersections = Insert(@, k, r)]
<1>1. Alike(first(f), first(g)) /\ first(f).property_sets = f.property_sets
  BY DEF Alike, SameMaps, Members
<1>2. \A h : intersection_recorded(h, a, b, r)
        = IF r # a THEN store_subset(first(h), r, a)
          ELSE store_subset(first(h), r, b)
  BY DEF intersection_recorded
<1>. HIDE DEF first
<1>. QED
  BY <1>1, <1>2, StoreSubsetAlike

LEMMA DifferenceAlike ==
  ASSUME NEW f, NEW g, Alike(f, g), NEW a, NEW b, NEW r
  PROVE  /\ Alike(difference_recorded(f, a, b, r),
                  difference_recorded(g, a, b, r))
         /\ difference_recorded(f, a, b, r).property_sets = f.property_sets
<1> DEFINE k == <<a, b>>
           p == <<minimum(a, b), maximum(a, b)>>
           first(h) == [h EXCEPT !.differences = Insert(@, k, r)]
           empty(h) == [h EXCEPT !.intersections = Insert(@, p, EMPTY_SET_VALUE)]
<1>1. Alike(first(f), first(g)) /\ first(f).property_sets = f.property_sets
  BY DEF Alike, SameMaps, Members
<1>2. \A h : difference_recorded(h, a, b, r)
        = IF r # a THEN store_subset(first(h), r, a) ELSE empty(first(h))
  BY DEF difference_recorded
<1>3. ASSUME NEW h, NEW m, Alike(h, m)
      PROVE  Alike(empty(h), empty(m)) /\ empty(h).property_sets = h.property_sets
  BY <1>3 DEF Alike, SameMaps, Members
<1>. HIDE DEF first, empty
<1>. QED
  BY <1>1, <1>2, <1>3, StoreSubsetAlike

(* Recording moves no holder.                                               *)
LEMMA RecordedHeld ==
  ASSUME NEW f, Held(f), NEW g, NEW G,
         Alike(g, G), g.property_sets = f.property_sets,
         SameSets(Restored(f), G)
  PROVE  /\ Held(g) /\ Restored(g) = G
         /\ Indices(g) = Indices(f)
         /\ \A i : is_evicted(g, i) <=> is_evicted(f, i)
<1>1. Shaped(g) /\ ForestInv(G) /\ SameMaps(g, G)
  BY DEF Held, Shaped, Alike, SameSets
<1>2. Restored(g) = G
  BY <1>1, RestoredIs
<1>3. /\ Indices(g) = Indices(f)
      /\ \A i : is_evicted(g, i) <=> is_evicted(f, i)
  BY DEF Indices, is_evicted
<1>4. \A i : get_value(G, i) = get_value(Restored(f), i)
  BY SameSetsLemma
<1>5. Held(g)
  BY <1>1, <1>2, <1>3, <1>4 DEF Held
<1>. QED
  BY <1>2, <1>3, <1>5

-----------------------------------------------------------------------------
(* The operations, with and without the elements *)

(* Unevicted uses the operators of ForestData under names of its own.       *)
LEMMA SameOperators ==
  /\ Unevicted!EMPTY_SET_VALUE = EMPTY_SET_VALUE
  /\ \A i : Unevicted!is_empty(i) <=> is_empty(i)
  /\ \A i, j : /\ Unevicted!minimum(i, j) = minimum(i, j)
               /\ Unevicted!maximum(i, j) = maximum(i, j)
  /\ \A f : Unevicted!Indices(f) = Indices(f)
  /\ \A f, i : Unevicted!get_value(f, i) = get_value(f, i)
  /\ \A f, s : /\ Unevicted!registered(f, s) = registered(f, s)
               /\ Unevicted!index_of(f, s) = index_of(f, s)
               /\ Unevicted!register_stat(f, s) = register_stat(f, s)
               /\ Unevicted!miss_stat(f, s) = miss_stat(f, s)
  /\ \A f, a, b : Unevicted!is_subset(f, a, b) = is_subset(f, a, b)
  /\ \A op, o, s : Unevicted!Call(op, o, s) = Call(op, o, s)
<1>1. \A m, k, v : Unevicted!Insert(m, k, v) = Insert(m, k, v)
  BY Zenon DEF Unevicted!Insert, Insert
<1>2. \A f, s : Unevicted!registered(f, s) = registered(f, s)
  BY Zenon DEF Unevicted!registered, registered, Unevicted!Insert, Insert
<1>3. /\ Unevicted!EMPTY_SET_VALUE = EMPTY_SET_VALUE
      /\ \A i : Unevicted!is_empty(i) <=> is_empty(i)
      /\ \A i, j : /\ Unevicted!minimum(i, j) = minimum(i, j)
                   /\ Unevicted!maximum(i, j) = maximum(i, j)
      /\ \A f : Unevicted!Indices(f) = Indices(f)
      /\ \A f, i : Unevicted!get_value(f, i) = get_value(f, i)
  BY DEF Unevicted!EMPTY_SET_VALUE, EMPTY_SET_VALUE, Unevicted!is_empty,
         is_empty, Unevicted!minimum, minimum, Unevicted!maximum, maximum,
         Unevicted!Indices, Indices, Unevicted!get_value, get_value
<1>4. /\ \A f, s : /\ Unevicted!index_of(f, s) = index_of(f, s)
                   /\ Unevicted!register_stat(f, s) = register_stat(f, s)
                   /\ Unevicted!miss_stat(f, s) = miss_stat(f, s)
      /\ \A f, a, b : Unevicted!is_subset(f, a, b) = is_subset(f, a, b)
      /\ \A op, o, s : Unevicted!Call(op, o, s) = Call(op, o, s)
  BY DEF Unevicted!index_of, index_of, Unevicted!register_stat, register_stat,
         Unevicted!miss_stat, miss_stat, Unevicted!is_subset, is_subset,
         Unevicted!Call, Call
<1>. QED
  BY <1>2, <1>3, <1>4

(* ... and its three recording operators.                                   *)
LEMMA SameRecording ==
  /\ \A f, a, b, r : Unevicted!union_recorded(f, a, b, r)
                       = union_recorded(f, a, b, r)
  /\ \A f, a, b, r : Unevicted!intersection_recorded(f, a, b, r)
                       = intersection_recorded(f, a, b, r)
  /\ \A f, a, b, r : Unevicted!difference_recorded(f, a, b, r)
                       = difference_recorded(f, a, b, r)
<1>1. \A f, a, b : Unevicted!store_subset(f, a, b) = store_subset(f, a, b)
  BY Zenon DEF Unevicted!store_subset, store_subset, Unevicted!Insert, Insert
<1>2. ASSUME NEW f, NEW a, NEW b, NEW r
      PROVE  Unevicted!union_recorded(f, a, b, r) = union_recorded(f, a, b, r)
  <2> DEFINE g == [f EXCEPT !.unions = Insert(@, <<a, b>>, r)]
  <2>1. g = [f EXCEPT !.unions = Unevicted!Insert(@, <<a, b>>, r)]
    BY Zenon DEF Unevicted!Insert, Insert
  <2>2. union_recorded(f, a, b, r)
          = IF r = a THEN store_subset(g, b, r)
            ELSE IF r = b THEN store_subset(g, a, r)
            ELSE store_subset(store_subset(g, a, r), b, r)
    BY DEF union_recorded
  <2>. HIDE DEF g
  <2>3. Unevicted!union_recorded(f, a, b, r)
          = IF r = a THEN store_subset(g, b, r)
            ELSE IF r = b THEN store_subset(g, a, r)
            ELSE store_subset(store_subset(g, a, r), b, r)
    BY <1>1, <2>1, Zenon DEF Unevicted!union_recorded
  <2>. QED
    BY <2>2, <2>3
<1>3. ASSUME NEW f, NEW a, NEW b, NEW r
      PROVE  Unevicted!intersection_recorded(f, a, b, r)
               = intersection_recorded(f, a, b, r)
  <2> DEFINE g == [f EXCEPT !.intersections = Insert(@, <<a, b>>, r)]
  <2>1. g = [f EXCEPT !.intersections = Unevicted!Insert(@, <<a, b>>, r)]
    BY Zenon DEF Unevicted!Insert, Insert
  <2>2. intersection_recorded(f, a, b, r)
          = IF r # a THEN store_subset(g, r, a) ELSE store_subset(g, r, b)
    BY DEF intersection_recorded
  <2>. HIDE DEF g
  <2>3. Unevicted!intersection_recorded(f, a, b, r)
          = IF r # a THEN store_subset(g, r, a) ELSE store_subset(g, r, b)
    BY <1>1, <2>1, Zenon DEF Unevicted!intersection_recorded
  <2>. QED
    BY <2>2, <2>3
<1>4. ASSUME NEW f, NEW a, NEW b, NEW r
      PROVE  Unevicted!difference_recorded(f, a, b, r)
               = difference_recorded(f, a, b, r)
  <2> DEFINE p == <<minimum(a, b), maximum(a, b)>>
             g == [f EXCEPT !.differences = Insert(@, <<a, b>>, r)]
             h == [g EXCEPT !.intersections = Insert(@, p, EMPTY_SET_VALUE)]
  <2>1. g = [f EXCEPT !.differences = Unevicted!Insert(@, <<a, b>>, r)]
    BY Zenon DEF Unevicted!Insert, Insert
  <2>2. difference_recorded(f, a, b, r)
          = IF r # a THEN store_subset(g, r, a) ELSE h
    BY DEF difference_recorded
  <2>. HIDE DEF g
  <2>3. h = [g EXCEPT !.intersections =
               Unevicted!Insert(@, <<Unevicted!minimum(a, b),
                                     Unevicted!maximum(a, b)>>,
                                Unevicted!EMPTY_SET_VALUE)]
    BY Zenon DEF Unevicted!Insert, Insert, Unevicted!minimum, minimum,
       Unevicted!maximum, maximum, Unevicted!EMPTY_SET_VALUE, EMPTY_SET_VALUE
  <2>. HIDE DEF h
  <2>4. Unevicted!difference_recorded(f, a, b, r)
          = IF r # a THEN store_subset(g, r, a) ELSE h
    BY <1>1, <2>1, <2>3, Zenon DEF Unevicted!difference_recorded
  <2>. QED
    BY <2>2, <2>4
<1>. QED
  BY <1>2, <1>3, <1>4

(* What the operations of both return.                                      *)
LEMMA ReturnLemma ==
  ASSUME NEW call, NEW h, NEW H, H = Restored(h), NEW r, NEW stat
  PROVE  /\ Return(call, h, r, stat, FALSE) =>
              /\ forest' = h
              /\ reply'.call = call /\ reply'.ret = r /\ reply'.stat = stat
              /\ Unevicted!Return(call, H, r, stat)
         /\ Return(call, h, r, stat, TRUE) =>
              /\ forest' = h
              /\ reply'.call = call /\ reply'.ret = r /\ reply'.stat = stat
              /\ Unevicted!Return(call, H, r, "hits")
BY DEF Return, Unevicted!Return

(* A call that started from members f keeps what is held, and returns a set *)
(* that is there or was given although it was not.                          *)
Good(f, call, given) ==
  /\ Held(forest')
  /\ Indices(f) \subseteq Indices(forest')
  /\ \A i \in Indices(f) :
       /\ get_value(Restored(forest'), i) = get_value(Restored(f), i)
       /\ is_evicted(forest', i) => is_evicted(f, i)
  /\ reply'.call = call
  /\ reply'.ret \in Indices(forest')
  /\ \/ ~is_evicted(forest', reply'.ret)
     \/ reply'.ret \in given /\ is_evicted(f, reply'.ret)

(* Answered from memory, without a look at the sets.                        *)
LEMMA MemoryGood ==
  ASSUME NEW f, Held(f), NEW call, NEW given, NEW r \in Indices(f), NEW stat,
         Return(call, f, r, stat, FALSE), r \in given \/ ~is_evicted(f, r)
  PROVE  /\ Good(f, call, given)
         /\ Unevicted!Return(call, Restored(f), r, stat)
BY ReturnLemma DEF Good

(* Answered from memory, after the set was computed again.                  *)
LEMMA RestoreGood ==
  ASSUME NEW f, Held(f), NEW call, NEW given, NEW m, NEW k, NEW s, NEW stat,
         Restore(f, call, m, k, s, stat), m[k] \in Indices(f),
         s = get_value(Restored(f), m[k])
  PROVE  /\ Good(f, call, given) /\ k \in DOMAIN m
         /\ Unevicted!Return(call, Restored(f), m[k], "hits")
<1> DEFINE i == m[k]
           g == reassign(f, i, s)
<1>1. k \in DOMAIN m /\ Return(call, g, i, stat, TRUE)
  BY DEF Restore
<1>2. /\ Held(g) /\ Restored(g) = Restored(f)
      /\ Indices(g) = Indices(f)
      /\ ~is_evicted(g, i)
      /\ \A j \in Indices(f) : ~is_evicted(f, j) => ~is_evicted(g, j)
  BY ReassignLemma
<1>. HIDE DEF g, i
<1>3. /\ forest' = g
      /\ reply'.call = call /\ reply'.ret = i
      /\ Unevicted!Return(call, Restored(g), i, "hits")
  BY <1>1, ReturnLemma
<1>4. Good(f, call, given)
  BY <1>2, <1>3 DEF Good, i
<1>. QED
  BY <1>1, <1>2, <1>3, <1>4 DEF i

(* Computed and recorded: h are the members afterwards, H the same had      *)
(* nothing been evicted.                                                    *)
LEMMA ComputedGood ==
  ASSUME NEW f, Held(f), NEW call, NEW given, NEW s \in SUBSET Property,
         NEW h, NEW H, NEW stat,
         Alike(h, H), h.property_sets = stored(f, s).property_sets,
         SameSets(registered(Restored(f), s), H),
         Return(call, h, index_of(stored(f, s), s), stat, FALSE)
  PROVE  /\ Good(f, call, given)
         /\ Unevicted!Return(call, H, index_of(registered(Restored(f), s), s),
                             stat)
<1> DEFINE g == stored(f, s)
           r == index_of(g, s)
           G == registered(Restored(f), s)
<1>1. /\ Held(g) /\ Restored(g) = G
      /\ g.property_set_map = Restored(g).property_set_map
      /\ Indices(f) \subseteq Indices(g)
      /\ r \in Indices(g) /\ ~is_evicted(g, r)
      /\ \A i \in Indices(f) : is_evicted(g, i) => is_evicted(f, i)
  BY StoredLemma
<1>2. r = index_of(G, s)
  BY <1>1 DEF index_of
<1>3. \A i \in Indices(f) : get_value(G, i) = get_value(Restored(f), i)
  <2>1. ForestInv(Restored(f)) /\ Indices(Restored(f)) = Indices(f)
    BY PresentLemma DEF Held
  <2>. HIDE DEF Restored
  <2>. QED
    BY <2>1, RegistrationLemma
<1>4. Alike(h, H) /\ h.property_sets = g.property_sets /\ SameSets(G, H)
  OBVIOUS
<1>5. Return(call, h, r, stat, FALSE)
  OBVIOUS
<1>. HIDE DEF g, r, G
<1>6. /\ Held(h) /\ Restored(h) = H /\ Indices(h) = Indices(g)
      /\ \A i : is_evicted(h, i) <=> is_evicted(g, i)
  BY <1>1, <1>4, RecordedHeld
<1>7. \A i : get_value(H, i) = get_value(G, i)
  BY <1>4, SameSetsLemma
<1>8. /\ forest' = h
      /\ reply'.call = call /\ reply'.ret = r
      /\ Unevicted!Return(call, H, r, stat)
  BY <1>5, <1>6, ReturnLemma
<1>9. Good(f, call, given)
  BY <1>1, <1>3, <1>6, <1>7, <1>8 DEF Good
<1>. QED
  BY <1>2, <1>8, <1>9 DEF G

(* The forest after a registration, with and without the elements.          *)
LEMMA StoredAlike ==
  ASSUME NEW f, Held(f), NEW s \in SUBSET Property
  PROVE  LET G == registered(Restored(f), s)
         IN  /\ Alike(stored(f, s), G)
             /\ ForestInv(G) /\ SameSets(G, G)
             /\ index_of(stored(f, s), s) = index_of(G, s)
<1>1. /\ Held(stored(f, s))
      /\ Restored(stored(f, s)) = registered(Restored(f), s)
      /\ stored(f, s).property_set_map
           = Restored(stored(f, s)).property_set_map
  BY StoredLemma
<1>2. ForestInv(registered(Restored(f), s))
  BY <1>1 DEF Held
<1>3. SameMaps(stored(f, s), registered(Restored(f), s))
  BY <1>1, RestoredMembers DEF Held
<1>4. stored(f, s) = Members(stored(f, s))
  BY <1>1 DEF Held, Shaped
<1>5. registered(Restored(f), s) = Members(registered(Restored(f), s))
  BY <1>2 DEF ForestInv, ForestType, Members
<1>. QED
  BY <1>1, <1>2, <1>3, <1>4, <1>5 DEF Alike, SameSets, index_of

(* Register, with and without the elements.                                 *)
LEMMA RegisterGood ==
  ASSUME NEW f, Held(f), NEW call, NEW given, NEW s \in SUBSET Property,
         Register(f, call, s)
  PROVE  Good(f, call, given) /\ Unevicted!Register(Restored(f), call, s)
<1> DEFINE g == stored(f, s)
           R == Restored(f)
           G == registered(R, s)
           absent == s \in DOMAIN f.property_set_map
                       /\ is_evicted(f, index_of(f, s))
           stat == IF absent THEN "none"
                   ELSE IF s \in DOMAIN f.property_set_map THEN "hits"
                   ELSE "cold_misses"
<1>1. Return(call, g, index_of(g, s), stat, absent)
  BY DEF Register
<1>2. /\ Held(g) /\ Restored(g) = G
      /\ Indices(f) \subseteq Indices(g)
      /\ index_of(g, s) \in Indices(g) /\ ~is_evicted(g, index_of(g, s))
      /\ \A i \in Indices(f) : is_evicted(g, i) => is_evicted(f, i)
      /\ index_of(g, s) = index_of(G, s)
  BY StoredLemma, StoredAlike
<1>3. \A i \in Indices(f) : get_value(G, i) = get_value(R, i)
  <2>1. ForestInv(R) /\ Indices(R) = Indices(f)
    BY PresentLemma DEF Held
  <2>. HIDE DEF R
  <2>. QED
    BY <2>1, RegistrationLemma
<1>4. DOMAIN R.property_set_map = DOMAIN f.property_set_map
  BY RestoredMembers DEF Held, SameMaps
<1>5. /\ absent \in BOOLEAN
      /\ absent => register_stat(R, s) = "hits"
      /\ ~absent => register_stat(R, s) = stat
  BY <1>4 DEF register_stat
<1>. HIDE DEF g, absent, stat, G
<1>6. /\ forest' = g
      /\ reply'.call = call /\ reply'.ret = index_of(g, s)
      /\ Unevicted!Return(call, G, index_of(G, s), register_stat(R, s))
  <2>1. CASE absent = TRUE
    <3>1. Return(call, g, index_of(g, s), stat, TRUE)
      BY <1>1, <2>1
    <3>. QED
      BY <1>2, <1>5, <2>1, <3>1, ReturnLemma
  <2>2. CASE absent = FALSE
    <3>1. Return(call, g, index_of(g, s), stat, FALSE)
      BY <1>1, <2>2
    <3>. QED
      BY <1>2, <1>5, <2>2, <3>1, ReturnLemma
  <2>. QED
    BY <1>5, <2>1, <2>2
<1>7. Good(f, call, given)
  BY <1>2, <1>3, <1>6 DEF Good, R
<1>8. Unevicted!Register(R, call, s)
  BY <1>6, SameOperators DEF Unevicted!Register, G
<1>. QED
  BY <1>7, <1>8

(* Each of the three operations answers what the same operation answers in  *)
(* the forest that never evicts.                                            *)
LEMMA UnionGood ==
  ASSUME NEW f, Held(f), NEW call, NEW x \in Indices(f), NEW y \in Indices(f),
         Union(f, call, x, y)
  PROVE  Good(f, call, {x, y}) /\ Unevicted!Union(Restored(f), call, x, y)
<1> DEFINE R == Restored(f)
           a == minimum(x, y)
           b == maximum(x, y)
           k == <<a, b>>
           s == value(f, a) \cup value(f, b)
           g == stored(f, s)
           r == index_of(g, s)
           t == get_value(R, a) \cup get_value(R, b)
           G == registered(R, t)
           q == index_of(G, t)
<1>0. /\ Indices(f) \subseteq Nat
      /\ a \in Indices(f) /\ b \in Indices(f) /\ a \in {x, y} /\ b \in {x, y}
      /\ x # y => a < b
      /\ ~is_empty(a) => 0 < a
  BY PresentLemma DEF minimum, maximum, is_empty, EMPTY_SET_VALUE
<1>1. /\ ForestInv(R) /\ SameMaps(f, R) /\ Indices(R) = Indices(f)
      /\ \A i \in Indices(f) : get_value(R, i) \in SUBSET Property
      /\ \A i \in Indices(f) : ~is_evicted(f, i) => value(f, i) = get_value(R, i)
  BY RestoredMembers, PresentLemma DEF Held
<1>2. \A i, j : is_subset(R, i, j) = is_subset(f, i, j)
  BY <1>1 DEF is_subset, SameMaps
<1>3. \/ /\ x = y
         /\ Unevicted!Return(call, R, x, "equal_hits")
      \/ /\ x # y /\ is_empty(a)
         /\ Unevicted!Return(call, R, b, "empty_hits")
      \/ /\ x # y /\ ~is_empty(a)
         /\ \/ /\ is_subset(R, a, b) = "SUBSET"
               /\ Unevicted!Return(call, R, b, "subset_hits")
            \/ /\ is_subset(R, a, b) = "SUPERSET"
               /\ Unevicted!Return(call, R, a, "subset_hits")
            \/ /\ is_subset(R, a, b) = "UNKNOWN" /\ k \in DOMAIN R.unions
               /\ Unevicted!Return(call, R, R.unions[k], "hits")
            \/ /\ is_subset(R, a, b) = "UNKNOWN" /\ k \notin DOMAIN R.unions
               /\ Unevicted!Return(call, union_recorded(G, a, b, q), q,
                                   miss_stat(R, t))
      => Unevicted!Union(R, call, x, y)
  <2>. HIDE DEF R
  <2>. QED
    BY SameOperators, SameRecording DEF Unevicted!Union
<1>4. CASE x = y /\ Return(call, f, x, "equal_hits", FALSE)
  BY <1>3, <1>4, MemoryGood
<1>5. CASE x # y /\ is_empty(a) /\ Return(call, f, b, "empty_hits", FALSE)
  BY <1>0, <1>3, <1>5, MemoryGood
<1>6. CASE /\ x # y /\ ~is_empty(a) /\ is_subset(f, a, b) = "SUBSET"
           /\ Return(call, f, b, "subset_hits", FALSE)
  BY <1>0, <1>2, <1>3, <1>6, MemoryGood
<1>7. CASE /\ x # y /\ ~is_empty(a) /\ is_subset(f, a, b) = "SUPERSET"
           /\ Return(call, f, a, "subset_hits", FALSE)
  BY <1>0, <1>2, <1>3, <1>7, MemoryGood
<1>8. CASE /\ x # y /\ ~is_empty(a) /\ is_subset(f, a, b) = "UNKNOWN"
           /\ Recall(f, call, f.unions, k)
  <2>1. /\ k \in DOMAIN f.unions /\ ~is_evicted(f, f.unions[k])
        /\ Return(call, f, f.unions[k], "hits", FALSE)
    BY <1>8 DEF Recall
  <2>2. f.unions = R.unions /\ f.unions[k] \in Indices(f)
    BY <1>1, <2>1 DEF SameMaps, ForestInv, ForestType, IsMap
  <2>3. Good(f, call, {x, y}) /\ Unevicted!Return(call, R, R.unions[k], "hits")
    BY <2>1, <2>2, MemoryGood
  <2>. QED
    BY <1>2, <1>3, <1>8, <2>1, <2>2, <2>3
<1>9. CASE /\ x # y /\ ~is_empty(a) /\ is_subset(f, a, b) = "UNKNOWN"
           /\ Present(f, {a, b})
           /\ Restore(f, call, f.unions, k, s, "edge_misses")
  <2>1. f.unions = R.unions /\ k \in DOMAIN f.unions
    BY <1>1, <1>9 DEF SameMaps, Restore
  <2>2. f.unions[k] \in Indices(f)
    BY <1>1, <2>1 DEF ForestInv, ForestType, IsMap
  <2>3. s = get_value(R, R.unions[k])
    <3>1. s = t
      BY <1>0, <1>1, <1>9 DEF Present
    <3>2. get_value(R, R.unions[k]) = t
      BY <1>1, <2>1 DEF ForestInv, Sound, UnionsSound
    <3>. QED
      BY <3>1, <3>2
  <2>4. Good(f, call, {x, y}) /\ Unevicted!Return(call, R, R.unions[k], "hits")
    BY <1>9, <2>1, <2>2, <2>3, RestoreGood
  <2>. QED
    BY <1>2, <1>3, <1>9, <2>1, <2>4
<1>10. CASE /\ x # y /\ ~is_empty(a) /\ is_subset(f, a, b) = "UNKNOWN"
            /\ Present(f, {a, b}) /\ k \notin DOMAIN f.unions
            /\ Return(call, union_recorded(g, a, b, r), r, miss_stat(f, s),
                      FALSE)
  <2> DEFINE h == union_recorded(g, a, b, r)
             H == union_recorded(G, a, b, q)
  <2>1. s = t /\ s \in SUBSET Property
    BY <1>0, <1>1, <1>10 DEF Present
  <2>2. Alike(g, G) /\ ForestInv(G) /\ r = q
    BY <2>1, StoredAlike
  <2>3. /\ q \in Indices(G) /\ get_value(G, q) = t
        /\ a \in Indices(G) /\ b \in Indices(G)
        /\ get_value(G, a) = get_value(R, a)
        /\ get_value(G, b) = get_value(R, b)
    <3>1. t \in SUBSET Property
      BY <2>1
    <3>. HIDE DEF R, t
    <3>2. /\ Indices(R) \subseteq Indices(G)
          /\ \A i \in Indices(R) : get_value(G, i) = get_value(R, i)
          /\ q \in Indices(G) /\ get_value(G, q) = t
      BY <1>1, <3>1, RegistrationLemma
    <3>. HIDE DEF a, b, q, G
    <3>. QED
      BY <1>0, <1>1, <3>2
  <2>4. miss_stat(f, s) = miss_stat(R, t)
    BY <1>1, <2>1 DEF miss_stat, SameMaps
  <2>5. /\ r = index_of(stored(f, s), s) /\ q = index_of(registered(R, s), s)
        /\ G = registered(R, s)
    BY <2>1
  <2>. HIDE DEF a, b, g, r, G, q, R, s
  <2>6. Alike(h, H) /\ h.property_sets = g.property_sets
    BY <2>2, UnionAlike
  <2>7. SameSets(G, H)
    BY <1>0, <1>10, <2>2, <2>3, UnionRecordedLemma
  <2>. HIDE DEF h, H, t
  <2>8. Return(call, h, r, miss_stat(f, s), FALSE)
    BY <1>10 DEF h
  <2>9. /\ Good(f, call, {x, y})
        /\ Unevicted!Return(call, H, q, miss_stat(f, s))
    BY <2>1, <2>5, <2>6, <2>7, <2>8, ComputedGood DEF R, g
  <2>10. k \notin DOMAIN R.unions
    BY <1>1, <1>10 DEF SameMaps
  <2>11. Unevicted!Return(call, union_recorded(G, a, b, q), q, miss_stat(R, t))
    BY <2>4, <2>9 DEF H
  <2>12. is_subset(R, a, b) = "UNKNOWN" /\ x # y /\ ~is_empty(a)
    BY <1>2, <1>10
  <2>13. Unevicted!Union(R, call, x, y)
    BY <1>3, <2>10, <2>11, <2>12 DEF G, q, a, b
  <2>. QED
    BY <2>9, <2>13 DEF R
<1>. QED
  BY <1>4, <1>5, <1>6, <1>7, <1>8, <1>9, <1>10 DEF Union, union_computed

LEMMA IntersectionGood ==
  ASSUME NEW f, Held(f), NEW call, NEW x \in Indices(f), NEW y \in Indices(f),
         Intersection(f, call, x, y)
  PROVE  Good(f, call, {x, y}) /\ Unevicted!Intersection(Restored(f), call, x, y)
<1> DEFINE R == Restored(f)
           a == minimum(x, y)
           b == maximum(x, y)
           k == <<a, b>>
           s == value(f, a) \cap value(f, b)
           g == stored(f, s)
           r == index_of(g, s)
           t == get_value(R, a) \cap get_value(R, b)
           G == registered(R, t)
           q == index_of(G, t)
<1>0. /\ Indices(f) \subseteq Nat
      /\ a \in Indices(f) /\ b \in Indices(f) /\ a \in {x, y} /\ b \in {x, y}
      /\ x # y => a < b
      /\ ~is_empty(a) => 0 < a
  BY PresentLemma DEF minimum, maximum, is_empty, EMPTY_SET_VALUE
<1>1. /\ ForestInv(R) /\ SameMaps(f, R) /\ Indices(R) = Indices(f)
      /\ \A i \in Indices(f) : get_value(R, i) \in SUBSET Property
      /\ \A i \in Indices(f) : ~is_evicted(f, i) => value(f, i) = get_value(R, i)
  BY RestoredMembers, PresentLemma DEF Held
<1>2. \A i, j : is_subset(R, i, j) = is_subset(f, i, j)
  BY <1>1 DEF is_subset, SameMaps
<1>3. \/ /\ x = y
         /\ Unevicted!Return(call, R, x, "equal_hits")
      \/ /\ x # y /\ is_empty(a)
         /\ Unevicted!Return(call, R, EMPTY_SET_VALUE, "empty_hits")
      \/ /\ x # y /\ ~is_empty(a)
         /\ \/ /\ is_subset(R, a, b) = "SUBSET"
               /\ Unevicted!Return(call, R, a, "subset_hits")
            \/ /\ is_subset(R, a, b) = "SUPERSET"
               /\ Unevicted!Return(call, R, b, "subset_hits")
            \/ /\ is_subset(R, a, b) = "UNKNOWN" /\ k \in DOMAIN R.intersections
               /\ Unevicted!Return(call, R, R.intersections[k], "hits")
            \/ /\ is_subset(R, a, b) = "UNKNOWN" /\ k \notin DOMAIN R.intersections
               /\ Unevicted!Return(call, intersection_recorded(G, a, b, q), q,
                                   miss_stat(R, t))
      => Unevicted!Intersection(R, call, x, y)
  <2>. HIDE DEF R
  <2>. QED
    BY SameOperators, SameRecording DEF Unevicted!Intersection
<1>4. CASE x = y /\ Return(call, f, x, "equal_hits", FALSE)
  BY <1>3, <1>4, MemoryGood
<1>5. CASE x # y /\ is_empty(a) /\ Return(call, f, EMPTY_SET_VALUE, "empty_hits", FALSE)
  <2>1. EMPTY_SET_VALUE \in Indices(f) /\ ~is_evicted(f, EMPTY_SET_VALUE)
    BY PresentLemma DEF Held
  <2>. QED
    BY <1>3, <1>5, <2>1, MemoryGood
<1>6. CASE /\ x # y /\ ~is_empty(a) /\ is_subset(f, a, b) = "SUBSET"
           /\ Return(call, f, a, "subset_hits", FALSE)
  BY <1>0, <1>2, <1>3, <1>6, MemoryGood
<1>7. CASE /\ x # y /\ ~is_empty(a) /\ is_subset(f, a, b) = "SUPERSET"
           /\ Return(call, f, b, "subset_hits", FALSE)
  BY <1>0, <1>2, <1>3, <1>7, MemoryGood
<1>8. CASE /\ x # y /\ ~is_empty(a) /\ is_subset(f, a, b) = "UNKNOWN"
           /\ Recall(f, call, f.intersections, k)
  <2>1. /\ k \in DOMAIN f.intersections /\ ~is_evicted(f, f.intersections[k])
        /\ Return(call, f, f.intersections[k], "hits", FALSE)
    BY <1>8 DEF Recall
  <2>2. f.intersections = R.intersections /\ f.intersections[k] \in Indices(f)
    BY <1>1, <2>1 DEF SameMaps, ForestInv, ForestType, IsMap
  <2>3. Good(f, call, {x, y}) /\ Unevicted!Return(call, R, R.intersections[k], "hits")
    BY <2>1, <2>2, MemoryGood
  <2>. QED
    BY <1>2, <1>3, <1>8, <2>1, <2>2, <2>3
<1>9. CASE /\ x # y /\ ~is_empty(a) /\ is_subset(f, a, b) = "UNKNOWN"
           /\ Present(f, {a, b})
           /\ Restore(f, call, f.intersections, k, s, "edge_misses")
  <2>1. f.intersections = R.intersections /\ k \in DOMAIN f.intersections
    BY <1>1, <1>9 DEF SameMaps, Restore
  <2>2. f.intersections[k] \in Indices(f)
    BY <1>1, <2>1 DEF ForestInv, ForestType, IsMap
  <2>3. s = get_value(R, R.intersections[k])
    <3>1. s = t
      BY <1>0, <1>1, <1>9 DEF Present
    <3>2. get_value(R, R.intersections[k]) = t
      BY <1>1, <2>1 DEF ForestInv, Sound, IntersectionsSound
    <3>. QED
      BY <3>1, <3>2
  <2>4. Good(f, call, {x, y}) /\ Unevicted!Return(call, R, R.intersections[k], "hits")
    BY <1>9, <2>1, <2>2, <2>3, RestoreGood
  <2>. QED
    BY <1>2, <1>3, <1>9, <2>1, <2>4
<1>10. CASE /\ x # y /\ ~is_empty(a) /\ is_subset(f, a, b) = "UNKNOWN"
            /\ Present(f, {a, b}) /\ k \notin DOMAIN f.intersections
            /\ Return(call, intersection_recorded(g, a, b, r), r, miss_stat(f, s),
                      FALSE)
  <2> DEFINE h == intersection_recorded(g, a, b, r)
             H == intersection_recorded(G, a, b, q)
  <2>1. s = t /\ s \in SUBSET Property
    BY <1>0, <1>1, <1>10 DEF Present
  <2>2. Alike(g, G) /\ ForestInv(G) /\ r = q
    BY <2>1, StoredAlike
  <2>3. /\ q \in Indices(G) /\ get_value(G, q) = t
        /\ a \in Indices(G) /\ b \in Indices(G)
        /\ get_value(G, a) = get_value(R, a)
        /\ get_value(G, b) = get_value(R, b)
    <3>1. t \in SUBSET Property
      BY <2>1
    <3>. HIDE DEF R, t
    <3>2. /\ Indices(R) \subseteq Indices(G)
          /\ \A i \in Indices(R) : get_value(G, i) = get_value(R, i)
          /\ q \in Indices(G) /\ get_value(G, q) = t
      BY <1>1, <3>1, RegistrationLemma
    <3>. HIDE DEF a, b, q, G
    <3>. QED
      BY <1>0, <1>1, <3>2
  <2>4. miss_stat(f, s) = miss_stat(R, t)
    BY <1>1, <2>1 DEF miss_stat, SameMaps
  <2>5. /\ r = index_of(stored(f, s), s) /\ q = index_of(registered(R, s), s)
        /\ G = registered(R, s)
    BY <2>1
  <2>. HIDE DEF a, b, g, r, G, q, R, s
  <2>6. Alike(h, H) /\ h.property_sets = g.property_sets
    BY <2>2, IntersectionAlike
  <2>7. SameSets(G, H)
    BY <1>0, <1>10, <2>2, <2>3, IntersectionRecordedLemma
  <2>. HIDE DEF h, H, t
  <2>8. Return(call, h, r, miss_stat(f, s), FALSE)
    BY <1>10 DEF h
  <2>9. /\ Good(f, call, {x, y})
        /\ Unevicted!Return(call, H, q, miss_stat(f, s))
    BY <2>1, <2>5, <2>6, <2>7, <2>8, ComputedGood DEF R, g
  <2>10. k \notin DOMAIN R.intersections
    BY <1>1, <1>10 DEF SameMaps
  <2>11. Unevicted!Return(call, intersection_recorded(G, a, b, q), q, miss_stat(R, t))
    BY <2>4, <2>9 DEF H
  <2>12. is_subset(R, a, b) = "UNKNOWN" /\ x # y /\ ~is_empty(a)
    BY <1>2, <1>10
  <2>13. Unevicted!Intersection(R, call, x, y)
    BY <1>3, <2>10, <2>11, <2>12 DEF G, q, a, b
  <2>. QED
    BY <2>9, <2>13 DEF R
<1>. QED
  BY <1>4, <1>5, <1>6, <1>7, <1>8, <1>9, <1>10 DEF Intersection

LEMMA DifferenceGood ==
  ASSUME NEW f, Held(f), NEW call, NEW a \in Indices(f), NEW b \in Indices(f),
         Difference(f, call, a, b)
  PROVE  Good(f, call, {a, b}) /\ Unevicted!Difference(Restored(f), call, a, b)
<1> DEFINE R == Restored(f)
           k == <<a, b>>
           s == value(f, a) \ value(f, b)
           g == stored(f, s)
           r == index_of(g, s)
           t == get_value(R, a) \ get_value(R, b)
           G == registered(R, t)
           q == index_of(G, t)
<1>0. /\ Indices(f) \subseteq Nat
      /\ EMPTY_SET_VALUE \in Indices(f) /\ ~is_evicted(f, EMPTY_SET_VALUE)
      /\ \A i : is_empty(i) <=> i = 0
  BY PresentLemma DEF is_empty, EMPTY_SET_VALUE, Held
<1>1. /\ ForestInv(R) /\ SameMaps(f, R) /\ Indices(R) = Indices(f)
      /\ \A i \in Indices(f) : get_value(R, i) \in SUBSET Property
      /\ \A i \in Indices(f) : ~is_evicted(f, i) => value(f, i) = get_value(R, i)
  BY RestoredMembers, PresentLemma DEF Held
<1>2. \/ a = b /\ Unevicted!Return(call, R, EMPTY_SET_VALUE, "equal_hits")
      \/ /\ a # b /\ is_empty(a)
         /\ Unevicted!Return(call, R, EMPTY_SET_VALUE, "empty_hits")
      \/ a # b /\ is_empty(b) /\ Unevicted!Return(call, R, a, "empty_hits")
      \/ /\ a # b /\ ~is_empty(a) /\ ~is_empty(b)
         /\ \/ /\ k \in DOMAIN R.differences
               /\ Unevicted!Return(call, R, R.differences[k], "hits")
            \/ /\ k \notin DOMAIN R.differences
               /\ Unevicted!Return(call, difference_recorded(G, a, b, q), q,
                                   miss_stat(R, t))
      => Unevicted!Difference(R, call, a, b)
  <2>. HIDE DEF R
  <2>. QED
    BY SameOperators, SameRecording DEF Unevicted!Difference
<1>3. CASE a = b /\ Return(call, f, EMPTY_SET_VALUE, "equal_hits", FALSE)
  BY <1>0, <1>2, <1>3, MemoryGood
<1>4. CASE /\ a # b /\ is_empty(a)
           /\ Return(call, f, EMPTY_SET_VALUE, "empty_hits", FALSE)
  BY <1>0, <1>2, <1>4, MemoryGood
<1>5. CASE /\ a # b /\ ~is_empty(a) /\ is_empty(b)
           /\ Return(call, f, a, "empty_hits", FALSE)
  BY <1>2, <1>5, MemoryGood
<1>6. CASE /\ a # b /\ ~is_empty(a) /\ ~is_empty(b)
           /\ Recall(f, call, f.differences, k)
  <2>1. /\ k \in DOMAIN f.differences /\ ~is_evicted(f, f.differences[k])
        /\ Return(call, f, f.differences[k], "hits", FALSE)
    BY <1>6 DEF Recall
  <2>2. f.differences = R.differences /\ f.differences[k] \in Indices(f)
    BY <1>1, <2>1 DEF SameMaps, ForestInv, ForestType, IsMap
  <2>3. /\ Good(f, call, {a, b})
        /\ Unevicted!Return(call, R, R.differences[k], "hits")
    BY <2>1, <2>2, MemoryGood
  <2>. QED
    BY <1>2, <1>6, <2>1, <2>2, <2>3
<1>7. CASE /\ a # b /\ ~is_empty(a) /\ ~is_empty(b)
           /\ Present(f, {a, b})
           /\ Restore(f, call, f.differences, k, s, "edge_misses")
  <2>1. f.differences = R.differences /\ k \in DOMAIN f.differences
    BY <1>1, <1>7 DEF SameMaps, Restore
  <2>2. f.differences[k] \in Indices(f)
    BY <1>1, <2>1 DEF ForestInv, ForestType, IsMap
  <2>3. s = get_value(R, R.differences[k])
    <3>1. s = t
      BY <1>1, <1>7 DEF Present
    <3>2. get_value(R, R.differences[k]) = t
      BY <1>1, <2>1 DEF ForestInv, Sound, DifferencesSound
    <3>. QED
      BY <3>1, <3>2
  <2>4. /\ Good(f, call, {a, b})
        /\ Unevicted!Return(call, R, R.differences[k], "hits")
    BY <1>7, <2>1, <2>2, <2>3, RestoreGood
  <2>. QED
    BY <1>2, <1>7, <2>1, <2>4
<1>8. CASE /\ a # b /\ ~is_empty(a) /\ ~is_empty(b)
           /\ Present(f, {a, b}) /\ k \notin DOMAIN f.differences
           /\ Return(call, difference_recorded(g, a, b, r), r, miss_stat(f, s),
                     FALSE)
  <2> DEFINE h == difference_recorded(g, a, b, r)
             H == difference_recorded(G, a, b, q)
  <2>1. s = t /\ s \in SUBSET Property
    BY <1>1, <1>8 DEF Present
  <2>2. Alike(g, G) /\ ForestInv(G) /\ r = q
    BY <2>1, StoredAlike
  <2>3. /\ q \in Indices(G) /\ get_value(G, q) = t
        /\ a \in Indices(G) /\ b \in Indices(G)
        /\ get_value(G, a) = get_value(R, a)
        /\ get_value(G, b) = get_value(R, b)
    <3>1. t \in SUBSET Property
      BY <2>1
    <3>. HIDE DEF R, t
    <3>2. /\ Indices(R) \subseteq Indices(G)
          /\ \A i \in Indices(R) : get_value(G, i) = get_value(R, i)
          /\ q \in Indices(G) /\ get_value(G, q) = t
      BY <1>1, <3>1, RegistrationLemma
    <3>. HIDE DEF q, G
    <3>. QED
      BY <1>1, <3>2
  <2>4. miss_stat(f, s) = miss_stat(R, t)
    BY <1>1, <2>1 DEF miss_stat, SameMaps
  <2>5. /\ r = index_of(stored(f, s), s) /\ q = index_of(registered(R, s), s)
        /\ G = registered(R, s)
    BY <2>1
  <2>. HIDE DEF g, r, G, q, R, s
  <2>6. Alike(h, H) /\ h.property_sets = g.property_sets
    BY <2>2, DifferenceAlike
  <2>7. SameSets(G, H)
    BY <1>0, <1>8, <2>2, <2>3, DifferenceRecordedLemma
  <2>. HIDE DEF h, H, t
  <2>8. Return(call, h, r, miss_stat(f, s), FALSE)
    BY <1>8 DEF h
  <2>9. /\ Good(f, call, {a, b})
        /\ Unevicted!Return(call, H, q, miss_stat(f, s))
    BY <2>1, <2>5, <2>6, <2>7, <2>8, ComputedGood DEF R, g
  <2>10. k \notin DOMAIN R.differences
    BY <1>1, <1>8 DEF SameMaps
  <2>11. Unevicted!Return(call, difference_recorded(G, a, b, q), q,
                          miss_stat(R, t))
    BY <2>4, <2>9 DEF H
  <2>12. Unevicted!Difference(R, call, a, b)
    BY <1>2, <1>8, <2>10, <2>11 DEF G, q
  <2>. QED
    BY <2>9, <2>12 DEF R
<1>. QED
  BY <1>3, <1>4, <1>5, <1>6, <1>7, <1>8 DEF Difference, difference_computed

-----------------------------------------------------------------------------
(* One step *)

(* The inductive invariant: what the theorems state of the holders, and     *)
(* that everything remembered is true of the sets that went as well, since  *)
(* an operation may bring any of them back.                                 *)
EInv ==
  /\ Held(forest)
  /\ CachesHeld(Filter, Restored(forest), caches)
  /\ reply.ret \in Indices(forest)

(* What AnswersPresent says of a step that evicts nothing.                  *)
Answers ==
  \/ ~is_evicted(forest', reply'.ret)
  \/ /\ \E n \in DOMAIN reply'.call.operands :
          reply'.ret = reply'.call.operands[n]
     /\ is_evicted(forest, reply'.ret)

(* f is reached from the members of the forest by registrations.            *)
Since(f) ==
  /\ Held(f)
  /\ Later(Restored(forest), Restored(f))
  /\ \A i \in Indices(forest) : is_evicted(f, i) => is_evicted(forest, i)

(* The two starting points of operations: after a registration, or now.     *)
LEMMA SinceSingle ==
  ASSUME EInv, NEW s \in SUBSET Property
  PROVE  LET g == stored(forest, s)
         IN  /\ Since(g) /\ Restored(g) = registered(Restored(forest), s)
             /\ Indices(forest) \subseteq Indices(g)
             /\ index_of(g, s) \in Indices(g)
             /\ index_of(g, s) = index_of(Restored(g), s)
             /\ ~is_evicted(g, index_of(g, s))
<1> DEFINE g == stored(forest, s)
           R == Restored(forest)
<1>1. /\ Held(g) /\ Restored(g) = registered(R, s)
      /\ g.property_set_map = Restored(g).property_set_map
      /\ Indices(forest) \subseteq Indices(g)
      /\ index_of(g, s) \in Indices(g)
      /\ ~is_evicted(g, index_of(g, s))
      /\ \A i \in Indices(forest) : is_evicted(g, i) => is_evicted(forest, i)
  BY StoredLemma DEF EInv
<1>2. ForestInv(R)
  BY DEF EInv, Held
<1>. HIDE DEF g, R
<1>3. Later(R, registered(R, s))
  BY <1>2, RegistrationLemma DEF Later
<1>. QED
  BY <1>1, <1>3 DEF Since, g, R, index_of

(* A call that starts from f and leaves the filter caches alone.            *)
LEMMA GoodStep ==
  ASSUME EInv, NEW f, Since(f), NEW call, NEW given, Good(f, call, given),
         \A i \in given :
           is_evicted(f, i) =>
             /\ i \in Indices(forest)
             /\ \E n \in DOMAIN call.operands : i = call.operands[n]
  PROVE  /\ Answers
         /\ Held(forest') /\ Later(Restored(forest), Restored(forest'))
         /\ reply'.ret \in Indices(forest')
         /\ UNCHANGED caches => EInv'
<1>1. /\ Held(forest') /\ Held(f) /\ Held(forest)
      /\ reply'.ret \in Indices(forest')
  BY DEF Good, Since, EInv
<1>2. /\ Indices(Restored(forest')) = Indices(forest')
      /\ Indices(Restored(f)) = Indices(f)
      /\ Indices(Restored(forest)) = Indices(forest)
  BY <1>1, PresentLemma
<1>3. Later(Restored(forest), Restored(forest'))
  BY <1>2 DEF Later, Good, Since
<1>4. Answers
  BY DEF Answers, Good, Since
<1>5. ASSUME UNCHANGED caches
      PROVE  EInv'
  <2>1. CachesHeld(Filter, Restored(forest'), caches)
    BY <1>3, CachesLater DEF EInv
  <2>. QED
    BY <1>1, <1>5, <2>1 DEF EInv
<1>. QED
  BY <1>1, <1>3, <1>4, <1>5

LEMMA SinceNow ==
  ASSUME EInv
  PROVE  Since(forest)
<1>. HIDE DEF Restored
<1>. QED
  BY DEF EInv, Since, Later

(* The actions, one by one.                                                 *)
LEMMA RegisterStep ==
  ASSUME EInv, NEW op, NEW operands, NEW set, NEW s \in SUBSET Property,
         Register(forest, Call(op, operands, set), s), UNCHANGED caches
  PROVE  /\ EInv' /\ Answers
         /\ Unevicted!Register(Restored(forest), Call(op, operands, set), s)
<1> DEFINE call == Call(op, operands, set)
<1>1. /\ Good(forest, call, {})
      /\ Unevicted!Register(Restored(forest), call, s)
  BY RegisterGood DEF EInv
<1>. HIDE DEF call
<1>. QED
  BY <1>1, SinceNow, GoodStep DEF call

LEMMA UnionStep ==
  ASSUME EInv, NEW a \in Indices(forest), NEW b \in Indices(forest),
         set_union(a, b)
  PROVE  EInv' /\ Answers /\ Unevicted!set_union(a, b)
<1> DEFINE call == Call("set_union", <<a, b>>, {})
<1>1. Union(forest, call, a, b) /\ UNCHANGED caches
  BY DEF set_union
<1>2. call.operands[1] = a /\ call.operands[2] = b /\ DOMAIN call.operands = {1, 2}
  BY DEF Call
<1>. HIDE DEF call
<1>3. /\ Good(forest, call, {a, b})
      /\ Unevicted!Union(Restored(forest), call, a, b)
  BY <1>1, UnionGood DEF EInv
<1>4. EInv' /\ Answers
  BY <1>1, <1>2, <1>3, SinceNow, GoodStep
<1>. QED
  BY <1>1, <1>3, <1>4, SameOperators DEF Unevicted!set_union, call

LEMMA IntersectionStep ==
  ASSUME EInv, NEW a \in Indices(forest), NEW b \in Indices(forest),
         set_intersection(a, b)
  PROVE  EInv' /\ Answers /\ Unevicted!set_intersection(a, b)
<1> DEFINE call == Call("set_intersection", <<a, b>>, {})
<1>1. Intersection(forest, call, a, b) /\ UNCHANGED caches
  BY DEF set_intersection
<1>2. /\ call.operands[1] = a /\ call.operands[2] = b
      /\ DOMAIN call.operands = {1, 2}
  BY DEF Call
<1>. HIDE DEF call
<1>3. /\ Good(forest, call, {a, b})
      /\ Unevicted!Intersection(Restored(forest), call, a, b)
  BY <1>1, IntersectionGood DEF EInv
<1>4. EInv' /\ Answers
  BY <1>1, <1>2, <1>3, SinceNow, GoodStep
<1>. QED
  BY <1>1, <1>3, <1>4, SameOperators DEF Unevicted!set_intersection, call

LEMMA DifferenceStep ==
  ASSUME EInv, NEW a \in Indices(forest), NEW b \in Indices(forest),
         set_difference(a, b)
  PROVE  EInv' /\ Answers /\ Unevicted!set_difference(a, b)
<1> DEFINE call == Call("set_difference", <<a, b>>, {})
<1>1. Difference(forest, call, a, b) /\ UNCHANGED caches
  BY DEF set_difference
<1>2. /\ call.operands[1] = a /\ call.operands[2] = b
      /\ DOMAIN call.operands = {1, 2}
  BY DEF Call
<1>. HIDE DEF call
<1>3. /\ Good(forest, call, {a, b})
      /\ Unevicted!Difference(Restored(forest), call, a, b)
  BY <1>1, DifferenceGood DEF EInv
<1>4. EInv' /\ Answers
  BY <1>1, <1>2, <1>3, SinceNow, GoodStep
<1>. QED
  BY <1>1, <1>3, <1>4, SameOperators DEF Unevicted!set_difference, call

LEMMA RegisterSingleStep ==
  ASSUME EInv, NEW p \in Property, register_set_single(p)
  PROVE  EInv' /\ Answers /\ Unevicted!register_set_single(p)
<1>1. /\ Register(forest, Call("register_set_single", <<>>, {p}), {p})
      /\ UNCHANGED caches
  BY DEF register_set_single
<1>2. /\ EInv' /\ Answers
      /\ Unevicted!Register(Restored(forest),
                            Call("register_set_single", <<>>, {p}), {p})
  BY <1>1, RegisterStep
<1>. QED
  BY <1>1, <1>2, SameOperators DEF Unevicted!register_set_single

(* The single-element operations start from the registration of the         *)
(* element, which is there afterwards.                                      *)
LEMMA InsertSingleStep ==
  ASSUME EInv, NEW a \in Indices(forest), NEW p \in Property,
         set_insert_single(a, p)
  PROVE  /\ EInv' /\ Answers
         /\ \/ Unevicted!set_insert_single(a, p)
            \/ Unevicted!register_set_single(p)
<1> DEFINE g == stored(forest, {p})
           b == index_of(g, {p})
           call == Call("set_insert_single", <<a>>, {p})
<1>1. CASE Union(g, call, a, b) /\ UNCHANGED caches
  <2>1. /\ Since(g) /\ Restored(g) = registered(Restored(forest), {p})
        /\ Indices(forest) \subseteq Indices(g)
        /\ b \in Indices(g) /\ b = index_of(Restored(g), {p})
        /\ ~is_evicted(g, b)
    BY SinceSingle
  <2>2. call.operands[1] = a /\ DOMAIN call.operands = {1}
    BY DEF Call
  <2>3. Union(g, call, a, b) /\ UNCHANGED caches
    BY <1>1
  <2>. HIDE DEF g, b, call
  <2>4. /\ Good(g, call, {a, b})
        /\ Unevicted!Union(Restored(g), call, a, b)
    BY <2>1, <2>3, UnionGood DEF Since
  <2>5. EInv' /\ Answers
    BY <2>1, <2>2, <2>3, <2>4, GoodStep
  <2>6. Unevicted!set_insert_single(a, p)
    BY <2>1, <2>3, <2>4, SameOperators DEF Unevicted!set_insert_single, call
  <2>. QED
    BY <2>5, <2>6
<1>2. CASE register_set_single(p)
  BY <1>2, RegisterSingleStep
<1>. QED
  BY <1>1, <1>2 DEF set_insert_single

LEMMA RemoveSingleStep ==
  ASSUME EInv, NEW a \in Indices(forest), NEW p \in Property,
         set_remove_single(a, p)
  PROVE  /\ EInv' /\ Answers
         /\ \/ Unevicted!set_remove_single(a, p)
            \/ Unevicted!register_set_single(p)
<1> DEFINE g == stored(forest, {p})
           b == index_of(g, {p})
           call == Call("set_remove_single", <<a>>, {p})
<1>1. CASE Difference(g, call, a, b) /\ UNCHANGED caches
  <2>1. /\ Since(g) /\ Restored(g) = registered(Restored(forest), {p})
        /\ Indices(forest) \subseteq Indices(g)
        /\ b \in Indices(g) /\ b = index_of(Restored(g), {p})
        /\ ~is_evicted(g, b)
    BY SinceSingle
  <2>2. call.operands[1] = a /\ DOMAIN call.operands = {1}
    BY DEF Call
  <2>3. Difference(g, call, a, b) /\ UNCHANGED caches
    BY <1>1
  <2>. HIDE DEF g, b, call
  <2>4. /\ Good(g, call, {a, b})
        /\ Unevicted!Difference(Restored(g), call, a, b)
    BY <2>1, <2>3, DifferenceGood DEF Since
  <2>5. EInv' /\ Answers
    BY <2>1, <2>2, <2>3, <2>4, GoodStep
  <2>6. Unevicted!set_remove_single(a, p)
    BY <2>1, <2>3, <2>4, SameOperators DEF Unevicted!set_remove_single, call
  <2>. QED
    BY <2>5, <2>6
<1>2. CASE register_set_single(p)
  BY <1>2, RegisterSingleStep
<1>. QED
  BY <1>1, <1>2 DEF set_remove_single

LEMMA RemoveKeyStep ==
  ASSUME EInv, NEW a \in Indices(forest), NEW p \in Property,
         set_remove_single_key(a, p)
  PROVE  EInv' /\ Answers /\ Unevicted!set_remove_single_key(a, p)
<1> DEFINE R == Restored(forest)
           call == Call("set_remove_single_key", <<a>>, {p})
<1>1. /\ Register(forest, call, value(forest, a) \ {p}) /\ UNCHANGED caches
      /\ value(forest, a) = get_value(R, a)
      /\ get_value(R, a) \in SUBSET Property
  BY PresentLemma DEF set_remove_single_key, EInv, Present
<1>2. /\ EInv' /\ Answers
      /\ Unevicted!Register(R, call, get_value(R, a) \ {p})
  BY <1>1, RegisterStep
<1>. QED
  BY <1>1, <1>2, SameOperators DEF Unevicted!set_remove_single_key

LEMMA FilterStep ==
  ASSUME EInv, NEW s \in Indices(forest), NEW keep \in Filter,
         set_filter(s, keep)
  PROVE  EInv' /\ Answers /\ Unevicted!set_filter(s, keep)
<1> DEFINE R == Restored(forest)
           call == Call("set_filter", <<s>>, keep)
           cache == caches[keep]
           kept == value(forest, s) \cap keep
           g == stored(forest, kept)
           r == index_of(g, kept)
           t == get_value(R, s) \cap keep
           G == registered(R, t)
           q == index_of(G, t)
<1>0. /\ Held(forest) /\ ForestInv(R) /\ Indices(R) = Indices(forest)
      /\ SameMaps(forest, R)
      /\ get_value(R, s) \in SUBSET Property
      /\ ~is_evicted(forest, s) => kept = t
  BY PresentLemma, RestoredMembers DEF EInv, Held
<1>1. /\ call.operands[1] = s /\ DOMAIN call.operands = {1}
      /\ EMPTY_SET_VALUE \in Indices(forest)
      /\ ~is_evicted(forest, EMPTY_SET_VALUE)
  BY PresentLemma DEF Call, EInv, Held
<1>2. \/ /\ is_empty(s) /\ Unevicted!Return(call, R, s, "none")
         /\ UNCHANGED caches
      \/ /\ ~is_empty(s) /\ s \in DOMAIN cache
         /\ Unevicted!Return(call, R, cache[s], "hits")
         /\ UNCHANGED caches
      \/ /\ ~is_empty(s) /\ s \notin DOMAIN cache
         /\ Unevicted!Return(call, G, q, miss_stat(R, t))
         /\ caches' = [caches EXCEPT ![keep] = Insert(@, s, q)]
      => Unevicted!set_filter(s, keep)
  <2>1. \A m, k, v : Unevicted!Insert(m, k, v) = Insert(m, k, v)
    BY Zenon DEF Unevicted!Insert, Insert
  <2>. HIDE DEF R
  <2>. QED
    BY <2>1, SameOperators DEF Unevicted!set_filter, R
<1>3. CASE /\ is_empty(s) /\ Return(call, forest, s, "none", FALSE)
           /\ UNCHANGED caches
  <2>1. Good(forest, call, {s}) /\ Unevicted!Return(call, R, s, "none")
    BY <1>0, <1>3, MemoryGood
  <2>. HIDE DEF call, R
  <2>2. EInv' /\ Answers
    BY <1>1, <1>3, <2>1, SinceNow, GoodStep
  <2>. QED
    BY <1>2, <1>3, <2>1, <2>2
<1>4. CASE ~is_empty(s) /\ Recall(forest, call, cache, s) /\ UNCHANGED caches
  <2>1. /\ s \in DOMAIN cache /\ ~is_evicted(forest, cache[s])
        /\ Return(call, forest, cache[s], "hits", FALSE)
    BY <1>4 DEF Recall
  <2>2. cache[s] \in Indices(forest)
    BY <1>0, <2>1 DEF EInv, CachesHeld, IsMap
  <2>3. /\ Good(forest, call, {}) /\ Unevicted!Return(call, R, cache[s], "hits")
    BY <1>0, <2>1, <2>2, MemoryGood
  <2>. HIDE DEF call, R
  <2>4. EInv' /\ Answers
    BY <1>4, <2>3, SinceNow, GoodStep
  <2>. QED
    BY <1>2, <1>4, <2>1, <2>3, <2>4
<1>5. CASE /\ ~is_empty(s) /\ Present(forest, {s}) /\ UNCHANGED caches
           /\ \E stat \in {"cold_misses", "edge_misses"} :
                Restore(forest, call, cache, s, kept, stat)
  <2>1. PICK stat : Restore(forest, call, cache, s, kept, stat)
    BY <1>5
  <2>2. s \in DOMAIN cache
    BY <2>1 DEF Restore
  <2>3. cache[s] \in Indices(forest) /\ get_value(R, cache[s]) = kept
    BY <1>0, <1>5, <2>2 DEF EInv, CachesHeld, IsMap, Present
  <2>4. Good(forest, call, {}) /\ Unevicted!Return(call, R, cache[s], "hits")
    BY <1>0, <2>1, <2>3, RestoreGood
  <2>. HIDE DEF call, R
  <2>5. EInv' /\ Answers
    BY <1>5, <2>4, SinceNow, GoodStep
  <2>. QED
    BY <1>2, <1>5, <2>2, <2>4, <2>5
<1>6. CASE /\ ~is_empty(s) /\ s \notin DOMAIN cache
           /\ Present(forest, {s})
           /\ Return(call, g, r, miss_stat(forest, kept), FALSE)
           /\ caches' = [caches EXCEPT ![keep] = Insert(@, s, r)]
  <2>1. kept = t /\ t \in SUBSET Property
    BY <1>0, <1>6 DEF Present
  <2>2. miss_stat(forest, kept) = miss_stat(R, t)
    BY <1>0, <2>1 DEF miss_stat, SameMaps
  <2>3. Return(call, g, r, miss_stat(R, t), FALSE)
    BY <1>6, <2>2
  <2>4. Alike(g, G) /\ SameSets(G, G) /\ r = q
    BY <1>0, <2>1, StoredAlike
  <2>5. /\ Good(forest, call, {})
        /\ Unevicted!Return(call, G, q, miss_stat(R, t))
    BY <1>0, <2>1, <2>3, <2>4, ComputedGood
  <2>6. /\ Unevicted!set_filter(s, keep)
        /\ caches' = [caches EXCEPT ![keep] = Insert(@, s, q)]
    BY <1>2, <1>6, <2>4, <2>5
  <2>7. Restored(forest') = G
    BY <2>5 DEF Unevicted!Return
  <2>. HIDE DEF R, t, call
  <2>8. /\ q \in Indices(G) /\ get_value(G, q) = t
    BY <1>0, <2>1, RegistrationLemma
  <2>. HIDE DEF G, q, g, r, kept
  <2>9. /\ Answers /\ Held(forest') /\ Later(R, Restored(forest'))
        /\ reply'.ret \in Indices(forest')
    BY <2>5, SinceNow, GoodStep DEF R
  <2>10. CachesHeld(Filter, G, caches) /\ s \in Indices(G)
         /\ get_value(G, s) \cap keep = t
    BY <1>0, <2>7, <2>9, CachesLater DEF EInv, Later, R, t
  <2>11. CachesHeld(Filter, G, caches')
    <3>1. s \notin DOMAIN caches[keep] /\ get_value(G, q) = get_value(G, s) \cap keep
      BY <1>6, <2>8, <2>10
    <3>2. CachesHeld(Filter, G, [caches EXCEPT ![keep] = Insert(@, s, q)])
      BY <2>8, <2>10, <3>1, CachesInserted
    <3>. QED
      BY <2>6, <3>2
  <2>12. EInv'
    BY <2>7, <2>9, <2>11 DEF EInv
  <2>. QED
    BY <2>6, <2>9, <2>12
<1>. QED
  BY <1>3, <1>4, <1>5, <1>6 DEF set_filter

(* Evicting what is not there changes nothing.                              *)
LEMMA EvictStep ==
  ASSUME EInv, NEW i \in Indices(forest), evict_set(i)
  PROVE  /\ EInv'
         /\ UNCHANGED Unevicted!vars
         /\ \/ UNCHANGED forest
            \/ ~is_evicted(forest, i) /\ is_evicted(forest', i)
<1>1. /\ forest' = evict(forest, i) /\ ~is_empty(i)
      /\ UNCHANGED <<caches, reply>>
  BY DEF evict_set
<1>2. /\ Held(forest') /\ Restored(forest') = Restored(forest)
      /\ Indices(forest') = Indices(forest)
  BY <1>1, EvictLemma DEF EInv
<1>3. forest' = put(forest, i, {})
  BY <1>1 DEF evict, put
<1>4. is_evicted(forest', i)
  BY <1>1, <1>3, HolderLemma DEF EInv
<1>5. EInv'
  BY <1>1, <1>2 DEF EInv
<1>6. UNCHANGED Unevicted!vars
  BY <1>1, <1>2 DEF Unevicted!vars
<1>7. CASE is_evicted(forest, i)
  <2>1. forest = Members(forest)
    BY DEF EInv, Held, Shaped
  <2>2. /\ i + 1 \in DOMAIN forest.property_sets
        /\ forest.property_sets[i + 1] = {}
    BY <1>7 DEF EInv, Held, Shaped, Indices, is_evicted
  <2>3. forest.property_sets
          = [n \in DOMAIN forest.property_sets |-> forest.property_sets[n]]
    BY DEF EInv, Held, Shaped
  <2>4. [forest.property_sets EXCEPT ![i + 1] = {}] = forest.property_sets
    BY <2>2, <2>3
  <2>5. put(forest, i, {}) = forest
    BY <2>1, <2>4 DEF put, Members
  <2>6. UNCHANGED forest
    BY <1>3, <2>5
  <2>. QED
    BY <1>5, <1>6, <2>6
<1>. QED
  BY <1>4, <1>5, <1>6, <1>7

(* Every call but evict_set is the same call of the forest that never       *)
(* evicts, but for a single-element operation that throws: it registers.    *)
LEMMA CallStep ==
  ASSUME EInv, Next, \A i \in Indices(forest) : ~evict_set(i)
  PROVE  EInv' /\ Answers /\ Unevicted!Next
<1>0. Unevicted!Indices(Restored(forest)) = Indices(forest)
  BY SameOperators, PresentLemma DEF EInv
<1>. HIDE DEF Restored
<1>1. ASSUME NEW s \in SUBSET Property, register_set(s)
      PROVE  EInv' /\ Answers /\ Unevicted!Next
  <2>1. /\ Register(forest, Call("register_set", <<>>, s), s)
        /\ UNCHANGED caches
    BY <1>1 DEF register_set
  <2>2. /\ EInv' /\ Answers
        /\ Unevicted!Register(Restored(forest),
                              Call("register_set", <<>>, s), s)
    BY <2>1, RegisterStep
  <2>3. Unevicted!register_set(s)
    BY <2>1, <2>2, SameOperators DEF Unevicted!register_set
  <2>. QED
    BY <2>2, <2>3 DEF Unevicted!Next
<1>2. ASSUME NEW p \in Property, register_set_single(p)
      PROVE  EInv' /\ Answers /\ Unevicted!Next
  BY <1>2, RegisterSingleStep DEF Unevicted!Next
<1>3. ASSUME NEW a \in Indices(forest), NEW b \in Indices(forest),
             set_union(a, b)
      PROVE  EInv' /\ Answers /\ Unevicted!Next
  BY <1>0, <1>3, UnionStep DEF Unevicted!Next
<1>4. ASSUME NEW a \in Indices(forest), NEW b \in Indices(forest),
             set_difference(a, b)
      PROVE  EInv' /\ Answers /\ Unevicted!Next
  BY <1>0, <1>4, DifferenceStep DEF Unevicted!Next
<1>5. ASSUME NEW a \in Indices(forest), NEW b \in Indices(forest),
             set_intersection(a, b)
      PROVE  EInv' /\ Answers /\ Unevicted!Next
  BY <1>0, <1>5, IntersectionStep DEF Unevicted!Next
<1>6. ASSUME NEW a \in Indices(forest), NEW p \in Property,
             set_insert_single(a, p)
      PROVE  EInv' /\ Answers /\ Unevicted!Next
  BY <1>0, <1>6, InsertSingleStep DEF Unevicted!Next
<1>7. ASSUME NEW a \in Indices(forest), NEW p \in Property,
             set_remove_single(a, p)
      PROVE  EInv' /\ Answers /\ Unevicted!Next
  BY <1>0, <1>7, RemoveSingleStep DEF Unevicted!Next
<1>8. ASSUME NEW a \in Indices(forest), NEW p \in Property,
             set_remove_single_key(a, p)
      PROVE  EInv' /\ Answers /\ Unevicted!Next
  BY <1>0, <1>8, RemoveKeyStep DEF Unevicted!Next
<1>9. ASSUME NEW s \in Indices(forest), NEW keep \in Filter,
             set_filter(s, keep)
      PROVE  EInv' /\ Answers /\ Unevicted!Next
  BY <1>0, <1>9, FilterStep DEF Unevicted!Next
<1>. QED
  BY <1>1, <1>2, <1>3, <1>4, <1>5, <1>6, <1>7, <1>8, <1>9 DEF Next

(* The first state, with its holder of the empty set.                       *)
LEMMA InitLemma ==
  ASSUME Init
  PROVE  EInv /\ Unevicted!Init
<1>1. /\ forest.property_sets = <<{{}}>>
      /\ forest.property_set_map = FreshForest.property_set_map
      /\ forest.unions = NoEntries
      /\ forest.intersections = NoEntries
      /\ forest.differences = NoEntries
      /\ forest.subsets = NoEntries
      /\ forest = Members(forest)
  BY DEF Init, FreshForest, Members
<1>2. /\ FreshForest.property_sets = <<{}>>
      /\ FreshForest.unions = NoEntries
      /\ FreshForest.intersections = NoEntries
      /\ FreshForest.differences = NoEntries
      /\ FreshForest.subsets = NoEntries
  BY DEF FreshForest
<1>3. Shaped(forest) /\ SameMaps(forest, FreshForest)
  <2>1. forest.property_sets \in Seq(SUBSET SUBSET Property)
    BY <1>1
  <2>2. Len(forest.property_sets) = Len(FreshForest.property_sets)
    BY <1>1, <1>2
  <2>. QED
    BY <1>1, <1>2, <2>1, <2>2 DEF Shaped, SameMaps
<1>4. Restored(forest) = FreshForest
  BY <1>3, FreshLemma, RestoredIs
<1>5. Indices(forest) = {0} /\ get_value(FreshForest, 0) = {}
  BY <1>1, <1>2 DEF Indices, get_value
<1>6. Held(forest)
  <2>1. ForestInv(Restored(forest))
    BY <1>4, FreshLemma
  <2>2. ~is_evicted(forest, EMPTY_SET_VALUE)
    BY <1>1 DEF is_evicted, EMPTY_SET_VALUE
  <2>3. forest.property_sets[0 + 1] = {get_value(Restored(forest), 0)}
    <3>1. forest.property_sets[1] = {{}} /\ 0 + 1 = 1
      BY <1>1
    <3>. QED
      BY <1>4, <1>5, <3>1, Zenon
  <2>. HIDE DEF Restored
  <2>. QED
    BY <1>3, <1>5, <2>1, <2>2, <2>3 DEF Held
<1>7. CachesHeld(Filter, Restored(forest), caches)
  BY DEF Init, CachesHeld, IsMap, NoEntries
<1>8. reply.ret \in Indices(forest)
  BY <1>5 DEF Init, EMPTY_SET_VALUE
<1>9. Unevicted!FreshForest = FreshForest /\ Unevicted!NoEntries = NoEntries
  BY DEF Unevicted!FreshForest, FreshForest, Unevicted!NoEntries, NoEntries,
         Unevicted!EMPTY_SET_VALUE, EMPTY_SET_VALUE
<1>10. Unevicted!Init
  BY <1>4, <1>9, SameOperators DEF Init, Unevicted!Init
<1>. QED
  BY <1>6, <1>7, <1>8, <1>10 DEF EInv

-----------------------------------------------------------------------------
(* The theorems *)

(* What every step keeps, implements and answers.                           *)
LEMMA StepLemma ==
  ASSUME EInv, [Next]_vars
  PROVE  /\ EInv'
         /\ [Unevicted!Next]_(Unevicted!vars)
         /\ \/ UNCHANGED vars
            \/ Answers
            \/ \E i \in Indices(forest) : /\ ~is_evicted(forest, i)
                                          /\ is_evicted(forest', i)
<1>1. CASE Next /\ \A i \in Indices(forest) : ~evict_set(i)
  BY <1>1, CallStep
<1>2. CASE \E i \in Indices(forest) : evict_set(i)
  BY <1>2, EvictStep DEF evict_set, vars
<1>3. CASE UNCHANGED vars
  <2>. HIDE DEF Restored
  <2>. QED
    BY <1>3 DEF vars, EInv, Unevicted!vars
<1>. QED
  BY <1>1, <1>2, <1>3

(* The invariant is inductive.                                              *)
THEOREM Invariance == Spec => []EInv
<1>1. Init => EInv
  BY InitLemma
<1>2. EInv /\ [Next]_vars => EInv'
  BY StepLemma
<1>. QED
  BY <1>1, <1>2, PTL DEF Spec

(* TypeOK for every set of properties and filters: a holder has one set or  *)
(* none, and the maps and caches lead to indices that exist (lhf.hpp 1408,  *)
(* 1794).                                                                   *)
THEOREM TypeCorrect == Spec => []TypeOK
<1>1. EInv => TypeOK
  <2>1. ASSUME EInv
        PROVE  TypeOK
    <3>1. /\ Indices(Restored(forest)) = Indices(forest)
          /\ \A i \in Indices(forest) :
               get_value(Restored(forest), i) \in SUBSET Property
      BY <2>1, PresentLemma DEF EInv
    <3>. HIDE DEF Restored
    <3>. QED
      BY <2>1, <3>1 DEF EInv, Held, CachesHeld, ForestInv, TypeOK
  <2>. QED
    BY <2>1
<1>. QED
  BY <1>1, Invariance, PTL

(* HoldersFaithful for every set of properties and filters: a set that came *)
(* back is the set that went (lhf.hpp 1236-1277, 1763-1776).                *)
THEOREM HoldersTrue == Spec => []HoldersFaithful
<1>1. EInv => HoldersFaithful
  <2>1. ASSUME EInv, NEW i \in Indices(forest), ~is_evicted(forest, i)
        PROVE  index_of(forest, value(forest, i)) = i
    <3>1. /\ value(forest, i) = get_value(Restored(forest), i)
          /\ Indices(Restored(forest)) = Indices(forest)
          /\ SameMaps(forest, Restored(forest))
          /\ ForestInv(Restored(forest))
      BY <2>1, PresentLemma, RestoredMembers DEF EInv, Held
    <3>. HIDE DEF Restored
    <3>. QED
      BY <3>1 DEF ForestInv, Canonical, SameMaps, index_of
  <2>. QED
    BY <2>1 DEF HoldersFaithful
<1>. QED
  BY <1>1, Invariance, PTL

(* AnswersPresent for every set of properties and filters: where no set     *)
(* goes away, no call answers with an absent set but one of its own absent  *)
(* operands (lhf.hpp 1991-2019).                                            *)
THEOREM AnswersThere == Spec => AnswersPresent
<1> DEFINE evicts == \E i \in Indices(forest) : /\ ~is_evicted(forest, i)
                                                /\ is_evicted(forest', i)
           given == {reply'.call.operands[n] :
                       n \in DOMAIN reply'.call.operands}
           A == \/ evicts
                \/ ~is_evicted(forest', reply'.ret)
                \/ reply'.ret \in given /\ is_evicted(forest, reply'.ret)
<1>1. EInv /\ [Next]_vars => [A]_vars
  BY StepLemma DEF Answers
<1>. QED
  BY <1>1, Invariance, PTL DEF Spec, AnswersPresent

(* EvictionTransparent for every set of properties and filters: whatever    *)
(* was evicted in between, every call returns the index, and leaves the     *)
(* maps, of the forest that never evicts; evict_set is a stuttering step.   *)
THEOREM Transparency == Spec => EvictionTransparent
<1>1. Init => Unevicted!Init
  BY InitLemma
<1>2. EInv /\ [Next]_vars => [Unevicted!Next]_(Unevicted!vars)
  BY StepLemma
<1>. QED
  BY <1>1, <1>2, Invariance, PTL DEF Spec, EvictionTransparent, Unevicted!Spec
=============================================================================
