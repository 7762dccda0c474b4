----------------------------- MODULE ForestData -----------------------------
(***************************************************************************)
(* The members of a LatticeHashForest (workdir/lhf/src/include/lhf/lhf.hpp  *)
(* 1424-1434) as a record f, what single statements of its operations do to *)
(* them, and what it means for them to be right.  A sorted vector of        *)
(* properties is the set of its elements.                                   *)
(***************************************************************************)
EXTENDS Naturals, Sequences, FiniteSets

CONSTANT Property    \* the properties that make up a property set

EMPTY_SET_VALUE == 0

NoEntries == [k \in {} |-> 0]

(* Map::insert keeps the entry that a key already has.                      *)
Insert(m, k, v) ==
  IF k \in DOMAIN m
    THEN m
    ELSE [x \in DOMAIN m \cup {k} |-> IF x = k THEN v ELSE m[x]]

minimum(i, j) == IF i <= j THEN i ELSE j
maximum(i, j) == IF i <= j THEN j ELSE i

-----------------------------------------------------------------------------
(* Operations on the members `f` of a forest.                               *)

FreshForest ==
  [property_sets    |-> <<{}>>,
   property_set_map |-> [s \in {{}} |-> EMPTY_SET_VALUE],
   unions           |-> NoEntries,
   intersections    |-> NoEntries,
   differences      |-> NoEntries,
   subsets          |-> NoEntries]

Indices(f) == 0 .. Len(f.property_sets) - 1

get_value(f, i) == f.property_sets[i + 1]

is_empty(i) == i = EMPTY_SET_VALUE

(* Faults that the properties must notice; no specification uses them.      *)
registered_off_by_one(f, s) ==
  IF s \in DOMAIN f.property_set_map
    THEN f
    ELSE [f EXCEPT
            !.property_sets    = Append(@, s),
            !.property_set_map = Insert(@, s, Len(f.property_sets) + 1)]

registered_without_find(f, s) ==
  [f EXCEPT !.property_sets    = Append(@, s),
            !.property_set_map = Insert(@, s, Len(f.property_sets))]

(* The members after register_set(s), and the index it returns.             *)
registered(f, s) ==
  IF s \in DOMAIN f.property_set_map
    THEN f
    ELSE [f EXCEPT
            !.property_sets    = Append(@, s),
            !.property_set_map = Insert(@, s, Len(f.property_sets))]

index_of(f, s) == f.property_set_map[s]

register_stat(f, s) ==
  IF s \in DOMAIN f.property_set_map THEN "hits" ELSE "cold_misses"

(* Fault: the orientation of the pair is forgotten.                         *)
store_subset_unoriented(f, a, b) ==
  [f EXCEPT !.subsets = Insert(@, <<minimum(a, b), maximum(a, b)>>, "SUBSET")]

(* Records that set a is contained in set b.                                *)
store_subset(f, a, b) ==
  [f EXCEPT !.subsets = IF a > b
                          THEN Insert(@, <<b, a>>, "SUPERSET")
                          ELSE Insert(@, <<a, b>>, "SUBSET")]

(* Fault: any recorded relation counts as containment.                      *)
is_subset_unoriented(f, a, b) ==
  IF <<a, b>> \in DOMAIN f.subsets THEN "SUBSET" ELSE "UNKNOWN"

is_subset(f, a, b) ==
  IF <<a, b>> \in DOMAIN f.subsets THEN f.subsets[<<a, b>>] ELSE "UNKNOWN"

(* Faults: a union forgets the containment of its second operand, or the    *)
(* pair itself; a difference takes a set it leaves whole for a contained    *)
(* one.                                                                     *)
union_recorded_half(f, a, b, r) ==
  LET g == [f EXCEPT !.unions = Insert(@, <<a, b>>, r)]
  IN  IF r = a THEN store_subset(g, b, r) ELSE store_subset(g, a, r)

union_recorded_not(f, a, b, r) ==
  IF r = a THEN store_subset(f, b, r) ELSE store_subset(f, a, r)

difference_recorded_contained(f, a, b, r) ==
  LET g == [f EXCEPT !.differences = Insert(@, <<a, b>>, r)]
  IN  IF r # a THEN store_subset(g, r, a) ELSE store_subset(g, a, b)

(* The members after a union, intersection or difference of a and b was     *)
(* computed with result r: the pair is recorded, and the containments that  *)
(* the result gives away.                                                   *)
union_recorded(f, a, b, r) ==
  LET g == [f EXCEPT !.unions = Insert(@, <<a, b>>, r)]
  IN  IF r = a THEN store_subset(g, b, r)
      ELSE IF r = b THEN store_subset(g, a, r)
      ELSE store_subset(store_subset(g, a, r), b, r)

intersection_recorded(f, a, b, r) ==
  LET g == [f EXCEPT !.intersections = Insert(@, <<a, b>>, r)]
  IN  IF r # a THEN store_subset(g, r, a) ELSE store_subset(g, r, b)

difference_recorded(f, a, b, r) ==
  LET g == [f EXCEPT !.differences = Insert(@, <<a, b>>, r)]
  IN  IF r # a
        THEN store_subset(g, r, a)
        ELSE [g EXCEPT !.intersections =
                Insert(@, <<minimum(a, b), maximum(a, b)>>, EMPTY_SET_VALUE)]

-----------------------------------------------------------------------------
(* Correctness of the members *)

(* m is a map with keys in K and values in V.                               *)
IsMap(m, K, V) ==
  /\ m = [k \in DOMAIN m |-> m[k]]
  /\ DOMAIN m \subseteq K
  /\ \A k \in DOMAIN m : m[k] \in V

Pairs(f) == Indices(f) \X Indices(f)

ForestType(f) ==
  /\ f = [property_sets    |-> f.property_sets,
          property_set_map |-> f.property_set_map,
          unions           |-> f.unions,
          intersections    |-> f.intersections,
          differences      |-> f.differences,
          subsets          |-> f.subsets]
  /\ f.property_sets \in Seq(SUBSET Property)
  /\ Len(f.property_sets) > 0
  /\ IsMap(f.property_set_map, SUBSET Property, Indices(f))
  /\ IsMap(f.unions, Pairs(f), Indices(f))
  /\ IsMap(f.intersections, Pairs(f), Indices(f))
  /\ IsMap(f.differences, Pairs(f), Indices(f))
  /\ IsMap(f.subsets, Pairs(f), {"SUBSET", "SUPERSET"})

(* Storage and property_set_map are inverse to each other, and index 0 is   *)
(* the empty set.                                                           *)
Canonical(f) ==
  /\ get_value(f, EMPTY_SET_VALUE) = {}
  /\ \A i \in Indices(f) : /\ get_value(f, i) \in DOMAIN f.property_set_map
                           /\ index_of(f, get_value(f, i)) = i
  /\ \A s \in DOMAIN f.property_set_map : get_value(f, index_of(f, s)) = s

(* Keys of the symmetric operations' maps are ordered, non-trivial pairs.   *)
Ordered(k) == 0 < k[1] /\ k[1] < k[2]

UnionsSound(f) ==
  \A k \in DOMAIN f.unions :
    /\ Ordered(k)
    /\ get_value(f, f.unions[k]) = get_value(f, k[1]) \cup get_value(f, k[2])

IntersectionsSound(f) ==
  \A k \in DOMAIN f.intersections :
    /\ Ordered(k)
    /\ get_value(f, f.intersections[k])
         = get_value(f, k[1]) \cap get_value(f, k[2])

DifferencesSound(f) ==
  \A k \in DOMAIN f.differences :
    /\ k[1] # 0 /\ k[2] # 0 /\ k[1] # k[2]
    /\ get_value(f, f.differences[k]) = get_value(f, k[1]) \ get_value(f, k[2])

SubsetsSound(f) ==
  \A k \in DOMAIN f.subsets :
    /\ k[1] < k[2]
    /\ f.subsets[k] = "SUBSET" => get_value(f, k[1]) \subseteq get_value(f, k[2])
    /\ f.subsets[k] = "SUPERSET"
         => get_value(f, k[2]) \subseteq get_value(f, k[1])

Sound(f) ==
  /\ UnionsSound(f)
  /\ IntersectionsSound(f)
  /\ DifferencesSound(f)
  /\ SubsetsSound(f)

(* The forest knows that set a is contained in set b.                       *)
Known(f, a, b) ==
  \/ a = b
  \/ is_subset(f, a, b) = "SUBSET"
  \/ is_subset(f, b, a) = "SUPERSET"

(* The indices with which an operation on (a, b) is answered from memory:   *)
(* empty when it would have to be computed.                                 *)
remembered(f, op, a, b) ==
  LET k == <<minimum(a, b), maximum(a, b)>>
      found(m, key) == IF key \in DOMAIN m THEN {m[key]} ELSE {}
      r == is_subset(f, k[1], k[2])
  IN  CASE op = "set_union" ->
             IF a = b \/ is_empty(k[1]) THEN {k[2]}
             ELSE IF r = "SUBSET" THEN {k[2]}
             ELSE IF r = "SUPERSET" THEN {k[1]}
             ELSE found(f.unions, k)
        [] op = "set_intersection" ->
             IF a = b \/ is_empty(k[1]) THEN {k[1]}
             ELSE IF r = "SUBSET" THEN {k[1]}
             ELSE IF r = "SUPERSET" THEN {k[2]}
             ELSE found(f.intersections, k)
        [] op = "set_difference" ->
             IF a = b \/ is_empty(a) THEN {EMPTY_SET_VALUE}
             ELSE IF is_empty(b) THEN {a}
             ELSE found(f.differences, <<a, b>>)

BinaryOps == {"set_union", "set_intersection", "set_difference"}
=============================================================================
