-------------------------- MODULE ForestDataProofs --------------------------
(* Facts about the members of a forest that the sequential and the parallel *)
(* forest share: what a new set, a new containment or a new result does to  *)
(* the types of the members and to the truth of what they remember.         *)
EXTENDS ForestData, TLAPS

(* A new entry of a map keeps the others.                                   *)
LEMMA InsertLemma ==
  ASSUME NEW m, NEW K, NEW V, IsMap(m, K, V), NEW k \in K, NEW v \in V
  PROVE  /\ IsMap(Insert(m, k, v), K, V)
         /\ DOMAIN Insert(m, k, v) = DOMAIN m \cup {k}
         /\ \A x \in DOMAIN m : Insert(m, k, v)[x] = m[x]
         /\ Insert(m, k, v)[k] = IF k \in DOMAIN m THEN m[k] ELSE v
BY DEF IsMap, Insert

(* g has all the sets of f, under their indices.                            *)
Later(f, g) ==
  /\ Indices(f) \subseteq Indices(g)
  /\ \A i \in Indices(f) : get_value(g, i) = get_value(f, i)

(* f is well formed, remembers no falsehood, and index 0 is the empty set.  *)
Trusted(f) ==
  /\ ForestType(f)
  /\ Sound(f)
  /\ get_value(f, EMPTY_SET_VALUE) = {}
  /\ \A s \in DOMAIN f.property_set_map : get_value(f, index_of(f, s)) = s

(* The members of f, and nothing else.                                      *)
Members(f) ==
  [property_sets    |-> f.property_sets,
   property_set_map |-> f.property_set_map,
   unions           |-> f.unions,
   intersections    |-> f.intersections,
   differences      |-> f.differences,
   subsets          |-> f.subsets]

LEMMA MembersLemma ==
  ASSUME NEW f, Trusted(f)
  PROVE  f = Members(f)
BY DEF Trusted, ForestType, Members

(* A forest with the sets of a trusted one is trusted if what it looks up   *)
(* and remembers is typed and true.                                         *)
LEMMA SameSetsTrusted ==
  ASSUME NEW f, Trusted(f), NEW g, g.property_sets = f.property_sets,
         g = Members(g),
         IsMap(g.property_set_map, SUBSET Property, Indices(f)),
         IsMap(g.unions, Pairs(f), Indices(f)),
         IsMap(g.intersections, Pairs(f), Indices(f)),
         IsMap(g.differences, Pairs(f), Indices(f)),
         IsMap(g.subsets, Pairs(f), {"SUBSET", "SUPERSET"}),
         Sound(g),
         \A s \in DOMAIN g.property_set_map :
           get_value(f, g.property_set_map[s]) = s
  PROVE  Trusted(g) /\ Later(f, g) /\ Indices(g) = Indices(f)
<1>1. Indices(g) = Indices(f) /\ \A i : get_value(g, i) = get_value(f, i)
  BY DEF Indices, get_value
<1>2. ForestType(g)
  BY <1>1 DEF ForestType, Trusted, Pairs, Members
<1>. QED
  BY <1>1, <1>2 DEF Trusted, Later, index_of

(* Storing a set under the next index changes nothing for the others.       *)
LEMMA PushedLemma ==
  ASSUME NEW f, Trusted(f), NEW s \in SUBSET Property
  PROVE  LET g == [f EXCEPT !.property_sets = Append(@, s)]
             n == Len(f.property_sets)
         IN  /\ Trusted(g)
             /\ Later(f, g)
             /\ Indices(g) = Indices(f) \cup {n}
             /\ get_value(g, n) = s
             /\ g.property_set_map = f.property_set_map
<1> DEFINE g == [f EXCEPT !.property_sets = Append(f.property_sets, s)]
           n == Len(f.property_sets)
<1>1. /\ g.property_sets = Append(f.property_sets, s)
      /\ g.property_set_map = f.property_set_map
      /\ g.unions = f.unions
      /\ g.intersections = f.intersections
      /\ g.differences = f.differences
      /\ g.subsets = f.subsets
      /\ g = Members(g)
  BY MembersLemma DEF Members
<1>2. f.property_sets \in Seq(SUBSET Property) /\ n \in Nat /\ n > 0
  BY DEF Trusted, ForestType
<1>3. /\ g.property_sets \in Seq(SUBSET Property)
      /\ Len(g.property_sets) = n + 1
      /\ \A i \in 1 .. n : g.property_sets[i] = f.property_sets[i]
      /\ g.property_sets[n + 1] = s
  BY <1>1, <1>2
<1>4. /\ Indices(g) = Indices(f) \cup {n}
      /\ 0 \in Indices(f)
      /\ Indices(f) = 0 .. n - 1
  BY <1>2, <1>3 DEF Indices
<1>5. /\ \A i \in Indices(f) : get_value(g, i) = get_value(f, i)
      /\ get_value(g, n) = s
  BY <1>2, <1>3, <1>4 DEF get_value
<1>6. Pairs(f) \subseteq Pairs(g)
  BY <1>4 DEF Pairs
<1>7. \A m, K : IsMap(m, K, Indices(f)) => IsMap(m, K, Indices(g))
  BY <1>4 DEF IsMap
<1>8. \A m, V : IsMap(m, Pairs(f), V) => IsMap(m, Pairs(g), V)
  BY <1>6 DEF IsMap
<1>9. ForestType(g)
  <2>1. /\ IsMap(f.property_set_map, SUBSET Property, Indices(f))
        /\ IsMap(f.unions, Pairs(f), Indices(f))
        /\ IsMap(f.intersections, Pairs(f), Indices(f))
        /\ IsMap(f.differences, Pairs(f), Indices(f))
        /\ IsMap(f.subsets, Pairs(f), {"SUBSET", "SUPERSET"})
    BY DEF Trusted, ForestType
  <2>2. /\ IsMap(f.property_set_map, SUBSET Property, Indices(g))
        /\ IsMap(f.unions, Pairs(f), Indices(g))
        /\ IsMap(f.intersections, Pairs(f), Indices(g))
        /\ IsMap(f.differences, Pairs(f), Indices(g))
    BY <2>1, <1>7
  <2>3. /\ IsMap(f.unions, Pairs(g), Indices(g))
        /\ IsMap(f.intersections, Pairs(g), Indices(g))
        /\ IsMap(f.differences, Pairs(g), Indices(g))
        /\ IsMap(f.subsets, Pairs(g), {"SUBSET", "SUPERSET"})
    BY <2>1, <2>2, <1>8
  <2>. QED
    BY <2>2, <2>3, <1>1, <1>2, <1>3 DEF ForestType, Members
<1>10. Sound(g)
  <2>1. ASSUME NEW k \in Pairs(f)
        PROVE  /\ get_value(g, k[1]) = get_value(f, k[1])
               /\ get_value(g, k[2]) = get_value(f, k[2])
    BY <1>5 DEF Pairs
  <2>2. UnionsSound(g)
    BY <2>1, <1>1, <1>5 DEF Trusted, ForestType, IsMap, Sound, UnionsSound
  <2>3. IntersectionsSound(g)
    BY <2>1, <1>1, <1>5
       DEF Trusted, ForestType, IsMap, Sound, IntersectionsSound
  <2>4. DifferencesSound(g)
    BY <2>1, <1>1, <1>5 DEF Trusted, ForestType, IsMap, Sound, DifferencesSound
  <2>5. SubsetsSound(g)
    BY <2>1, <1>1, <1>5 DEF Trusted, ForestType, IsMap, Sound, SubsetsSound
  <2>. QED
    BY <2>2, <2>3, <2>4, <2>5 DEF Sound
<1>11. /\ get_value(g, EMPTY_SET_VALUE) = {}
       /\ \A x \in DOMAIN g.property_set_map : get_value(g, index_of(g, x)) = x
  BY <1>1, <1>4, <1>5
     DEF Trusted, ForestType, IsMap, index_of, EMPTY_SET_VALUE
<1>. QED
  BY <1>1, <1>4, <1>5, <1>9, <1>10, <1>11 DEF Trusted, Later

(* Entering a stored set into property_set_map, whoever entered it before.  *)
LEMMA EnteredLemma ==
  ASSUME NEW f, Trusted(f), NEW s \in SUBSET Property, NEW r \in Indices(f),
         get_value(f, r) = s
  PROVE  LET g == [f EXCEPT !.property_set_map = Insert(@, s, r)]
         IN  /\ Trusted(g)
             /\ Later(f, g)
             /\ Indices(g) = Indices(f)
             /\ DOMAIN g.property_set_map = DOMAIN f.property_set_map \cup {s}
<1> DEFINE m == Insert(f.property_set_map, s, r)
           g == [f EXCEPT !.property_set_map = m]
<1>1. g = [property_sets |-> f.property_sets, property_set_map |-> m,
           unions |-> f.unions, intersections |-> f.intersections,
           differences |-> f.differences, subsets |-> f.subsets]
  BY MembersLemma DEF Members
<1>2. IsMap(f.property_set_map, SUBSET Property, Indices(f))
  BY DEF Trusted, ForestType
<1>3. /\ IsMap(m, SUBSET Property, Indices(f))
      /\ DOMAIN m = DOMAIN f.property_set_map \cup {s}
      /\ \A x \in DOMAIN f.property_set_map : m[x] = f.property_set_map[x]
      /\ s \notin DOMAIN f.property_set_map => m[s] = r
  BY <1>2 DEF IsMap, Insert
<1>4. \A x \in DOMAIN m : get_value(f, m[x]) = x
  BY <1>3 DEF Trusted, index_of
<1>5. Sound(g)
  BY <1>1 DEF Trusted, Sound, UnionsSound, IntersectionsSound, DifferencesSound,
              SubsetsSound, get_value
<1>6. g = Members(g) /\ g.property_sets = f.property_sets
  BY <1>1 DEF Members
<1>7. /\ IsMap(g.unions, Pairs(f), Indices(f))
      /\ IsMap(g.intersections, Pairs(f), Indices(f))
      /\ IsMap(g.differences, Pairs(f), Indices(f))
      /\ IsMap(g.subsets, Pairs(f), {"SUBSET", "SUPERSET"})
  BY <1>1 DEF Trusted, ForestType
<1>8. g.property_set_map = m
  BY <1>1
<1>9. /\ IsMap(g.property_set_map, SUBSET Property, Indices(f))
      /\ \A x \in DOMAIN g.property_set_map :
           get_value(f, g.property_set_map[x]) = x
  BY <1>3, <1>4, <1>8
<1>10. Trusted(g) /\ Later(f, g) /\ Indices(g) = Indices(f)
  BY <1>5, <1>6, <1>7, <1>9, SameSetsTrusted
<1>. QED
  BY <1>3, <1>8, <1>10

(* Recording a true containment ...                                         *)
LEMMA ContainedLemma ==
  ASSUME NEW f, Trusted(f), NEW a \in Indices(f), NEW b \in Indices(f),
         a # b, get_value(f, a) \subseteq get_value(f, b)
  PROVE  LET g == store_subset(f, a, b)
         IN  /\ Trusted(g)
             /\ Later(f, g)
             /\ Indices(g) = Indices(f)
             /\ g.property_set_map = f.property_set_map
<1> DEFINE k == IF a > b THEN <<b, a>> ELSE <<a, b>>
           v == IF a > b THEN "SUPERSET" ELSE "SUBSET"
           m == Insert(f.subsets, k, v)
           g == [f EXCEPT !.subsets = m]
<1>1. store_subset(f, a, b) = g
  BY DEF store_subset
<1>2. g = [property_sets |-> f.property_sets,
           property_set_map |-> f.property_set_map,
           unions |-> f.unions, intersections |-> f.intersections,
           differences |-> f.differences, subsets |-> m]
  BY MembersLemma DEF Members
<1>3. /\ a \in Nat /\ b \in Nat
      /\ k \in Pairs(f) /\ v \in {"SUBSET", "SUPERSET"}
      /\ IsMap(f.subsets, Pairs(f), {"SUBSET", "SUPERSET"})
  BY DEF Pairs, Indices, Trusted, ForestType
<1>4. /\ IsMap(m, Pairs(f), {"SUBSET", "SUPERSET"})
      /\ DOMAIN m = DOMAIN f.subsets \cup {k}
      /\ \A x \in DOMAIN f.subsets : m[x] = f.subsets[x]
      /\ k \notin DOMAIN f.subsets => m[k] = v
  BY <1>3, InsertLemma
<1>5. SubsetsSound(g)
  <2>1. ASSUME NEW x \in DOMAIN m
        PROVE  /\ x[1] < x[2]
               /\ m[x] = "SUBSET"
                    => get_value(f, x[1]) \subseteq get_value(f, x[2])
               /\ m[x] = "SUPERSET"
                    => get_value(f, x[2]) \subseteq get_value(f, x[1])
    <3>1. CASE x \in DOMAIN f.subsets
      BY <3>1, <1>4 DEF Trusted, Sound, SubsetsSound
    <3>2. CASE x = k /\ k \notin DOMAIN f.subsets
      BY <3>2, <1>3, <1>4
    <3>. QED
      BY <3>1, <3>2, <1>4
  <2>. QED
    BY <2>1, <1>2 DEF SubsetsSound, get_value
<1>6. Sound(g)
  BY <1>2, <1>5
     DEF Trusted, Sound, UnionsSound, IntersectionsSound, DifferencesSound,
         get_value
<1>7. g = Members(g) /\ g.property_sets = f.property_sets
  BY <1>2 DEF Members
<1>8. /\ IsMap(g.property_set_map, SUBSET Property, Indices(f))
      /\ IsMap(g.unions, Pairs(f), Indices(f))
      /\ IsMap(g.intersections, Pairs(f), Indices(f))
      /\ IsMap(g.differences, Pairs(f), Indices(f))
  BY <1>2 DEF Trusted, ForestType
<1>9. /\ g.property_set_map = f.property_set_map
      /\ \A s \in DOMAIN g.property_set_map :
           get_value(f, g.property_set_map[s]) = s
  BY <1>2 DEF Trusted, index_of
<1>10. IsMap(g.subsets, Pairs(f), {"SUBSET", "SUPERSET"})
  BY <1>2, <1>4
<1>11. Trusted(g) /\ Later(f, g) /\ Indices(g) = Indices(f)
  BY <1>6, <1>7, <1>8, <1>9, <1>10, SameSetsTrusted
<1>. QED
  BY <1>1, <1>9, <1>11

(* ... a true union ...                                                     *)
LEMMA UnitedLemma ==
  ASSUME NEW f, Trusted(f), NEW k \in Pairs(f), NEW r \in Indices(f),
         Ordered(k),
         get_value(f, r) = get_value(f, k[1]) \cup get_value(f, k[2])
  PROVE  LET g == [f EXCEPT !.unions = Insert(@, k, r)]
         IN  /\ Trusted(g)
             /\ Later(f, g)
             /\ Indices(g) = Indices(f)
             /\ g.property_set_map = f.property_set_map
<1> DEFINE m == Insert(f.unions, k, r)
           g == [f EXCEPT !.unions = m]
<1>1. g = [property_sets |-> f.property_sets,
           property_set_map |-> f.property_set_map,
           unions |-> m, intersections |-> f.intersections,
           differences |-> f.differences, subsets |-> f.subsets]
  BY MembersLemma DEF Members
<1>2. IsMap(f.unions, Pairs(f), Indices(f))
  BY DEF Trusted, ForestType
<1>3. /\ IsMap(m, Pairs(f), Indices(f))
      /\ DOMAIN m = DOMAIN f.unions \cup {k}
      /\ \A x \in DOMAIN f.unions : m[x] = f.unions[x]
      /\ k \notin DOMAIN f.unions => m[k] = r
  BY <1>2, InsertLemma
<1>4. UnionsSound(g)
  BY <1>1, <1>3 DEF Trusted, Sound, UnionsSound, get_value
<1>5. Sound(g)
  BY <1>1, <1>4
     DEF Trusted, Sound, SubsetsSound, IntersectionsSound, DifferencesSound,
         get_value
<1>6. g = Members(g) /\ g.property_sets = f.property_sets
  BY <1>1 DEF Members
<1>7. /\ IsMap(g.property_set_map, SUBSET Property, Indices(f))
      /\ IsMap(g.intersections, Pairs(f), Indices(f))
      /\ IsMap(g.differences, Pairs(f), Indices(f))
      /\ IsMap(g.subsets, Pairs(f), {"SUBSET", "SUPERSET"})
  BY <1>1 DEF Trusted, ForestType
<1>8. /\ g.property_set_map = f.property_set_map
      /\ \A s \in DOMAIN g.property_set_map :
           get_value(f, g.property_set_map[s]) = s
  BY <1>1 DEF Trusted, index_of
<1>. QED
  BY <1>1, <1>3, <1>5, <1>6, <1>7, <1>8, SameSetsTrusted

(* ... a true intersection ...                                              *)
LEMMA MetLemma ==
  ASSUME NEW f, Trusted(f), NEW k \in Pairs(f), NEW r \in Indices(f),
         Ordered(k),
         get_value(f, r) = get_value(f, k[1]) \cap get_value(f, k[2])
  PROVE  LET g == [f EXCEPT !.intersections = Insert(@, k, r)]
         IN  /\ Trusted(g)
             /\ Later(f, g)
             /\ Indices(g) = Indices(f)
             /\ g.property_set_map = f.property_set_map
<1> DEFINE m == Insert(f.intersections, k, r)
           g == [f EXCEPT !.intersections = m]
<1>1. g = [property_sets |-> f.property_sets,
           property_set_map |-> f.property_set_map,
           unions |-> f.unions, intersections |-> m,
           differences |-> f.differences, subsets |-> f.subsets]
  BY MembersLemma DEF Members
<1>2. IsMap(f.intersections, Pairs(f), Indices(f))
  BY DEF Trusted, ForestType
<1>3. /\ IsMap(m, Pairs(f), Indices(f))
      /\ DOMAIN m = DOMAIN f.intersections \cup {k}
      /\ \A x \in DOMAIN f.intersections : m[x] = f.intersections[x]
      /\ k \notin DOMAIN f.intersections => m[k] = r
  BY <1>2, InsertLemma
<1>4. IntersectionsSound(g)
  BY <1>1, <1>3 DEF Trusted, Sound, IntersectionsSound, get_value
<1>5. Sound(g)
  BY <1>1, <1>4
     DEF Trusted, Sound, SubsetsSound, UnionsSound, DifferencesSound, get_value
<1>6. g = Members(g) /\ g.property_sets = f.property_sets
  BY <1>1 DEF Members
<1>7. /\ IsMap(g.property_set_map, SUBSET Property, Indices(f))
      /\ IsMap(g.unions, Pairs(f), Indices(f))
      /\ IsMap(g.differences, Pairs(f), Indices(f))
      /\ IsMap(g.subsets, Pairs(f), {"SUBSET", "SUPERSET"})
  BY <1>1 DEF Trusted, ForestType
<1>8. /\ g.property_set_map = f.property_set_map
      /\ \A s \in DOMAIN g.property_set_map :
           get_value(f, g.property_set_map[s]) = s
  BY <1>1 DEF Trusted, index_of
<1>. QED
  BY <1>1, <1>3, <1>5, <1>6, <1>7, <1>8, SameSetsTrusted

(* ... or a true difference is harmless.                                    *)
LEMMA SubtractedLemma ==
  ASSUME NEW f, Trusted(f), NEW k \in Pairs(f), NEW r \in Indices(f),
         k[1] # 0, k[2] # 0, k[1] # k[2],
         get_value(f, r) = get_value(f, k[1]) \ get_value(f, k[2])
  PROVE  LET g == [f EXCEPT !.differences = Insert(@, k, r)]
         IN  /\ Trusted(g)
             /\ Later(f, g)
             /\ Indices(g) = Indices(f)
             /\ g.property_set_map = f.property_set_map
<1> DEFINE m == Insert(f.differences, k, r)
           g == [f EXCEPT !.differences = m]
<1>1. g = [property_sets |-> f.property_sets,
           property_set_map |-> f.property_set_map,
           unions |-> f.unions, intersections |-> f.intersections,
           differences |-> m, subsets |-> f.subsets]
  BY MembersLemma DEF Members
<1>2. IsMap(f.differences, Pairs(f), Indices(f))
  BY DEF Trusted, ForestType
<1>3. /\ IsMap(m, Pairs(f), Indices(f))
      /\ DOMAIN m = DOMAIN f.differences \cup {k}
      /\ \A x \in DOMAIN f.differences : m[x] = f.differences[x]
      /\ k \notin DOMAIN f.differences => m[k] = r
  BY <1>2, InsertLemma
<1>4. DifferencesSound(g)
  BY <1>1, <1>3 DEF Trusted, Sound, DifferencesSound, get_value
<1>5. Sound(g)
  BY <1>1, <1>4
     DEF Trusted, Sound, SubsetsSound, UnionsSound, IntersectionsSound,
         get_value
<1>6. g = Members(g) /\ g.property_sets = f.property_sets
  BY <1>1 DEF Members
<1>7. /\ IsMap(g.property_set_map, SUBSET Property, Indices(f))
      /\ IsMap(g.unions, Pairs(f), Indices(f))
      /\ IsMap(g.intersections, Pairs(f), Indices(f))
      /\ IsMap(g.subsets, Pairs(f), {"SUBSET", "SUPERSET"})
  BY <1>1 DEF Trusted, ForestType
<1>8. /\ g.property_set_map = f.property_set_map
      /\ \A s \in DOMAIN g.property_set_map :
           get_value(f, g.property_set_map[s]) = s
  BY <1>1 DEF Trusted, index_of
<1>. QED
  BY <1>1, <1>3, <1>5, <1>6, <1>7, <1>8, SameSetsTrusted

-----------------------------------------------------------------------------
(* What a forest remembers *)

(* Map n has all the entries of map m.                                      *)
Kept(m, n) ==
  /\ DOMAIN m \subseteq DOMAIN n
  /\ \A k \in DOMAIN m : n[k] = m[k]

(* g remembers all that f remembers.                                        *)
Remembers(f, g) ==
  /\ Kept(f.unions, g.unions)
  /\ Kept(f.intersections, g.intersections)
  /\ Kept(f.differences, g.differences)
  /\ Kept(f.subsets, g.subsets)

(* Insertion loses no entry.                                                *)
LEMMA InsertKeeps ==
  ASSUME NEW m, NEW k, NEW v
  PROVE  Kept(m, Insert(m, k, v)) /\ k \in DOMAIN Insert(m, k, v)
BY DEF Kept, Insert

(* Memory outlives any number of operations.                                *)
LEMMA RemembersTransitive ==
  ASSUME NEW f, NEW g, NEW h, Remembers(f, g), Remembers(g, h)
  PROVE  Remembers(f, h)
BY DEF Remembers, Kept

(* An operation that is answered from memory always will be.                *)
LEMMA RememberedKept ==
  ASSUME NEW f, NEW g, Trusted(f), Remembers(f, g),
         NEW op \in BinaryOps, NEW a, NEW b, remembered(f, op, a, b) # {}
  PROVE  remembered(g, op, a, b) # {}
<1> DEFINE k == <<minimum(a, b), maximum(a, b)>>
<1>1. k \in DOMAIN f.subsets => f.subsets[k] \in {"SUBSET", "SUPERSET"}
  BY DEF Trusted, ForestType, IsMap
<1>2. is_subset(f, k[1], k[2]) # "UNKNOWN"
        => is_subset(g, k[1], k[2]) = is_subset(f, k[1], k[2])
  BY <1>1 DEF is_subset, Remembers, Kept
<1>3. is_subset(f, k[1], k[2]) \in {"SUBSET", "SUPERSET", "UNKNOWN"}
  BY <1>1 DEF is_subset
<1>4. CASE op = "set_union"
  <2>1. k \in DOMAIN f.unions => k \in DOMAIN g.unions
    BY DEF Remembers, Kept
  <2>. QED
    BY <1>2, <1>3, <1>4, <2>1 DEF remembered
<1>5. CASE op = "set_intersection"
  <2>1. k \in DOMAIN f.intersections => k \in DOMAIN g.intersections
    BY DEF Remembers, Kept
  <2>. QED
    BY <1>2, <1>3, <1>5, <2>1 DEF remembered
<1>6. CASE op = "set_difference"
  <2>1. <<a, b>> \in DOMAIN f.differences => <<a, b>> \in DOMAIN g.differences
    BY DEF Remembers, Kept
  <2>. QED
    BY <1>6, <2>1 DEF remembered
<1>. QED
  BY <1>4, <1>5, <1>6 DEF BinaryOps

(* The answer from memory, if there is one, is the index of the right set.  *)
LEMMA RememberedTrue ==
  ASSUME NEW f, Trusted(f), NEW op \in BinaryOps,
         NEW a \in Indices(f), NEW b \in Indices(f),
         NEW r \in remembered(f, op, a, b)
  PROVE  /\ remembered(f, op, a, b) = {r}
         /\ r \in Indices(f)
         /\ op = "set_union" =>
              get_value(f, r) = get_value(f, a) \cup get_value(f, b)
         /\ op = "set_intersection" =>
              get_value(f, r) = get_value(f, a) \cap get_value(f, b)
         /\ op = "set_difference" =>
              get_value(f, r) = get_value(f, a) \ get_value(f, b)
<1> DEFINE x == minimum(a, b)
           y == maximum(a, b)
           k == <<x, y>>
           s == is_subset(f, x, y)
<1>1. /\ a \in Nat /\ b \in Nat
      /\ x \in Indices(f) /\ y \in Indices(f)
      /\ \/ x = a /\ y = b
         \/ x = b /\ y = a
  <2>1. a \in Nat /\ b \in Nat
    BY DEF Indices
  <2>2. \/ x = a /\ y = b
        \/ x = b /\ y = a
    BY <2>1 DEF minimum, maximum
  <2>. QED
    BY <2>1, <2>2
<1>2. 0 \in Indices(f) /\ get_value(f, 0) = {}
  BY DEF Trusted, ForestType, Indices, EMPTY_SET_VALUE
<1>3. /\ s \in {"SUBSET", "SUPERSET", "UNKNOWN"}
      /\ s = "SUBSET" => get_value(f, x) \subseteq get_value(f, y)
      /\ s = "SUPERSET" => get_value(f, y) \subseteq get_value(f, x)
  <2>1. CASE k \in DOMAIN f.subsets
    BY <2>1 DEF Trusted, ForestType, IsMap, Sound, SubsetsSound, is_subset
  <2>2. CASE k \notin DOMAIN f.subsets
    BY <2>2 DEF is_subset
  <2>. QED
    BY <2>1, <2>2
<1>4. CASE op = "set_union"
  <2>1. k \in DOMAIN f.unions =>
          /\ f.unions[k] \in Indices(f)
          /\ get_value(f, f.unions[k]) = get_value(f, x) \cup get_value(f, y)
    BY DEF Trusted, ForestType, IsMap, Sound, UnionsSound
  <2>2. a = b => x = y
    BY <1>1
  <2>. HIDE DEF x, y, s
  <2>3. remembered(f, op, a, b)
          = IF a = b \/ x = 0 THEN {y}
            ELSE IF s = "SUBSET" THEN {y}
            ELSE IF s = "SUPERSET" THEN {x}
            ELSE IF k \in DOMAIN f.unions THEN {f.unions[k]} ELSE {}
    BY <1>4 DEF remembered, is_empty, EMPTY_SET_VALUE, x, y, s
  <2>. QED
    BY <1>1, <1>2, <1>3, <1>4, <2>1, <2>2, <2>3
<1>5. CASE op = "set_intersection"
  <2>1. k \in DOMAIN f.intersections =>
          /\ f.intersections[k] \in Indices(f)
          /\ get_value(f, f.intersections[k])
               = get_value(f, x) \cap get_value(f, y)
    BY DEF Trusted, ForestType, IsMap, Sound, IntersectionsSound
  <2>2. a = b => x = y
    BY <1>1
  <2>. HIDE DEF x, y, s
  <2>3. remembered(f, op, a, b)
          = IF a = b \/ x = 0 THEN {x}
            ELSE IF s = "SUBSET" THEN {x}
            ELSE IF s = "SUPERSET" THEN {y}
            ELSE IF k \in DOMAIN f.intersections
                   THEN {f.intersections[k]} ELSE {}
    BY <1>5 DEF remembered, is_empty, EMPTY_SET_VALUE, x, y, s
  <2>. QED
    BY <1>1, <1>2, <1>3, <1>5, <2>1, <2>2, <2>3
<1>6. CASE op = "set_difference"
  <2>1. <<a, b>> \in DOMAIN f.differences =>
          /\ f.differences[<<a, b>>] \in Indices(f)
          /\ get_value(f, f.differences[<<a, b>>])
               = get_value(f, a) \ get_value(f, b)
    BY DEF Trusted, ForestType, IsMap, Sound, DifferencesSound
  <2>2. remembered(f, op, a, b)
          = IF a = b \/ a = 0 THEN {0}
            ELSE IF b = 0 THEN {a}
            ELSE IF <<a, b>> \in DOMAIN f.differences
                   THEN {f.differences[<<a, b>>]} ELSE {}
    BY <1>6 DEF remembered, is_empty, EMPTY_SET_VALUE
  <2>. QED
    BY <1>2, <1>6, <2>1, <2>2
<1>. QED
  BY <1>4, <1>5, <1>6 DEF BinaryOps

(* store_subset loses nothing.                                              *)
LEMMA StoreSubsetRemembers ==
  ASSUME NEW f, Trusted(f), NEW a, NEW b
  PROVE  Remembers(f, store_subset(f, a, b))
<1> DEFINE g == store_subset(f, a, b)
<1>1. /\ g.unions = f.unions
      /\ g.intersections = f.intersections
      /\ g.differences = f.differences
      /\ \E k, v : g.subsets = Insert(f.subsets, k, v)
  BY DEF store_subset, Trusted, ForestType
<1>. HIDE DEF g
<1>2. Kept(f.subsets, g.subsets)
  BY <1>1, InsertKeeps
<1>. QED
  BY <1>1, <1>2 DEF Remembers, Kept, g

-----------------------------------------------------------------------------
(* A forest that gives every set one index *)

(* What holds of the members of a forest that one thread uses.              *)
ForestInv(f) == ForestType(f) /\ Canonical(f) /\ Sound(f)

(* A fresh forest is well formed, and remembers nothing false.              *)
LEMMA FreshLemma == ForestInv(FreshForest)
<1> DEFINE f == FreshForest
<1>1. /\ f.property_sets = <<{}>>
      /\ f.property_set_map = [s \in {{}} |-> 0]
      /\ f.unions = NoEntries
      /\ f.intersections = NoEntries
      /\ f.differences = NoEntries
      /\ f.subsets = NoEntries
      /\ f = Members(f)
  BY DEF FreshForest, EMPTY_SET_VALUE, Members
<1>. HIDE DEF f
<1>2. /\ Indices(f) = {0} /\ get_value(f, 0) = {}
      /\ Len(f.property_sets) = 1
      /\ f.property_sets \in Seq(SUBSET Property)
  BY <1>1 DEF Indices, get_value
<1>3. \A K, V : IsMap(NoEntries, K, V)
  BY DEF IsMap, NoEntries
<1>4. IsMap(f.property_set_map, SUBSET Property, Indices(f))
  BY <1>1, <1>2 DEF IsMap
<1>5. ForestType(f)
  BY <1>1, <1>2, <1>3, <1>4 DEF ForestType, Members
<1>6. Canonical(f)
  BY <1>1, <1>2 DEF Canonical, index_of, EMPTY_SET_VALUE
<1>7. Sound(f)
  BY <1>1 DEF Sound, UnionsSound, IntersectionsSound, DifferencesSound,
              SubsetsSound, NoEntries
<1>. QED
  BY <1>5, <1>6, <1>7 DEF ForestInv, f

(* g has the sets of f under their indices, and besides only sets of        *)
(* `allowed`.                                                               *)
Grows(f, g, allowed) ==
  LET old == f.property_sets
      new == g.property_sets
  IN  /\ Len(old) <= Len(new)
      /\ \A i \in 1 .. Len(old) : new[i] = old[i]
      /\ \A i \in Len(old) + 1 .. Len(new) : new[i] \in allowed

-----------------------------------------------------------------------------
(* Registration *)

(* register_set keeps all that is stored and remembered, and returns the    *)
(* index of the set it was given.                                           *)
LEMMA RegistrationLemma ==
  ASSUME NEW f, ForestInv(f), NEW s \in SUBSET Property
  PROVE  LET g == registered(f, s)
         IN  /\ ForestInv(g)
             /\ Grows(f, g, {s})
             /\ Indices(f) \subseteq Indices(g)
             /\ \A i \in Indices(f) : get_value(g, i) = get_value(f, i)
             /\ index_of(g, s) \in Indices(g)
             /\ get_value(g, index_of(g, s)) = s
<1> DEFINE g == registered(f, s)
           n == Len(f.property_sets)
<1>1. CASE s \in DOMAIN f.property_set_map
  <2>1. g = f
    BY <1>1 DEF registered
  <2>2. index_of(f, s) \in Indices(f) /\ get_value(f, index_of(f, s)) = s
    BY <1>1 DEF ForestInv, ForestType, IsMap, Canonical, index_of
  <2>3. Grows(f, f, {s})
    BY DEF Grows, ForestInv, ForestType
  <2>. QED
    BY <2>1, <2>2, <2>3
<1>2. CASE s \notin DOMAIN f.property_set_map
  <2>1. /\ g.property_sets = Append(f.property_sets, s)
        /\ g.property_set_map = Insert(f.property_set_map, s, n)
        /\ g.unions = f.unions
        /\ g.intersections = f.intersections
        /\ g.differences = f.differences
        /\ g.subsets = f.subsets
        /\ g = [property_sets    |-> g.property_sets,
                property_set_map |-> g.property_set_map,
                unions           |-> g.unions,
                intersections    |-> g.intersections,
                differences      |-> g.differences,
                subsets          |-> g.subsets]
    BY <1>2 DEF registered, ForestInv, ForestType
  <2>2. /\ f.property_sets \in Seq(SUBSET Property)
        /\ n \in Nat /\ n > 0
    BY DEF ForestInv, ForestType
  <2>3. /\ g.property_sets \in Seq(SUBSET Property)
        /\ Len(g.property_sets) = n + 1
        /\ \A i \in 1 .. n : g.property_sets[i] = f.property_sets[i]
        /\ g.property_sets[n + 1] = s
    BY <2>1, <2>2
  <2>4. /\ Indices(f) = 0 .. n - 1
        /\ Indices(g) = 0 .. n
        /\ Indices(f) \subseteq Indices(g)
    BY <2>2, <2>3 DEF Indices
  <2>5. /\ \A i \in Indices(f) : get_value(g, i) = get_value(f, i)
        /\ get_value(g, n) = s
    BY <2>2, <2>3, <2>4 DEF get_value
  <2>6. /\ DOMAIN g.property_set_map = DOMAIN f.property_set_map \cup {s}
        /\ g.property_set_map[s] = n
        /\ \A x \in DOMAIN f.property_set_map :
             g.property_set_map[x] = f.property_set_map[x]
        /\ g.property_set_map
             = [x \in DOMAIN g.property_set_map |-> g.property_set_map[x]]
    BY <1>2, <2>1 DEF Insert
  <2>7. ForestType(g)
    <3>1. IsMap(g.property_set_map, SUBSET Property, Indices(g))
      BY <2>2, <2>4, <2>6 DEF ForestInv, ForestType, IsMap
    <3>2. Pairs(f) \subseteq Pairs(g)
      BY <2>4 DEF Pairs
    <3>3. \A m : IsMap(m, Pairs(f), Indices(f)) => IsMap(m, Pairs(g), Indices(g))
      BY <3>2, <2>4 DEF IsMap
    <3>4. IsMap(g.subsets, Pairs(g), {"SUBSET", "SUPERSET"})
      BY <3>2, <2>1 DEF IsMap, ForestInv, ForestType
    <3>5. /\ IsMap(g.unions, Pairs(g), Indices(g))
          /\ IsMap(g.intersections, Pairs(g), Indices(g))
          /\ IsMap(g.differences, Pairs(g), Indices(g))
      BY <3>3, <2>1 DEF ForestInv, ForestType
    <3>. QED
      BY <3>1, <3>4, <3>5, <2>1, <2>2, <2>3 DEF ForestType
  <2>8. Canonical(g)
    <3>1. get_value(g, EMPTY_SET_VALUE) = {}
      BY <2>2, <2>4, <2>5 DEF ForestInv, Canonical, EMPTY_SET_VALUE
    <3>2. ASSUME NEW i \in Indices(g)
          PROVE  /\ get_value(g, i) \in DOMAIN g.property_set_map
                 /\ index_of(g, get_value(g, i)) = i
      <4>1. CASE i \in Indices(f)
        BY <4>1, <2>5, <2>6 DEF ForestInv, Canonical, index_of
      <4>2. CASE i = n
        BY <4>2, <2>5, <2>6 DEF index_of
      <4>. QED
        BY <4>1, <4>2, <2>2, <2>4
    <3>3. ASSUME NEW x \in DOMAIN g.property_set_map
          PROVE  get_value(g, index_of(g, x)) = x
      <4>1. CASE x \in DOMAIN f.property_set_map
        BY <4>1, <2>5, <2>6
           DEF ForestInv, ForestType, IsMap, Canonical, index_of
      <4>2. CASE x = s
        BY <4>2, <2>5, <2>6 DEF index_of
      <4>. QED
        BY <4>1, <4>2, <2>6
    <3>. QED
      BY <3>1, <3>2, <3>3 DEF Canonical
  <2>9. Sound(g)
    <3>1. ASSUME NEW k \in Pairs(f)
          PROVE  /\ get_value(g, k[1]) = get_value(f, k[1])
                 /\ get_value(g, k[2]) = get_value(f, k[2])
      BY <2>5 DEF Pairs
    <3>2. UnionsSound(g)
      BY <3>1, <2>1, <2>5
         DEF ForestInv, ForestType, IsMap, Sound, UnionsSound
    <3>3. IntersectionsSound(g)
      BY <3>1, <2>1, <2>5
         DEF ForestInv, ForestType, IsMap, Sound, IntersectionsSound
    <3>4. DifferencesSound(g)
      BY <3>1, <2>1, <2>5
         DEF ForestInv, ForestType, IsMap, Sound, DifferencesSound
    <3>5. SubsetsSound(g)
      BY <3>1, <2>1, <2>5
         DEF ForestInv, ForestType, IsMap, Sound, SubsetsSound
    <3>. QED
      BY <3>2, <3>3, <3>4, <3>5 DEF Sound
  <2>10. Grows(f, g, {s})
    BY <2>2, <2>3 DEF Grows
  <2>11. index_of(g, s) = n /\ n \in Indices(g)
    BY <2>2, <2>4, <2>6 DEF index_of
  <2>. QED
    BY <2>4, <2>5, <2>7, <2>8, <2>9, <2>10, <2>11 DEF ForestInv
<1>. QED
  BY <1>1, <1>2

-----------------------------------------------------------------------------
(* What an operation records *)

(* g has the sets of f, and whatever it remembers is true of them.          *)
SameSets(f, g) ==
  /\ g.property_sets = f.property_sets
  /\ ForestInv(g)

(* Recording a true containment is harmless.                                *)
LEMMA StoreSubsetLemma ==
  ASSUME NEW f, ForestInv(f), NEW a \in Indices(f), NEW b \in Indices(f),
         a # b, get_value(f, a) \subseteq get_value(f, b)
  PROVE  SameSets(f, store_subset(f, a, b))
<1> DEFINE g == store_subset(f, a, b)
           k == IF a > b THEN <<b, a>> ELSE <<a, b>>
           v == IF a > b THEN "SUPERSET" ELSE "SUBSET"
<1>1. /\ g.subsets = Insert(f.subsets, k, v)
      /\ g = [f EXCEPT !.subsets = Insert(f.subsets, k, v)]
  BY DEF store_subset, ForestInv, ForestType
<1>2. /\ g.property_sets = f.property_sets
      /\ g.property_set_map = f.property_set_map
      /\ g.unions = f.unions
      /\ g.intersections = f.intersections
      /\ g.differences = f.differences
  BY <1>1 DEF ForestInv, ForestType
<1>3. Indices(g) = Indices(f) /\ \A i : get_value(g, i) = get_value(f, i)
  BY <1>2 DEF Indices, get_value
<1>4. a \in Nat /\ b \in Nat /\ a # b
  BY DEF Indices
<1>5. k \in Pairs(f) /\ v \in {"SUBSET", "SUPERSET"}
  BY DEF Pairs
<1>6. IsMap(f.subsets, Pairs(f), {"SUBSET", "SUPERSET"})
  BY DEF ForestInv, ForestType
<1>7. /\ IsMap(g.subsets, Pairs(f), {"SUBSET", "SUPERSET"})
      /\ DOMAIN g.subsets = DOMAIN f.subsets \cup {k}
      /\ \A x \in DOMAIN f.subsets : g.subsets[x] = f.subsets[x]
      /\ k \notin DOMAIN f.subsets => g.subsets[k] = v
  BY <1>1, <1>5, <1>6, InsertLemma
<1>8. ForestType(g)
  BY <1>1, <1>2, <1>3, <1>7 DEF ForestInv, ForestType, Pairs
<1>9. Canonical(g)
  BY <1>2, <1>3 DEF ForestInv, Canonical, index_of
<1>10. SubsetsSound(g)
  <2>1. ASSUME NEW x \in DOMAIN g.subsets
        PROVE  /\ x[1] < x[2]
               /\ g.subsets[x] = "SUBSET"
                    => get_value(f, x[1]) \subseteq get_value(f, x[2])
               /\ g.subsets[x] = "SUPERSET"
                    => get_value(f, x[2]) \subseteq get_value(f, x[1])
    <3>1. CASE x \in DOMAIN f.subsets
      BY <3>1, <1>7 DEF ForestInv, Sound, SubsetsSound
    <3>2. CASE x = k /\ k \notin DOMAIN f.subsets
      BY <3>2, <1>4, <1>7
    <3>. QED
      BY <3>1, <3>2, <1>7
  <2>. QED
    BY <2>1, <1>3 DEF SubsetsSound
<1>11. Sound(g)
  BY <1>10, <1>2, <1>3
     DEF ForestInv, Sound, UnionsSound, IntersectionsSound, DifferencesSound
<1>. QED
  BY <1>2, <1>8, <1>9, <1>11 DEF SameSets, ForestInv

(* A true union may be recorded ...                                         *)
LEMMA RecordUnionLemma ==
  ASSUME NEW f, ForestInv(f), NEW k \in Pairs(f), NEW r \in Indices(f),
         Ordered(k),
         get_value(f, r) = get_value(f, k[1]) \cup get_value(f, k[2])
  PROVE  SameSets(f, [f EXCEPT !.unions = Insert(@, k, r)])
<1> DEFINE g == [f EXCEPT !.unions = Insert(@, k, r)]
<1>1. /\ g.unions = Insert(f.unions, k, r)
      /\ g.property_sets = f.property_sets
      /\ g.property_set_map = f.property_set_map
      /\ g.intersections = f.intersections
      /\ g.differences = f.differences
      /\ g.subsets = f.subsets
      /\ g = [property_sets    |-> g.property_sets,
              property_set_map |-> g.property_set_map,
              unions           |-> g.unions,
              intersections    |-> g.intersections,
              differences      |-> g.differences,
              subsets          |-> g.subsets]
  <2>1. f = [property_sets    |-> f.property_sets,
             property_set_map |-> f.property_set_map,
             unions           |-> f.unions,
             intersections    |-> f.intersections,
             differences      |-> f.differences,
             subsets          |-> f.subsets]
    BY DEF ForestInv, ForestType
  <2>. QED
    BY <2>1
<1>2. Indices(g) = Indices(f) /\ \A i : get_value(g, i) = get_value(f, i)
  BY <1>1 DEF Indices, get_value
<1>3. /\ IsMap(g.unions, Pairs(f), Indices(f))
      /\ DOMAIN g.unions = DOMAIN f.unions \cup {k}
      /\ \A x \in DOMAIN f.unions : g.unions[x] = f.unions[x]
      /\ k \notin DOMAIN f.unions => g.unions[k] = r
  <2>1. IsMap(f.unions, Pairs(f), Indices(f))
    BY DEF ForestInv, ForestType
  <2>2. /\ IsMap(Insert(f.unions, k, r), Pairs(f), Indices(f))
        /\ DOMAIN Insert(f.unions, k, r) = DOMAIN f.unions \cup {k}
        /\ \A x \in DOMAIN f.unions : Insert(f.unions, k, r)[x] = f.unions[x]
        /\ k \notin DOMAIN f.unions => Insert(f.unions, k, r)[k] = r
    BY <2>1 DEF IsMap, Insert
  <2>. HIDE DEF g
  <2>. QED
    BY <1>1, <2>2
<1>4. ForestType(g)
  BY <1>1, <1>2, <1>3 DEF ForestInv, ForestType, Pairs
<1>5. Canonical(g)
  BY <1>1, <1>2 DEF ForestInv, Canonical, index_of
<1>6. UnionsSound(g)
  BY <1>2, <1>3 DEF ForestInv, Sound, UnionsSound
<1>7. Sound(g)
  <2>1. IntersectionsSound(g)
    BY <1>1, <1>2 DEF ForestInv, Sound, IntersectionsSound
  <2>2. DifferencesSound(g)
    BY <1>1, <1>2 DEF ForestInv, Sound, DifferencesSound
  <2>3. SubsetsSound(g)
    BY <1>1, <1>2 DEF ForestInv, Sound, SubsetsSound
  <2>. QED
    BY <1>6, <2>1, <2>2, <2>3 DEF Sound
<1>. QED
  BY <1>1, <1>4, <1>5, <1>7 DEF SameSets, ForestInv

(* ... and a true intersection ...                                          *)
LEMMA RecordIntersectionLemma ==
  ASSUME NEW f, ForestInv(f), NEW k \in Pairs(f), NEW r \in Indices(f),
         Ordered(k),
         get_value(f, r) = get_value(f, k[1]) \cap get_value(f, k[2])
  PROVE  SameSets(f, [f EXCEPT !.intersections = Insert(@, k, r)])
<1> DEFINE g == [f EXCEPT !.intersections = Insert(@, k, r)]
<1>1. /\ g.intersections = Insert(f.intersections, k, r)
      /\ g.property_sets = f.property_sets
      /\ g.property_set_map = f.property_set_map
      /\ g.unions = f.unions
      /\ g.differences = f.differences
      /\ g.subsets = f.subsets
      /\ g = [property_sets    |-> g.property_sets,
              property_set_map |-> g.property_set_map,
              unions           |-> g.unions,
              intersections    |-> g.intersections,
              differences      |-> g.differences,
              subsets          |-> g.subsets]
  <2>1. f = [property_sets    |-> f.property_sets,
             property_set_map |-> f.property_set_map,
             unions           |-> f.unions,
             intersections    |-> f.intersections,
             differences      |-> f.differences,
             subsets          |-> f.subsets]
    BY DEF ForestInv, ForestType
  <2>. QED
    BY <2>1
<1>2. Indices(g) = Indices(f) /\ \A i : get_value(g, i) = get_value(f, i)
  BY <1>1 DEF Indices, get_value
<1>3. /\ IsMap(g.intersections, Pairs(f), Indices(f))
      /\ DOMAIN g.intersections = DOMAIN f.intersections \cup {k}
      /\ \A x \in DOMAIN f.intersections : g.intersections[x] = f.intersections[x]
      /\ k \notin DOMAIN f.intersections => g.intersections[k] = r
  <2>1. IsMap(f.intersections, Pairs(f), Indices(f))
    BY DEF ForestInv, ForestType
  <2>2. /\ IsMap(Insert(f.intersections, k, r), Pairs(f), Indices(f))
        /\ DOMAIN Insert(f.intersections, k, r) = DOMAIN f.intersections \cup {k}
        /\ \A x \in DOMAIN f.intersections : Insert(f.intersections, k, r)[x] = f.intersections[x]
        /\ k \notin DOMAIN f.intersections => Insert(f.intersections, k, r)[k] = r
    BY <2>1 DEF IsMap, Insert
  <2>. HIDE DEF g
  <2>. QED
    BY <1>1, <2>2
<1>4. ForestType(g)
  BY <1>1, <1>2, <1>3 DEF ForestInv, ForestType, Pairs
<1>5. Canonical(g)
  BY <1>1, <1>2 DEF ForestInv, Canonical, index_of
<1>6. IntersectionsSound(g)
  BY <1>2, <1>3 DEF ForestInv, Sound, IntersectionsSound
<1>7. Sound(g)
  <2>1. UnionsSound(g)
    BY <1>1, <1>2 DEF ForestInv, Sound, UnionsSound
  <2>2. DifferencesSound(g)
    BY <1>1, <1>2 DEF ForestInv, Sound, DifferencesSound
  <2>3. SubsetsSound(g)
    BY <1>1, <1>2 DEF ForestInv, Sound, SubsetsSound
  <2>. QED
    BY <1>6, <2>1, <2>2, <2>3 DEF Sound
<1>. QED
  BY <1>1, <1>4, <1>5, <1>7 DEF SameSets, ForestInv

(* ... and a true difference.                                               *)
LEMMA RecordDifferenceLemma ==
  ASSUME NEW f, ForestInv(f), NEW k \in Pairs(f), NEW r \in Indices(f),
         k[1] # 0, k[2] # 0, k[1] # k[2],
         get_value(f, r) = get_value(f, k[1]) \ get_value(f, k[2])
  PROVE  SameSets(f, [f EXCEPT !.differences = Insert(@, k, r)])
<1> DEFINE g == [f EXCEPT !.differences = Insert(@, k, r)]
<1>1. /\ g.differences = Insert(f.differences, k, r)
      /\ g.property_sets = f.property_sets
      /\ g.property_set_map = f.property_set_map
      /\ g.unions = f.unions
      /\ g.intersections = f.intersections
      /\ g.subsets = f.subsets
      /\ g = [property_sets    |-> g.property_sets,
              property_set_map |-> g.property_set_map,
              unions           |-> g.unions,
              intersections    |-> g.intersections,
              differences      |-> g.differences,
              subsets          |-> g.subsets]
  <2>1. f = [property_sets    |-> f.property_sets,
             property_set_map |-> f.property_set_map,
             unions           |-> f.unions,
             intersections    |-> f.intersections,
             differences      |-> f.differences,
             subsets          |-> f.subsets]
    BY DEF ForestInv, ForestType
  <2>. QED
    BY <2>1
<1>2. Indices(g) = Indices(f) /\ \A i : get_value(g, i) = get_value(f, i)
  BY <1>1 DEF Indices, get_value
<1>3. /\ IsMap(g.differences, Pairs(f), Indices(f))
      /\ DOMAIN g.differences = DOMAIN f.differences \cup {k}
      /\ \A x \in DOMAIN f.differences : g.differences[x] = f.differences[x]
      /\ k \notin DOMAIN f.differences => g.differences[k] = r
  <2>1. IsMap(f.differences, Pairs(f), Indices(f))
    BY DEF ForestInv, ForestType
  <2>2. /\ IsMap(Insert(f.differences, k, r), Pairs(f), Indices(f))
        /\ DOMAIN Insert(f.differences, k, r) = DOMAIN f.differences \cup {k}
        /\ \A x \in DOMAIN f.differences : Insert(f.differences, k, r)[x] = f.differences[x]
        /\ k \notin DOMAIN f.differences => Insert(f.differences, k, r)[k] = r
    BY <2>1 DEF IsMap, Insert
  <2>. HIDE DEF g
  <2>. QED
    BY <1>1, <2>2
<1>4. ForestType(g)
  BY <1>1, <1>2, <1>3 DEF ForestInv, ForestType, Pairs
<1>5. Canonical(g)
  BY <1>1, <1>2 DEF ForestInv, Canonical, index_of
<1>6. DifferencesSound(g)
  BY <1>2, <1>3 DEF ForestInv, Sound, DifferencesSound
<1>7. Sound(g)
  <2>1. UnionsSound(g)
    BY <1>1, <1>2 DEF ForestInv, Sound, UnionsSound
  <2>2. IntersectionsSound(g)
    BY <1>1, <1>2 DEF ForestInv, Sound, IntersectionsSound
  <2>3. SubsetsSound(g)
    BY <1>1, <1>2 DEF ForestInv, Sound, SubsetsSound
  <2>. QED
    BY <1>6, <2>1, <2>2, <2>3 DEF Sound
<1>. QED
  BY <1>1, <1>4, <1>5, <1>7 DEF SameSets, ForestInv

(* Recording several facts one after the other.                             *)
LEMMA SameSetsLemma ==
  ASSUME NEW f, NEW g, SameSets(f, g)
  PROVE  /\ Indices(g) = Indices(f)
         /\ \A i : get_value(g, i) = get_value(f, i)
         /\ \A h : SameSets(g, h) => SameSets(f, h)
BY DEF SameSets, Indices, get_value

LEMMA UnionRecordedLemma ==
  ASSUME NEW f, ForestInv(f), NEW a \in Indices(f), NEW b \in Indices(f),
         0 < a, a < b, NEW r \in Indices(f),
         get_value(f, r) = get_value(f, a) \cup get_value(f, b)
  PROVE  SameSets(f, union_recorded(f, a, b, r))
<1> DEFINE g == [f EXCEPT !.unions = Insert(@, <<a, b>>, r)]
<1>0. a \in Nat /\ b \in Nat /\ r \in Nat
  BY DEF Indices
<1>1. SameSets(f, g)
  BY <1>0, RecordUnionLemma DEF Pairs, Ordered
<1>2. /\ ForestInv(g)
      /\ Indices(g) = Indices(f)
      /\ \A i : get_value(g, i) = get_value(f, i)
  BY <1>1, SameSetsLemma DEF SameSets
<1>. HIDE DEF g
<1>3. CASE r = a
  <2>1. SameSets(g, store_subset(g, b, r))
    BY <1>0, <1>2, <1>3, StoreSubsetLemma
  <2>2. union_recorded(f, a, b, r) = store_subset(g, b, r)
    BY <1>3 DEF union_recorded, g
  <2>. QED
    BY <1>1, <2>1, <2>2, SameSetsLemma
<1>4. CASE r = b
  <2>1. SameSets(g, store_subset(g, a, r))
    BY <1>0, <1>2, <1>4, StoreSubsetLemma
  <2>2. union_recorded(f, a, b, r) = store_subset(g, a, r)
    BY <1>0, <1>4 DEF union_recorded, g
  <2>. QED
    BY <1>1, <2>1, <2>2, SameSetsLemma
<1>5. CASE r # a /\ r # b
  <2> DEFINE h == store_subset(g, a, r)
  <2>1. SameSets(g, h)
    BY <1>0, <1>2, <1>5, StoreSubsetLemma
  <2>2. /\ ForestInv(h)
        /\ Indices(h) = Indices(f)
        /\ \A i : get_value(h, i) = get_value(f, i)
    BY <1>2, <2>1, SameSetsLemma DEF SameSets
  <2>3. union_recorded(f, a, b, r) = store_subset(h, b, r)
    BY <1>5 DEF union_recorded, g
  <2>. HIDE DEF h
  <2>4. SameSets(h, store_subset(h, b, r))
    BY <1>0, <2>2, <1>5, StoreSubsetLemma
  <2>. QED
    BY <1>1, <2>1, <2>3, <2>4, SameSetsLemma
<1>. QED
  BY <1>3, <1>4, <1>5

LEMMA IntersectionRecordedLemma ==
  ASSUME NEW f, ForestInv(f), NEW a \in Indices(f), NEW b \in Indices(f),
         0 < a, a < b, NEW r \in Indices(f),
         get_value(f, r) = get_value(f, a) \cap get_value(f, b)
  PROVE  SameSets(f, intersection_recorded(f, a, b, r))
<1> DEFINE g == [f EXCEPT !.intersections = Insert(@, <<a, b>>, r)]
<1>0. a \in Nat /\ b \in Nat /\ r \in Nat
  BY DEF Indices
<1>1. SameSets(f, g)
  BY <1>0, RecordIntersectionLemma DEF Pairs, Ordered
<1>2. /\ ForestInv(g)
      /\ Indices(g) = Indices(f)
      /\ \A i : get_value(g, i) = get_value(f, i)
  BY <1>1, SameSetsLemma DEF SameSets
<1>. HIDE DEF g
<1>3. CASE r # a
  <2>1. SameSets(g, store_subset(g, r, a))
    BY <1>0, <1>2, <1>3, StoreSubsetLemma
  <2>2. intersection_recorded(f, a, b, r) = store_subset(g, r, a)
    BY <1>3 DEF intersection_recorded, g
  <2>. QED
    BY <1>1, <2>1, <2>2, SameSetsLemma
<1>4. CASE r = a
  <2>1. SameSets(g, store_subset(g, r, b))
    BY <1>0, <1>2, <1>4, StoreSubsetLemma
  <2>2. intersection_recorded(f, a, b, r) = store_subset(g, r, b)
    BY <1>4 DEF intersection_recorded, g
  <2>. QED
    BY <1>1, <2>1, <2>2, SameSetsLemma
<1>. QED
  BY <1>3, <1>4

(* A difference that removes nothing shows that its operands are disjoint,  *)
(* so the empty intersection it writes is true.                             *)
LEMMA DifferenceRecordedLemma ==
  ASSUME NEW f, ForestInv(f), NEW a \in Indices(f), NEW b \in Indices(f),
         a # 0, b # 0, a # b, NEW r \in Indices(f),
         get_value(f, r) = get_value(f, a) \ get_value(f, b)
  PROVE  SameSets(f, difference_recorded(f, a, b, r))
<1> DEFINE g == [f EXCEPT !.differences = Insert(@, <<a, b>>, r)]
           k == <<minimum(a, b), maximum(a, b)>>
           h == [g EXCEPT !.intersections = Insert(@, k, EMPTY_SET_VALUE)]
<1>0. a \in Nat /\ b \in Nat /\ r \in Nat
  BY DEF Indices
<1>1. SameSets(f, g)
  <2>1. <<a, b>> \in Pairs(f)
    BY DEF Pairs
  <2>. QED
    BY <2>1, RecordDifferenceLemma
<1>2. /\ ForestInv(g)
      /\ Indices(g) = Indices(f)
      /\ \A i : get_value(g, i) = get_value(f, i)
  BY <1>1, SameSetsLemma DEF SameSets
<1>. HIDE DEF g
<1>3. CASE r # a
  <2>1. SameSets(g, store_subset(g, r, a))
    BY <1>0, <1>2, <1>3, StoreSubsetLemma
  <2>2. difference_recorded(f, a, b, r) = store_subset(g, r, a)
    BY <1>3 DEF difference_recorded, g
  <2>. QED
    BY <1>1, <2>1, <2>2, SameSetsLemma
<1>4. CASE r = a
  <2>1. k \in Pairs(g) /\ Ordered(k)
    BY <1>0, <1>2 DEF Pairs, Ordered, minimum, maximum
  <2>3. get_value(g, a) \cap get_value(g, b) = {}
    BY <1>2, <1>4
  <2>4. get_value(g, k[1]) \cap get_value(g, k[2]) = {}
    BY <2>3 DEF minimum, maximum
  <2>5. /\ EMPTY_SET_VALUE \in Indices(g)
        /\ get_value(g, EMPTY_SET_VALUE) = {}
    BY <1>2 DEF ForestInv, Canonical, ForestType, Indices, EMPTY_SET_VALUE
  <2>6. SameSets(g, h)
    BY <1>2, <2>1, <2>4, <2>5, RecordIntersectionLemma
  <2>7. difference_recorded(f, a, b, r) = h
    BY <1>4 DEF difference_recorded, g
  <2>. QED
    BY <1>1, <2>6, <2>7, SameSetsLemma
<1>. QED
  BY <1>3, <1>4

(* Sets that are stored are sets of properties.                             *)
LEMMA StoredValueLemma ==
  ASSUME NEW f, ForestInv(f)
  PROVE  /\ \A i \in Indices(f) : get_value(f, i) \in SUBSET Property
         /\ EMPTY_SET_VALUE \in Indices(f)
         /\ get_value(f, EMPTY_SET_VALUE) = {}
         /\ Indices(f) \subseteq Nat
BY DEF ForestInv, ForestType, Canonical, Indices, get_value, EMPTY_SET_VALUE

(* The invariant of the members is all that the shared lemmas ask for.      *)
LEMMA TrustedLemma ==
  ASSUME NEW f, ForestInv(f)
  PROVE  Trusted(f)
<1>1. 0 \in Indices(f) /\ get_value(f, 0) = {}
  BY DEF ForestInv, ForestType, Canonical, Indices, EMPTY_SET_VALUE
<1>. QED
  BY <1>1 DEF Trusted, ForestInv, Canonical, ForestType, IsMap, EMPTY_SET_VALUE

-----------------------------------------------------------------------------
(* The filter caches *)

(* The caches c for the filters F are true of the sets of f.                *)
CachesHeld(F, f, c) ==
  /\ c = [keep \in F |-> c[keep]]
  /\ \A keep \in F :
       /\ IsMap(c[keep], Indices(f), Indices(f))
       /\ \A s \in DOMAIN c[keep] :
            get_value(f, c[keep][s]) = get_value(f, s) \cap keep

(* Later sets leave a cache true.                                           *)
LEMMA CachesLater ==
  ASSUME NEW F, NEW f, NEW g, Later(f, g), NEW c, CachesHeld(F, f, c)
  PROVE  CachesHeld(F, g, c)
BY DEF Later, CachesHeld, IsMap

(* A new entry that is true leaves a cache true.                            *)
LEMMA CachesInserted ==
  ASSUME NEW F, NEW f, NEW c, CachesHeld(F, f, c), NEW keep \in F,
         NEW s \in Indices(f), s \notin DOMAIN c[keep], NEW r \in Indices(f),
         get_value(f, r) = get_value(f, s) \cap keep
  PROVE  CachesHeld(F, f, [c EXCEPT ![keep] = Insert(@, s, r)])
<1> DEFINE m == Insert(c[keep], s, r)
           d == [c EXCEPT ![keep] = m]
<1>1. IsMap(c[keep], Indices(f), Indices(f))
  BY DEF CachesHeld
<1>2. /\ IsMap(m, Indices(f), Indices(f))
      /\ DOMAIN m = DOMAIN c[keep] \cup {s}
      /\ \A x \in DOMAIN c[keep] : m[x] = c[keep][x]
      /\ m[s] = r
  BY <1>1 DEF IsMap, Insert
<1>. HIDE DEF m
<1>3. /\ d = [k \in F |-> d[k]] /\ d[keep] = m
      /\ \A k \in F : k # keep => d[k] = c[k]
  BY DEF CachesHeld
<1>4. \A x \in DOMAIN m : get_value(f, m[x]) = get_value(f, x) \cap keep
  BY <1>2 DEF CachesHeld
<1>. HIDE DEF d
<1>5. CachesHeld(F, f, d)
  BY <1>2, <1>3, <1>4 DEF CachesHeld
<1>. QED
  BY <1>5 DEF d, m
=============================================================================
