-------------------------- MODULE LatticeHashForest --------------------------
(***************************************************************************)
(* The LatticeHashForest of workdir/lhf/src/include/lhf/lhf.hpp, built      *)
(* without nesting (NestingNone), parallelism or eviction: one thread calls *)
(* its operations, each runs to its end.                                    *)
(*                                                                          *)
(* The forest gives every distinct property set an index and remembers, for *)
(* every pair of indices, the index of their union, intersection and        *)
(* difference, and which of two sets is known to contain the other.  A      *)
(* sorted vector of properties is the set of its elements: the merge loops  *)
(* are the set operators.                                                   *)
(***************************************************************************)
EXTENDS ForestData

CONSTANT Filter      \* the predicates of set_filter, as the sets they keep

ASSUME FilterAssumption == Filter \subseteq SUBSET Property

VARIABLES forest,    \* the members of the object, see FreshForest
          caches,    \* the UnaryOperationMap the caller keeps per predicate
          reply      \* last call, returned index, and counter it increased

vars == <<forest, caches, reply>>

-----------------------------------------------------------------------------
(* The operations.  Each takes the members f it starts from, since          *)
(* set_insert_single and set_remove_single run one after a registration.    *)

Call(op, operands, set) == [op |-> op, operands |-> operands, set |-> set]

Return(call, f, ret, stat) ==
  /\ forest' = f
  /\ reply' = [call |-> call, ret |-> ret, stat |-> stat]

miss_stat(f, s) ==
  IF s \in DOMAIN f.property_set_map THEN "edge_misses" ELSE "cold_misses"

Register(f, call, s) ==
  Return(call, registered(f, s), index_of(registered(f, s), s),
         register_stat(f, s))

Union(f, call, x, y) ==
  LET a == minimum(x, y)
      b == maximum(x, y)
      s == get_value(f, a) \cup get_value(f, b)
      g == registered(f, s)
      r == index_of(g, s)
  IN  \/ x = y /\ Return(call, f, x, "equal_hits")
      \/ x # y /\ is_empty(a) /\ Return(call, f, b, "empty_hits")
      \/ /\ x # y /\ ~is_empty(a)
         /\ \/ /\ is_subset(f, a, b) = "SUBSET"
               /\ Return(call, f, b, "subset_hits")
            \/ /\ is_subset(f, a, b) = "SUPERSET"
               /\ Return(call, f, a, "subset_hits")
            \/ /\ is_subset(f, a, b) = "UNKNOWN"
               /\ <<a, b>> \in DOMAIN f.unions
               /\ Return(call, f, f.unions[<<a, b>>], "hits")
            \/ /\ is_subset(f, a, b) = "UNKNOWN"
               /\ <<a, b>> \notin DOMAIN f.unions
               /\ Return(call, union_recorded(g, a, b, r), r, miss_stat(f, s))

Intersection(f, call, x, y) ==
  LET a == minimum(x, y)
      b == maximum(x, y)
      s == get_value(f, a) \cap get_value(f, b)
      g == registered(f, s)
      r == index_of(g, s)
  IN  \/ x = y /\ Return(call, f, x, "equal_hits")
      \/ x # y /\ is_empty(a) /\ Return(call, f, EMPTY_SET_VALUE, "empty_hits")
      \/ /\ x # y /\ ~is_empty(a)
         /\ \/ /\ is_subset(f, a, b) = "SUBSET"
               /\ Return(call, f, a, "subset_hits")
            \/ /\ is_subset(f, a, b) = "SUPERSET"
               /\ Return(call, f, b, "subset_hits")
            \/ /\ is_subset(f, a, b) = "UNKNOWN"
               /\ <<a, b>> \in DOMAIN f.intersections
               /\ Return(call, f, f.intersections[<<a, b>>], "hits")
            \/ /\ is_subset(f, a, b) = "UNKNOWN"
               /\ <<a, b>> \notin DOMAIN f.intersections
               /\ Return(call, intersection_recorded(g, a, b, r), r,
                         miss_stat(f, s))

Difference(f, call, a, b) ==
  LET s == get_value(f, a) \ get_value(f, b)
      g == registered(f, s)
      r == index_of(g, s)
  IN  \/ a = b /\ Return(call, f, EMPTY_SET_VALUE, "equal_hits")
      \/ a # b /\ is_empty(a) /\ Return(call, f, EMPTY_SET_VALUE, "empty_hits")
      \/ a # b /\ is_empty(b) /\ Return(call, f, a, "empty_hits")
      \/ /\ a # b /\ ~is_empty(a) /\ ~is_empty(b)
         /\ \/ /\ <<a, b>> \in DOMAIN f.differences
               /\ Return(call, f, f.differences[<<a, b>>], "hits")
            \/ /\ <<a, b>> \notin DOMAIN f.differences
               /\ Return(call, difference_recorded(g, a, b, r), r,
                         miss_stat(f, s))

-----------------------------------------------------------------------------
(* The interface: one action per public operation.                          *)

register_set(s) ==
  Register(forest, Call("register_set", <<>>, s), s) /\ UNCHANGED caches

register_set_single(p) ==
  /\ Register(forest, Call("register_set_single", <<>>, {p}), {p})
  /\ UNCHANGED caches

set_union(a, b) ==
  Union(forest, Call("set_union", <<a, b>>, {}), a, b) /\ UNCHANGED caches

set_intersection(a, b) ==
  /\ Intersection(forest, Call("set_intersection", <<a, b>>, {}), a, b)
  /\ UNCHANGED caches

set_difference(a, b) ==
  /\ Difference(forest, Call("set_difference", <<a, b>>, {}), a, b)
  /\ UNCHANGED caches

set_insert_single(a, p) ==
  LET g == registered(forest, {p})
  IN  /\ Union(g, Call("set_insert_single", <<a>>, {p}), a, index_of(g, {p}))
      /\ UNCHANGED caches

set_remove_single(a, p) ==
  LET g == registered(forest, {p})
  IN  /\ Difference(g, Call("set_remove_single", <<a>>, {p}), a,
                    index_of(g, {p}))
      /\ UNCHANGED caches

set_remove_single_key(a, p) ==
  /\ Register(forest, Call("set_remove_single_key", <<a>>, {p}),
              get_value(forest, a) \ {p})
  /\ UNCHANGED caches

set_filter(s, keep) ==
  LET call  == Call("set_filter", <<s>>, keep)
      cache == caches[keep]
      kept  == get_value(forest, s) \cap keep
      g     == registered(forest, kept)
      r     == index_of(g, kept)
  IN  \/ is_empty(s) /\ Return(call, forest, s, "none") /\ UNCHANGED caches
      \/ /\ ~is_empty(s) /\ s \in DOMAIN cache
         /\ Return(call, forest, cache[s], "hits")
         /\ UNCHANGED caches
      \/ /\ ~is_empty(s) /\ s \notin DOMAIN cache
         /\ Return(call, g, r, miss_stat(forest, kept))
         /\ caches' = [caches EXCEPT ![keep] = Insert(@, s, r)]

Init ==
  /\ forest = FreshForest
  /\ caches = [keep \in Filter |-> NoEntries]
  /\ reply = [call |-> Call("init", <<>>, {}), ret |-> EMPTY_SET_VALUE,
              stat |-> "cold_misses"]

Next ==
  \/ \E s \in SUBSET Property : register_set(s)
  \/ \E p \in Property : register_set_single(p)
  \/ \E a, b \in Indices(forest) :
       set_union(a, b) \/ set_difference(a, b) \/ set_intersection(a, b)
  \/ \E a \in Indices(forest), p \in Property :
       \/ set_insert_single(a, p)
       \/ set_remove_single(a, p)
       \/ set_remove_single_key(a, p)
  \/ \E s \in Indices(forest), keep \in Filter : set_filter(s, keep)

Spec == Init /\ [][Next]_vars

-----------------------------------------------------------------------------
(* Correctness *)

(* Every map of the forest leads from indices that exist to indices that    *)
(* exist, and every filter cache too: at() never throws (lhf.hpp 1408).     *)
TypeOK ==
  /\ ForestType(forest)
  /\ caches = [keep \in Filter |-> caches[keep]]
  /\ \A keep \in Filter :
       IsMap(caches[keep], Indices(forest), Indices(forest))
  /\ reply = [call |-> reply.call, ret |-> reply.ret, stat |-> reply.stat]
  /\ reply.ret \in Indices(forest)

(* A set has one index for ever: whatever way it was reached, through an    *)
(* operation, a filter or a registration, looking it up in property_set_map *)
(* finds the index under which it is stored.                                *)
IndexCanonical == Canonical(forest)

FiltersSound(f, c) ==
  \A keep \in Filter : \A s \in DOMAIN c[keep] :
    get_value(f, c[keep][s]) = get_value(f, s) \cap keep

(* Everything the forest remembers is true of the sets themselves, although *)
(* an operation writes the maps of others: a difference records a disjoint  *)
(* intersection, every operation records containments, and containments     *)
(* answer both unions and intersections (lhf.hpp 2044-2051, 2156-2164).     *)
RecordsSound == Sound(forest) /\ FiltersSound(forest, caches)

(* Whoever pays for a computation leaves its by-products behind: a recorded *)
(* union is known to contain both operands, and a recorded difference is    *)
(* known to lie in the first or, if nothing was removed, the operands'      *)
(* intersection is recorded as empty.                                       *)
ByProductsKept ==
  /\ \A k \in DOMAIN forest.unions :
       /\ Known(forest, k[1], forest.unions[k])
       /\ Known(forest, k[2], forest.unions[k])
  /\ \A k \in DOMAIN forest.differences :
       IF forest.differences[k] # k[1]
         THEN Known(forest, forest.differences[k], k[1])
         ELSE <<minimum(k[1], k[2]), maximum(k[1], k[2])>>
                \in DOMAIN forest.intersections

(* The same for computed intersections, as the guide promises it: "We also  *)
(* store the possible tangential relations, such as subset relations        *)
(* between the operands and the result".                                    *)
IntersectionByProductsKept ==
  \A k \in DOMAIN forest.intersections :
    forest.intersections[k] # EMPTY_SET_VALUE =>
      /\ Known(forest, forest.intersections[k], k[1])
      /\ Known(forest, forest.intersections[k], k[2])

(* "We perform any non-trivial operation with a unique tuple of operands    *)
(* only once" (guide.md): whatever call just returned, the same call would  *)
(* now be answered from memory, with the same index.                        *)
AnswerRemembered ==
  reply.call.op \in BinaryOps =>
    remembered(forest, reply.call.op,
               reply.call.operands[1], reply.call.operands[2]) = {reply.ret}

(* ... and stays so: an operation that can be answered from memory is never *)
(* computed again and never changes its answer, even when a containment     *)
(* recorded later takes precedence over the operation's own map.            *)
NeverRecomputed ==
  [][forest' # forest => \A op \in BinaryOps, a, b \in Indices(forest) :
       remembered(forest, op, a, b) # {} =>
         remembered(forest', op, a, b) = remembered(forest, op, a, b)]_vars

(* The counters mean what OperationPerf says of them (lhf.hpp 1035-1041): a *)
(* cold miss when the resulting set was not in the lattice, an edge miss    *)
(* when it was and only the operation was not, and no counter but           *)
(* empty_hits rises for a set that a single-element operation brought in.   *)
MissesClassified ==
  [][LET new == reply'.ret \notin Indices(forest)
     IN  /\ reply'.stat = "cold_misses" => new
         /\ new => reply'.stat \in {"cold_misses", "empty_hits"}
         /\ reply'.stat = "edge_misses" /\ reply'.call.op \in BinaryOps =>
              remembered(forest, reply'.call.op, reply'.call.operands[1],
                         reply'.call.operands[2]) = {}]_vars

(* The forest keeps the promise of UniqueIndexing: what it stores is never  *)
(* moved, duplicated or invented, and the index it returns is the index of  *)
(* the set that the operation on the sets gives, whatever was called before.*)
Promise == INSTANCE UniqueIndexing WITH
             store <- forest.property_sets,
             reply <- [call |-> reply.call, ret |-> reply.ret]

KeepsPromise == Promise!Spec
=============================================================================
