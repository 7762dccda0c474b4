--------------------------- MODULE EvictingForest ---------------------------
(***************************************************************************)
(* The LatticeHashForest built with LHF_ENABLE_EVICTION (lhf.hpp 1236-1277, *)
(* 1763-1776 and the LHF_EVICTION branches of the operations): the caller   *)
(* may drop the elements of a set and keep its index.  Indices, maps and    *)
(* recorded containments stay; the set comes back when it is registered     *)
(* again or when an operation whose result it was is asked for again.       *)
(*                                                                          *)
(* A PropertySetHolder is the set of what its pointer leads to: {s} when it *)
(* holds the property set s, {} when it was evicted.                        *)
(***************************************************************************)
EXTENDS ForestData

CONSTANT Filter      \* the predicates of set_filter, as the sets they keep

ASSUME FilterAssumption == Filter \subseteq SUBSET Property

VARIABLES forest,    \* the members of the object; property_sets are holders
          caches,    \* the UnaryOperationMap the caller keeps per predicate
          reply      \* last call, its index, the counter it increased, and
                     \* whether it brought back an evicted set to answer

vars == <<forest, caches, reply>>

-----------------------------------------------------------------------------
(* The holders *)

is_evicted(f, i) == f.property_sets[i + 1] = {}

Present(f, I) == \A i \in I : ~is_evicted(f, i)

(* get_value throws for an evicted set (1788: LHF_DEBUG is a macro in every *)
(* build); an operation that would compute from one throws with it.         *)
value(f, i) == UNION f.property_sets[i + 1]

(* Fault: the vector is freed, and the map's key with it.                   *)
evict_freed(f, i) ==
  LET kept == {s \in DOMAIN f.property_set_map : f.property_set_map[s] # i}
  IN  [f EXCEPT !.property_sets[i + 1] = {},
                !.property_set_map     = [s \in kept |-> @[s]]]

(* The holder releases its vector, which stays alive as the key of          *)
(* property_set_map.                                                        *)
evict(f, i) == [f EXCEPT !.property_sets[i + 1] = {}]

(* Fault: the new elements were moved away before.                          *)
reassign_moved(f, i, s) == [f EXCEPT !.property_sets[i + 1] = {{}}]

reassign(f, i, s) == [f EXCEPT !.property_sets[i + 1] = {s}]

(* Fault: an evicted set is taken for an unknown one.                       *)
stored_again(f, s) ==
  IF s \in DOMAIN f.property_set_map /\ ~is_evicted(f, index_of(f, s))
    THEN f
    ELSE [f EXCEPT
            !.property_sets    = Append(@, {s}),
            !.property_set_map =
              [x \in DOMAIN @ \cup {s} |->
                 IF x = s THEN Len(f.property_sets) ELSE @[x]]]

(* The members after register_set(s).                                       *)
stored(f, s) ==
  IF s \notin DOMAIN f.property_set_map
    THEN [f EXCEPT
            !.property_sets    = Append(@, {s}),
            !.property_set_map = Insert(@, s, Len(f.property_sets))]
  ELSE IF is_evicted(f, index_of(f, s)) THEN reassign(f, index_of(f, s), s)
  ELSE f

-----------------------------------------------------------------------------
(* The operations *)

Call(op, operands, set) == [op |-> op, operands |-> operands, set |-> set]

Return(call, f, ret, stat, restored) ==
  /\ forest' = f
  /\ reply' = [call |-> call, ret |-> ret, stat |-> stat,
               restored |-> restored]

miss_stat(f, s) ==
  IF s \in DOMAIN f.property_set_map THEN "edge_misses" ELSE "cold_misses"

(* Registering an evicted set brings it back and counts nothing.            *)
Register(f, call, s) ==
  LET g      == stored(f, s)
      absent == s \in DOMAIN f.property_set_map /\ is_evicted(f, index_of(f, s))
  IN  Return(call, g, index_of(g, s),
             IF absent THEN "none"
             ELSE IF s \in DOMAIN f.property_set_map THEN "hits"
             ELSE "cold_misses",
             absent)

(* Fault: the result is not asked whether it was evicted.                   *)
Recall_blind(f, call, m, k) ==
  k \in DOMAIN m /\ Return(call, f, m[k], "hits", FALSE)

(* The operation is in its map, and its result is there.                    *)
Recall(f, call, m, k) ==
  k \in DOMAIN m /\ ~is_evicted(f, m[k]) /\ Return(call, f, m[k], "hits", FALSE)

(* The operation is in its map, but its result, now computed again as s,    *)
(* was evicted: only the holder is written.                                 *)
Restore(f, call, m, k, s, stat) ==
  /\ k \in DOMAIN m
  /\ is_evicted(f, m[k])
  /\ Return(call, reassign(f, m[k], s), m[k], stat, TRUE)

(* No shortcut applies, and the result is unknown or was evicted.           *)
Computed(f, m, k) == k \in DOMAIN m => is_evicted(f, m[k])

union_computed(f, x, y) ==
  LET k == <<minimum(x, y), maximum(x, y)>>
  IN  /\ x # y /\ ~is_empty(k[1])
      /\ is_subset(f, k[1], k[2]) = "UNKNOWN"
      /\ Computed(f, f.unions, k)

difference_computed(f, a, b) ==
  a # b /\ ~is_empty(a) /\ ~is_empty(b) /\ Computed(f, f.differences, <<a, b>>)

Union(f, call, x, y) ==
  LET a == minimum(x, y)
      b == maximum(x, y)
      k == <<a, b>>
      s == value(f, a) \cup value(f, b)
      g == stored(f, s)
      r == index_of(g, s)
  IN  \/ x = y /\ Return(call, f, x, "equal_hits", FALSE)
      \/ x # y /\ is_empty(a) /\ Return(call, f, b, "empty_hits", FALSE)
      \/ /\ x # y /\ ~is_empty(a)
         /\ \/ /\ is_subset(f, a, b) = "SUBSET"
               /\ Return(call, f, b, "subset_hits", FALSE)
            \/ /\ is_subset(f, a, b) = "SUPERSET"
               /\ Return(call, f, a, "subset_hits", FALSE)
            \/ /\ is_subset(f, a, b) = "UNKNOWN"
               /\ Recall(f, call, f.unions, k)
      \/ /\ union_computed(f, x, y)
         /\ Present(f, {a, b})
         /\ \/ Restore(f, call, f.unions, k, s, "edge_misses")
            \/ /\ k \notin DOMAIN f.unions
               /\ Return(call, union_recorded(g, a, b, r), r, miss_stat(f, s),
                         FALSE)

Intersection(f, call, x, y) ==
  LET a == minimum(x, y)
      b == maximum(x, y)
      k == <<a, b>>
      s == value(f, a) \cap value(f, b)
      g == stored(f, s)
      r == index_of(g, s)
  IN  \/ x = y /\ Return(call, f, x, "equal_hits", FALSE)
      \/ /\ x # y /\ is_empty(a)
         /\ Return(call, f, EMPTY_SET_VALUE, "empty_hits", FALSE)
      \/ /\ x # y /\ ~is_empty(a)
         /\ \/ /\ is_subset(f, a, b) = "SUBSET"
               /\ Return(call, f, a, "subset_hits", FALSE)
            \/ /\ is_subset(f, a, b) = "SUPERSET"
               /\ Return(call, f, b, "subset_hits", FALSE)
            \/ /\ is_subset(f, a, b) = "UNKNOWN"
               /\ \/ Recall(f, call, f.intersections, k)
                  \/ /\ Present(f, {a, b})
                     /\ Restore(f, call, f.intersections, k, s, "edge_misses")
                  \/ /\ Present(f, {a, b})
                     /\ k \notin DOMAIN f.intersections
                     /\ Return(call, intersection_recorded(g, a, b, r), r,
                               miss_stat(f, s), FALSE)

Difference(f, call, a, b) ==
  LET k == <<a, b>>
      s == value(f, a) \ value(f, b)
      g == stored(f, s)
      r == index_of(g, s)
  IN  \/ a = b /\ Return(call, f, EMPTY_SET_VALUE, "equal_hits", FALSE)
      \/ /\ a # b /\ is_empty(a)
         /\ Return(call, f, EMPTY_SET_VALUE, "empty_hits", FALSE)
      \/ /\ a # b /\ ~is_empty(a) /\ is_empty(b)
         /\ Return(call, f, a, "empty_hits", FALSE)
      \/ /\ a # b /\ ~is_empty(a) /\ ~is_empty(b)
         /\ Recall(f, call, f.differences, k)
      \/ /\ difference_computed(f, a, b)
         /\ Present(f, {a, b})
         /\ \/ Restore(f, call, f.differences, k, s, "edge_misses")
            \/ /\ k \notin DOMAIN f.differences
               /\ Return(call, difference_recorded(g, a, b, r), r,
                         miss_stat(f, s), FALSE)

-----------------------------------------------------------------------------
(* The interface: one action per public operation.  An operation that       *)
(* throws leaves everything as it was, except that a single-element one has *)
(* registered the element by then: what remains is that registration.       *)

register_set(s) ==
  Register(forest, Call("register_set", <<>>, s), s) /\ UNCHANGED caches

register_set_single(p) ==
  /\ Register(forest, Call("register_set_single", <<>>, {p}), {p})
  /\ UNCHANGED caches

(* Fault: the assertion on the empty set is compiled out.                   *)
evict_set_any(i) == forest' = evict(forest, i) /\ UNCHANGED <<caches, reply>>

evict_set(i) ==
  /\ ~is_empty(i)
  /\ forest' = evict(forest, i)
  /\ UNCHANGED <<caches, reply>>

set_union(a, b) ==
  Union(forest, Call("set_union", <<a, b>>, {}), a, b) /\ UNCHANGED caches

set_intersection(a, b) ==
  /\ Intersection(forest, Call("set_intersection", <<a, b>>, {}), a, b)
  /\ UNCHANGED caches

set_difference(a, b) ==
  /\ Difference(forest, Call("set_difference", <<a, b>>, {}), a, b)
  /\ UNCHANGED caches

set_insert_single(a, p) ==
  LET g == stored(forest, {p})
      b == index_of(g, {p})
  IN  \/ Union(g, Call("set_insert_single", <<a>>, {p}), a, b) /\ UNCHANGED caches
      \/ union_computed(g, a, b) /\ ~Present(g, {a}) /\ register_set_single(p)

set_remove_single(a, p) ==
  LET g == stored(forest, {p})
      b == index_of(g, {p})
  IN  \/ /\ Difference(g, Call("set_remove_single", <<a>>, {p}), a, b)
         /\ UNCHANGED caches
      \/ /\ difference_computed(g, a, b) /\ ~Present(g, {a})
         /\ register_set_single(p)

set_remove_single_key(a, p) ==
  /\ Present(forest, {a})
  /\ Register(forest, Call("set_remove_single_key", <<a>>, {p}),
              value(forest, a) \ {p})
  /\ UNCHANGED caches

(* Whether a filter that brings a set back counts a cold or an edge miss is *)
(* left to the uninitialised `cold` (2363).                                 *)
set_filter(s, keep) ==
  LET call  == Call("set_filter", <<s>>, keep)
      cache == caches[keep]
      kept  == value(forest, s) \cap keep
      g     == stored(forest, kept)
      r     == index_of(g, kept)
  IN  \/ /\ is_empty(s)
         /\ Return(call, forest, s, "none", FALSE)
         /\ UNCHANGED caches
      \/ /\ ~is_empty(s)
         /\ \/ Recall(forest, call, cache, s)
            \/ \E stat \in {"cold_misses", "edge_misses"} :
                 /\ Present(forest, {s})
                 /\ Restore(forest, call, cache, s, kept, stat)
         /\ UNCHANGED caches
      \/ /\ ~is_empty(s) /\ s \notin DOMAIN cache
         /\ Present(forest, {s})
         /\ Return(call, g, r, miss_stat(forest, kept), FALSE)
         /\ caches' = [caches EXCEPT ![keep] = Insert(@, s, r)]

Init ==
  /\ forest = [FreshForest EXCEPT !.property_sets = <<{{}}>>]
  /\ caches = [keep \in Filter |-> NoEntries]
  /\ reply = [call |-> Call("init", <<>>, {}), ret |-> EMPTY_SET_VALUE,
              stat |-> "cold_misses", restored |-> FALSE]

Next ==
  \/ \E s \in SUBSET Property : register_set(s)
  \/ \E p \in Property : register_set_single(p)
  \/ \E i \in Indices(forest) : evict_set(i)
  \/ \E a, b \in Indices(forest) :
       set_union(a, b) \/ set_difference(a, b) \/ set_intersection(a, b)
  \/ \E a \in Indices(forest), p \in Property :
       \/ set_insert_single(a, p)
       \/ set_remove_single(a, p)
       \/ set_remove_single_key(a, p)
  \/ \E s \in Indices(forest), keep \in Filter : set_filter(s, keep)

Spec == Init /\ [][Next]_vars

-----------------------------------------------------------------------------
(* Correctness *)

(* The forest had nothing been evicted: an index stands for the key that    *)
(* property_set_map has for it.                                             *)
Restored(f) ==
  [f EXCEPT !.property_sets =
     [i \in 1 .. Len(f.property_sets) |->
        UNION {s \in DOMAIN f.property_set_map : index_of(f, s) = i - 1}]]

(* A holder has one set or none, the empty set is never evicted, and        *)
(* everything else is typed as in the forest that never evicts: at() and    *)
(* the dereferences in get_value never fail (1408, 1794).                   *)
TypeOK ==
  /\ ForestType(Restored(forest))
  /\ \A i \in Indices(forest) :
       \/ is_evicted(forest, i)
       \/ forest.property_sets[i + 1] \in {{s} : s \in SUBSET Property}
  /\ ~is_evicted(forest, EMPTY_SET_VALUE)
  /\ \A keep \in Filter :
       IsMap(caches[keep], Indices(forest), Indices(forest))
  /\ reply.ret \in Indices(forest)

(* A set that came back is the set that went: whether it was registered     *)
(* again or recomputed by an operation, the holder agrees with the key      *)
(* under which the index was first given.                                   *)
HoldersFaithful ==
  \A i \in Indices(forest) :
    ~is_evicted(forest, i) => index_of(forest, value(forest, i)) = i

(* Evicting never costs the caller more than the elements: a call with      *)
(* present operands returns a present set, however often it went and came   *)
(* back, and an absent one is returned only if it is itself an operand that *)
(* was absent (lhf.hpp 1991-2019 answers before it looks at a set).         *)
AnswersPresent ==
  [][LET evicts == \E i \in Indices(forest) : /\ ~is_evicted(forest, i)
                                              /\ is_evicted(forest', i)
         given  == {reply'.call.operands[n] :
                      n \in DOMAIN reply'.call.operands}
     IN  \/ evicts
         \/ ~is_evicted(forest', reply'.ret)
         \/ reply'.ret \in given /\ is_evicted(forest, reply'.ret)]_vars

(* Eviction cannot be observed but by is_evicted and the counters: the      *)
(* forest is a LatticeHashForest, with the same indices, the same maps and  *)
(* the same recorded containments after every call, in which evict_set did  *)
(* nothing and a call that brought back a set was a hit.                    *)
Unevicted == INSTANCE LatticeHashForest WITH
               forest <- Restored(forest),
               caches <- caches,
               reply  <- [call |-> reply.call,
                          ret  |-> reply.ret,
                          stat |-> IF reply.restored THEN "hits"
                                   ELSE reply.stat]

EvictionTransparent == Unevicted!Spec
=============================================================================
