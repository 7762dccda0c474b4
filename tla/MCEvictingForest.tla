-------------------------- MODULE MCEvictingForest --------------------------
(* Instances of EvictingForest for TLC: a run remembers up to MaxRecords     *)
(* operations on two sets, or one filtered set.                             *)
EXTENDS EvictingForest, TLC

CONSTANTS MaxSets, MaxRecords

Symmetry == Permutations(Property)

Singletons == {{p} : p \in Property}

Records ==
  Cardinality(DOMAIN forest.unions)
    + Cardinality({k \in DOMAIN forest.intersections :
                     forest.intersections[k] # EMPTY_SET_VALUE})
    + Cardinality(DOMAIN forest.differences)

Filtered ==
  Cardinality({<<keep, s>> \in Filter \X Indices(forest) :
                 s \in DOMAIN caches[keep]})

(* No action reads the last reply.                                          *)
View == <<forest, caches>>

MCNext ==
  /\ Next
  /\ Len(forest'.property_sets) <= MaxSets
  /\ Records' + MaxRecords * Filtered' <= MaxRecords

MCSpec == Init /\ [][MCNext]_vars
=============================================================================
