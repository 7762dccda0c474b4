------------------------ MODULE MCLatticeHashForest ------------------------
(* Instances of LatticeHashForest for TLC.  Two properties give the whole   *)
(* lattice of four sets; three give sets that overlap without containing    *)
(* each other.  MaxSets, MaxRecords and MaxComputed bound the sets, the     *)
(* operations that a run may remember, and those of them that it computes.  *)
EXTENDS LatticeHashForest, TLC

CONSTANTS MaxSets, MaxRecords, MaxComputed

Symmetry == Permutations(Property)

Singletons == {{p} : p \in Property}

Records(f, c) ==
  LET Total[F \in SUBSET Filter] ==
        IF F = {} THEN 0
        ELSE LET keep == CHOOSE keep \in F : TRUE
             IN  Cardinality(DOMAIN c[keep]) + Total[F \ {keep}]
  IN  Cardinality(DOMAIN f.unions) + Cardinality(DOMAIN f.intersections)
        + Cardinality(DOMAIN f.differences) + Total[Filter]

(* A difference that removes nothing records a disjoint intersection too.   *)
Computed(f, c) ==
  Records(f, c) - Cardinality({k \in DOMAIN f.intersections :
                                 f.intersections[k] = EMPTY_SET_VALUE})

MCNext ==
  /\ Next
  /\ Len(forest'.property_sets) <= MaxSets
  /\ Records(forest', caches') <= MaxRecords
  /\ Computed(forest', caches') <= MaxComputed

MCSpec == Init /\ [][MCNext]_vars
=============================================================================
