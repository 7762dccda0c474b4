---------------------------- MODULE MCNestedForest ----------------------------
(* Instances of NestedForest for TLC.  The caller has made the nested sets  *)
(* of one property before, of every property or of one only.  With one,     *)
(* parent sets are over all keys, and the parent computes one operation;    *)
(* with all, nested sets overlap, and parent sets are over one key.         *)
(* MaxSets and MaxChildSets bound the sets of the two forests, MaxRecords,  *)
(* MaxChildRecords and their sum what they remember, and MaxComputed what   *)
(* the parent computes (the child computes once).  Calls that leave both    *)
(* forests as they are, are left out: the invariants speak of all that the  *)
(* forests remember, not only of the last answer.                           *)
EXTENDS NestedForest, TLC

CONSTANTS MaxSets, MaxChildSets, MaxRecords, MaxComputed, MaxChildRecords

Symmetry == Permutations(Property)

(* No action reads what the child returned before.                          *)
View == <<parent, child, child_caches, merge, reply>>

Records(f) ==
  Cardinality(DOMAIN f.unions) + Cardinality(DOMAIN f.intersections)
    + Cardinality(DOMAIN f.differences)

(* A difference that removes nothing records a disjoint intersection too.   *)
Computed(f) ==
  Records(f) - Cardinality({k \in DOMAIN f.intersections :
                              f.intersections[k] = EMPTY_SET_VALUE})

(* The child after register_set_single of every property of Q.              *)
PreparedChild(Q) ==
  LET Made[P \in SUBSET Property] ==
        IF P = {} THEN FreshForest
        ELSE LET p == CHOOSE p \in P : TRUE IN registered(Made[P \ {p}], {p})
  IN  Made[Q]

MCInit ==
  /\ parent = FreshForest
  /\ \E Q \in {Property} \cup {{p} : p \in Property} : child = PreparedChild(Q)
  /\ child_caches = [keep \in Filter |-> NoEntries]
  /\ child_reply = [call |-> Child!Call("register_set_single", <<>>, {}),
                    ret |-> Len(child.property_sets) - 1, stat |-> "cold_misses"]
  /\ merge = NoMerge
  /\ reply = [op |-> "none", a |-> 0, b |-> 0, ret |-> 0]

(* All nested sets are over one property; all parent sets over one key.     *)
Narrow(c) == Cardinality(UNION DOMAIN c.property_set_map) <= 1
FirstKey == CHOOSE k \in Key : \A j \in Key : k <= j
OneKey(f) == \A s \in DOMAIN f.property_set_map : Keys(s) \subseteq {FirstKey}

MCNext ==
  /\ Next
  /\ <<parent, child, merge>>' # <<parent, child, merge>>
  /\ Len(parent'.property_sets) <= MaxSets
  /\ Len(child'.property_sets) <= MaxChildSets
  /\ Records(parent') <= MaxRecords /\ Computed(child') <= 1
  /\ Records(child') <= MaxChildRecords
  /\ IF Narrow(child)
     THEN Narrow(child') /\ Computed(parent') <= 1
     ELSE /\ OneKey(parent') /\ Computed(parent') <= MaxComputed
          /\ Records(parent') + Records(child') <= MaxRecords + 1

MCSpec == MCInit /\ [][MCNext]_vars
=============================================================================
