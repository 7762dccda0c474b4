----------------------------- MODULE NestedForest -----------------------------
(***************************************************************************)
(* A LatticeHashForest whose property elements nest the sets of another:    *)
(* NestingBase with one child (workdir/lhf/src/include/lhf/lhf.hpp          *)
(* 848-1014).  An element of the parent is a key and the index of a set in  *)
(* the child; a parent set has a key at most once.  Where the merge loop of *)
(* an operation meets a key of both operands, it calls the same operation   *)
(* of the child on the two nested sets, one such call after the other, in   *)
(* the order of the keys.  The caller uses the child directly too, to       *)
(* make the sets it nests.                                                  *)
(***************************************************************************)
EXTENDS ForestData

CONSTANTS Key,       \* the keys of the parent's elements, in their order
          Filter     \* the predicates with which the caller filters child sets

ASSUME NestingAssumption == Key \subseteq Nat /\ Filter \subseteq SUBSET Property

VARIABLES parent, child,   \* the members of the two forests
          child_caches,    \* the caller's filter caches for the child
          child_reply,     \* what the child returned last
          merge,           \* the parent's operation in progress, see NoMerge
          reply            \* the parent's last call and what it returned

children == <<child, child_caches, child_reply>>
vars == <<parent, children, merge, reply>>

Child == INSTANCE LatticeHashForest WITH
           forest <- child, caches <- child_caches, reply <- child_reply

(* todo: the common keys the cursors have not reached; new_set: the         *)
(* elements of the result so far.                                           *)
NoMerge == [op |-> "none", a |-> 0, b |-> 0, todo |-> {}, new_set |-> {}]

Idle == merge = NoMerge

-----------------------------------------------------------------------------
(* Parent sets *)

Element(c) == Key \X Indices(c)

Keys(s) == {e[1] : e \in s}

nested(s, k) == (CHOOSE e \in s : e[1] = k)[2]

(* The sets of elements that a caller may register: sorted by key, without  *)
(* duplicates.                                                              *)
ElementSets(c) ==
  UNION {{{<<k, v[k]>> : k \in K} : v \in [K -> Indices(c)]} : K \in SUBSET Key}

IsElementSet(s, c) == s \subseteq Element(c) /\ \A e, g \in s : e[1] = g[1] => e = g

(* Faults: a union takes over the elements with common keys too; the        *)
(* elements that only the second operand has are lost.                      *)
unmatched_doubled(op, s, t) ==
  CASE op = "set_union"        -> s \cup t
    [] op = "set_intersection" -> {}
    [] op = "set_difference"   -> {e \in s : e[1] \notin Keys(t)}

unmatched_first(op, s, t) ==
  IF op = "set_intersection" THEN {} ELSE {e \in s : e[1] \notin Keys(t)}

(* The elements that an operation takes over as they are.                   *)
unmatched(op, s, t) ==
  CASE op = "set_union"        -> {e \in s \cup t :
                                     e[1] \notin Keys(s) \cap Keys(t)}
    [] op = "set_intersection" -> {}
    [] op = "set_difference"   -> {e \in s : e[1] \notin Keys(t)}

-----------------------------------------------------------------------------
(* Operations of the parent *)

Return(op, a, b, r) ==
  reply' = [op |-> op, a |-> a, b |-> b, ret |-> r]

register_set(s) ==
  /\ Idle
  /\ parent' = registered(parent, s)
  /\ Return("register_set", 0, 0, index_of(parent', s))
  /\ UNCHANGED <<children, merge>>

set_remove_single_key(a, k) ==
  /\ Idle
  /\ LET s == {e \in get_value(parent, a) : e[1] # k}
     IN  /\ parent' = registered(parent, s)
         /\ Return("set_remove_single_key", a, 0, index_of(parent', s))
  /\ UNCHANGED <<children, merge>>

(* An operation up to its merge loop, started from the parent's members f.  *)
Start(f, op, x, y) ==
  LET a == IF op = "set_difference" THEN x ELSE minimum(x, y)
      b == IF op = "set_difference" THEN y ELSE maximum(x, y)
      s == get_value(f, a)
      t == get_value(f, b)
  IN  /\ Idle
      /\ parent' = f
      /\ \/ /\ remembered(f, op, x, y) # {}
            /\ \E r \in remembered(f, op, x, y) : Return(op, x, y, r)
            /\ UNCHANGED merge
         \/ /\ remembered(f, op, x, y) = {}
            /\ merge' = [op |-> op, a |-> a, b |-> b,
                         todo    |-> Keys(s) \cap Keys(t),
                         new_set |-> unmatched(op, s, t)]
            /\ UNCHANGED reply
      /\ UNCHANGED children

operation(op, a, b) == Start(parent, op, a, b)

set_insert_single(a, e) ==
  LET f == registered(parent, {e}) IN Start(f, "set_union", a, index_of(f, {e}))

set_remove_single(a, e) ==
  LET f == registered(parent, {e})
  IN  Start(f, "set_difference", a, index_of(f, {e}))

(* Fault: nested sets are united whatever the operation is.                 *)
child_operation_union(op, x, y) == Child!set_union(x, y)

child_operation(op, x, y) ==
  \/ op = "set_union"        /\ Child!set_union(x, y)
  \/ op = "set_intersection" /\ Child!set_intersection(x, y)
  \/ op = "set_difference"   /\ Child!set_difference(x, y)

(* The cursors meet the next common key.                                    *)
descend ==
  LET k == CHOOSE k \in merge.todo : \A j \in merge.todo : k <= j
      s == get_value(parent, merge.a)
      t == get_value(parent, merge.b)
  IN  /\ merge.todo # {}
      /\ child_operation(merge.op, nested(s, k), nested(t, k))
      /\ merge' = [merge EXCEPT
                     !.todo    = @ \ {k},
                     !.new_set = @ \cup {<<k, child_reply'.ret>>}]
      /\ UNCHANGED <<parent, reply>>

(* The rest of the operation, after its merge loop.                         *)
finish ==
  LET a == merge.a
      b == merge.b
      f == registered(parent, merge.new_set)
      r == index_of(f, merge.new_set)
  IN  /\ ~Idle /\ merge.todo = {}
      /\ parent' = CASE merge.op = "set_union" -> union_recorded(f, a, b, r)
                     [] merge.op = "set_intersection" ->
                          intersection_recorded(f, a, b, r)
                     [] merge.op = "set_difference" ->
                          difference_recorded(f, a, b, r)
      /\ Return(merge.op, a, b, r)
      /\ merge' = NoMerge
      /\ UNCHANGED children

(* The caller uses the child.                                               *)
use_child == Idle /\ Child!Next /\ UNCHANGED <<parent, merge, reply>>

Init ==
  /\ parent = FreshForest
  /\ Child!Init
  /\ merge = NoMerge
  /\ reply = [op |-> "none", a |-> 0, b |-> 0, ret |-> 0]

Next ==
  \/ \E s \in ElementSets(child) : register_set(s)
  \/ \E op \in BinaryOps, a, b \in Indices(parent) : operation(op, a, b)
  \/ \E a \in Indices(parent), e \in Element(child) :
       set_insert_single(a, e) \/ set_remove_single(a, e)
  \/ \E a \in Indices(parent), k \in Key : set_remove_single_key(a, k)
  \/ descend
  \/ finish
  \/ use_child

Spec == Init /\ [][Next]_vars

-----------------------------------------------------------------------------
(* Correctness *)

(* Nested indices exist in the child, and a key occurs once in a set; an    *)
(* operation in progress has a key either still to do or done.              *)
TypeOK ==
  /\ \A i \in Indices(parent) : IsElementSet(get_value(parent, i), child)
  /\ Canonical(parent)
  /\ \A m \in {parent.unions, parent.intersections, parent.differences} :
       IsMap(m, Pairs(parent), Indices(parent))
  /\ IsMap(parent.subsets, Pairs(parent), {"SUBSET", "SUPERSET"})
  /\ reply.ret \in Indices(parent)
  /\ IsElementSet(merge.new_set, child)
  /\ merge.todo \subseteq Key \ Keys(merge.new_set)

(* The parent sets without their nesting: the pairs of a key and a property.*)
flattened ==
  [i \in Indices(parent) |->
     UNION {{<<e[1], p>> : p \in get_value(child, e[2])} : e \in get_value(parent, i)}]

flat_result(op, s, t) ==
  CASE op = "set_union"        -> s \cup t
    [] op = "set_intersection" -> s \cap t
    [] op = "set_difference"   -> s \ t

(* "This is the same as if we flattened the structure in to a set of        *)
(* edge-pairs without any nesting instead" (guide.md): whatever the parent  *)
(* remembers, and whatever the caller did to the child in between, an       *)
(* answer from memory has the pairs of the flat operation.                  *)
AnswersFlattened ==
  LET flat == flattened IN
    \A op \in BinaryOps, a, b \in Indices(parent) :
      \A r \in remembered(parent, op, a, b) :
        flat[r] = flat_result(op, flat[a], flat[b])

(* Set i lies in set j key by key: j has i's keys, with larger nested sets. *)
Below(i, j) ==
  \A e \in get_value(parent, i) : \E g \in get_value(parent, j) :
    e[1] = g[1] /\ get_value(child, e[2]) \subseteq get_value(child, g[2])

(* Recorded containments hold key by key, not only for the pairs: unions    *)
(* that they answer keep all keys.                                          *)
ContainmentsKeyed ==
  \A k \in DOMAIN parent.subsets :
    IF parent.subsets[k] = "SUBSET" THEN Below(k[1], k[2]) ELSE Below(k[2], k[1])

(* A parent operation that came to its end is answered from memory, with    *)
(* the same index, although the calls of the child made new child sets.     *)
AnswerRemembered ==
  reply.op \in BinaryOps =>
    remembered(parent, reply.op, reply.a, reply.b) = {reply.ret}

(* The guide: an operation on the parent "will be applied to all of its     *)
(* children if the key component in an element of two sets is the same", so *)
(* an intersection of different sets keeps the common keys.                 *)
IntersectionKeepsKeys ==
  \A a, b \in Indices(parent) :
    \A r \in remembered(parent, "set_intersection", a, b) :
      Keys(get_value(parent, r)) =
        Keys(get_value(parent, a)) \cap Keys(get_value(parent, b))
=============================================================================
