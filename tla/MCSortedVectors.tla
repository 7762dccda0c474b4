---------------------------- MODULE MCSortedVectors ----------------------------
(* Instances of SortedVectors for TLC: elements nest one of two sets that   *)
(* the child forest unites, intersects and subtracts as sets; the second    *)
(* family of calls has more keys and elements without nesting.              *)
EXTENDS SortedVectors

CONSTANTS Narrow, MaxRaw     \* how many keys nest, and how long vectors are
                             \*   that have yet to be checked
Nestings == {{}, {"p"}}

Nested ==
  [x \in BinaryOps \X Nestings \X Nestings |->
     CASE x[1] = "set_union"        -> x[2] \cup x[3]
       [] x[1] = "set_intersection" -> x[2] \cap x[3]
       [] x[1] = "set_difference"   -> x[2] \ x[3]]

Some == CHOOSE k \in Property : TRUE

(* The sorted vector of a function from keys to values.                     *)
Vector(v) ==
  CHOOSE c \in [1 .. Cardinality(DOMAIN v) -> {[key |-> k, value |-> v[k]] : k \in DOMAIN v}] :
    \A i, j \in DOMAIN c : i < j => less(c[i], c[j])

Vectors(K, V) == {Vector(v) : v \in UNION {[P -> V] : P \in SUBSET K}}

Raw == UNION {[1 .. n -> [key : 1 .. Narrow, value : Value]] : n \in 0 .. MaxRaw}

MCCall ==
  [op : BinaryOps, nested : {TRUE}, key : {Some},
   first : Vectors(1 .. Narrow, Value), second : Vectors(1 .. Narrow, Value)]
  \cup
  [op : BinaryOps, nested : {FALSE}, key : {Some},
   first : Vectors(Property, {{}}), second : Vectors(Property, {{}})]
  \cup
  [op : {"find_key"}, nested : {FALSE}, key : Property,
   first : Vectors(Property, {{}}), second : {<<>>}]
  \cup
  [op : {"register_set", "prepare_vector_set"}, nested : {TRUE}, key : {Some},
   first : Raw, second : {<<>>}]

MCInit == call \in MCCall /\ Start

MCSpec == MCInit /\ [][Next]_vars /\ WF_vars(Next)
=============================================================================
