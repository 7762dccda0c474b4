--------------------------- MODULE UniqueIndexing ---------------------------
(***************************************************************************)
(* What a LatticeHashForest promises to the analysis that uses it          *)
(* (workdir/lhf/doc/guide.md, "General Structure of LHF"): every property  *)
(* set that was ever met has one index, an index denotes the same set for  *)
(* ever, and an operation on indices answers with the index of the set     *)
(* that the operation on the sets themselves would give.  How the forest   *)
(* finds the answer (its operation maps and subset relations) is not part  *)
(* of the promise.                                                         *)
(***************************************************************************)
EXTENDS Naturals, Sequences

CONSTANTS Property,  \* the properties that make up a property set
          Filter     \* predicates given to set_filter, as the sets they keep

VARIABLES store,     \* the sets met so far; index i denotes store[i + 1]
          reply      \* the last call and the index it returned

vars == <<store, reply>>

Indices == 0 .. Len(store) - 1

value(i) == store[i + 1]

(* A call: the operation, its index operands, and the set (or, for the     *)
(* single-element operations, the singleton) it was given.                 *)
Call(op, operands, set) == [op |-> op, operands |-> operands, set |-> set]

Injective(s) == \A i, j \in 1 .. Len(s) : s[i] = s[j] => i = j

(* new extends old: nothing moves, and only sets of `allowed` are added.   *)
Extends(old, new, allowed) ==
  /\ Len(old) <= Len(new)
  /\ \A i \in 1 .. Len(old) : new[i] = old[i]
  /\ \A i \in Len(old) + 1 .. Len(new) : new[i] \in allowed

(* The call returns the one index of `result`, and the store gains no set  *)
(* but `result` and those the call itself was given.                       *)
Answer(call, given, result) ==
  /\ reply' = [call |-> call, ret |-> reply'.ret]
  /\ reply'.ret \in 0 .. Len(store') - 1
  /\ store'[reply'.ret + 1] = result
  /\ Extends(store, store', given \cup {result})
  /\ Injective(store')

-----------------------------------------------------------------------------

register_set(s) == Answer(Call("register_set", <<>>, s), {}, s)

register_set_single(p) == Answer(Call("register_set_single", <<>>, {p}), {}, {p})

set_union(a, b) ==
  Answer(Call("set_union", <<a, b>>, {}), {}, value(a) \cup value(b))

set_difference(a, b) ==
  Answer(Call("set_difference", <<a, b>>, {}), {}, value(a) \ value(b))

set_intersection(a, b) ==
  Answer(Call("set_intersection", <<a, b>>, {}), {}, value(a) \cap value(b))

set_insert_single(a, p) ==
  Answer(Call("set_insert_single", <<a>>, {p}), {{p}}, value(a) \cup {p})

set_remove_single(a, p) ==
  Answer(Call("set_remove_single", <<a>>, {p}), {{p}}, value(a) \ {p})

set_remove_single_key(a, p) ==
  Answer(Call("set_remove_single_key", <<a>>, {p}), {}, value(a) \ {p})

set_filter(s, keep) ==
  Answer(Call("set_filter", <<s>>, keep), {}, value(s) \cap keep)

-----------------------------------------------------------------------------

Init ==
  /\ store = <<{}>>
  /\ reply = [call |-> Call("init", <<>>, {}), ret |-> 0]

Next ==
  \/ \E s \in SUBSET Property : register_set(s)
  \/ \E p \in Property : register_set_single(p)
  \/ \E a, b \in Indices :
       set_union(a, b) \/ set_difference(a, b) \/ set_intersection(a, b)
  \/ \E a \in Indices, p \in Property :
       \/ set_insert_single(a, p)
       \/ set_remove_single(a, p)
       \/ set_remove_single_key(a, p)
  \/ \E s \in Indices, keep \in Filter : set_filter(s, keep)

Spec == Init /\ [][Next]_vars

=============================================================================
