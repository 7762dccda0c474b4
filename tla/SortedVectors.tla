---------------------------- MODULE SortedVectors ----------------------------
(***************************************************************************)
(* Property sets as the sorted vectors that the forest computes on          *)
(* (workdir/lhf/src/include/lhf/lhf.hpp): the integrity check of            *)
(* register_set, prepare_vector_set, the merge loops of the binary          *)
(* operations with their two cursors, and the searches of find_key and      *)
(* contains.  The other modules take a vector to be the set of its          *)
(* elements and a merge loop to be an operator on sets; this module is      *)
(* where that is shown to be right.                                         *)
(***************************************************************************)
EXTENDS Integers, Sequences, FiniteSets

CONSTANTS
  Property,   \* the keys of elements, with their order
  Value,      \* what elements nest
  Child,      \* the operations of the child forest, on nested values
  LHF_SORTED_VECTOR_BINARY_SEARCH_THRESHOLD

BinaryOps == {"set_union", "set_intersection", "set_difference"}

ASSUME VectorAssumption ==
  /\ Property \subseteq Int
  /\ Child \in [BinaryOps \X Value \X Value -> Value]
  /\ LHF_SORTED_VECTOR_BINARY_SEARCH_THRESHOLD \in Nat

VARIABLES
  call,        \* the call in progress: operation and operands
  pc,          \* where it is
  new_set,     \* the vector that is made, or checked
  cursor_1,    \* positions in the operands; cursor_1 is the iterator of
  cursor_2,    \*   the loops over one vector too
  low, high,   \* bounds of the binary search
  found        \* the position that a search returns, 0 for an absent key

vars == <<call, pc, new_set, cursor_1, cursor_2, low, high, found>>

-----------------------------------------------------------------------------
(* Elements and vectors *)

Element == [key : Property, value : Value]

Elements(c) == {c[i] : i \in 1 .. Len(c)}

Keys(S) == {e.key : e \in S}

(* Elements compare by their keys only.                                     *)
less(e, f) == e.key < f.key

(* The form that the guide demands of a property set.                       *)
IsPropertySet(c) == \A i, j \in 1 .. Len(c) : i < j => less(c[i], c[j])

(* No key comes with two values.                                            *)
OneValuePerKey(S) == \A e, f \in S : e.key = f.key => e = f

(* nested: the elements of the forest nest sets of another.                 *)
Call ==
  {c \in [op : {"prepare_vector_set", "register_set", "find_key"} \cup BinaryOps,
          nested : BOOLEAN,
          first : Seq(Element), second : Seq(Element),
          key : Property] :
     c.op \in BinaryOps \cup {"find_key"} =>
       IsPropertySet(c.first) /\ IsPropertySet(c.second)}

Start ==
  /\ pc = CASE call.op \in BinaryOps \cup {"prepare_vector_set"} -> call.op
            [] call.op = "register_set" -> "verify"
            [] call.op = "find_key" ->
                 IF Len(call.first) <= LHF_SORTED_VECTOR_BINARY_SEARCH_THRESHOLD
                   THEN "linear" ELSE "binary"
  /\ new_set = IF call.op = "register_set" THEN call.first ELSE <<>>
  /\ cursor_1 = 1
  /\ cursor_2 = 1
  /\ low = 1
  /\ high = Len(call.first)
  /\ found = 0

Init == call \in Call /\ Start

-----------------------------------------------------------------------------
(* prepare_vector_set and verify_property_set_integrity *)

(* A hash set of the elements, key and value compared, is sorted by key:    *)
(* elements with one key come in any order.                                 *)
prepare_vector_set ==
  /\ pc = "prepare_vector_set"
  /\ LET S == Elements(call.first)
     IN  \E c \in [1 .. Cardinality(S) -> S] :
           /\ Elements(c) = S
           /\ \A i, j \in DOMAIN c : i < j => c[i] # c[j] /\ ~less(c[j], c[i])
           /\ new_set' = c
  /\ pc' = "verify"
  /\ UNCHANGED <<call, cursor_1, cursor_2, low, high, found>>

accept ==
  /\ pc = "verify"
  /\ Len(new_set) = 1 \/ cursor_1 > Len(new_set)
  /\ pc' = "done"
  /\ UNCHANGED <<call, new_set, cursor_1, cursor_2, low, high, found>>

(* Fault: neighbours with one key pass.                                     *)
InOrder_weak ==
  cursor_1 > 1 => ~less(new_set[cursor_1], new_set[cursor_1 - 1])

(* The element at the cursor is sorted after its predecessor, and its key   *)
(* is not among those before.                                               *)
InOrder ==
  /\ cursor_1 > 1 => less(new_set[cursor_1 - 1], new_set[cursor_1])
  /\ \A i \in 1 .. cursor_1 - 1 : new_set[i].key # new_set[cursor_1].key

verify ==
  /\ pc = "verify"
  /\ Len(new_set) # 1 /\ cursor_1 <= Len(new_set)
  /\ IF InOrder THEN cursor_1' = cursor_1 + 1 /\ UNCHANGED pc
                ELSE pc' = "thrown" /\ UNCHANGED cursor_1
  /\ UNCHANGED <<call, new_set, cursor_2, low, high, found>>

-----------------------------------------------------------------------------
(* The merge loops *)

first  == call.first
second == call.second

More_1 == cursor_1 <= Len(first)
More_2 == cursor_2 <= Len(second)

(* What call c pushes where both cursors are at one key.                    *)
combined(c, e, f) ==
  IF c.nested
    THEN [key |-> e.key, value |-> Child[<<c.op, e.value, f.value>>]]
    ELSE e

(* One turn of a loop: s is pushed, and the cursors move by d1 and d2.      *)
Turn(s, d1, d2) ==
  /\ new_set' = new_set \o s
  /\ cursor_1' = cursor_1 + d1
  /\ cursor_2' = cursor_2 + d2
  /\ UNCHANGED <<call, pc, low, high, found>>

(* The loop is left, and s is pushed behind it.                             *)
Leave(s) ==
  /\ new_set' = new_set \o s
  /\ pc' = "done"
  /\ UNCHANGED <<call, cursor_1, cursor_2, low, high, found>>

(* Fault: the last element is left out.                                     *)
Rest_short(c, i) == SubSeq(c, i, Len(c) - 1)

(* The elements from a cursor to the end.                                   *)
Rest(c, i) == SubSeq(c, i, Len(c))

AtFirst  == More_1 /\ More_2 /\ less(first[cursor_1], second[cursor_2])
AtSecond == More_1 /\ More_2 /\ less(second[cursor_2], first[cursor_1])
AtBoth   == /\ More_1 /\ More_2
            /\ ~less(first[cursor_1], second[cursor_2])
            /\ ~less(second[cursor_2], first[cursor_1])

set_union ==
  /\ pc = "set_union"
  /\ \/ AtSecond /\ Turn(<<second[cursor_2]>>, 0, 1)
     \/ AtFirst  /\ Turn(<<first[cursor_1]>>, 1, 0)
     \/ AtBoth   /\ Turn(<<combined(call, first[cursor_1], second[cursor_2])>>, 1, 1)
     \/ More_1 /\ ~More_2 /\ Leave(Rest(first, cursor_1))
     \/ ~More_1 /\ Leave(Rest(second, cursor_2))

set_intersection ==
  /\ pc = "set_intersection"
  /\ \/ AtSecond /\ Turn(<<>>, 0, 1)
     \/ AtFirst  /\ Turn(<<>>, 1, 0)
     \/ AtBoth   /\ Turn(<<combined(call, first[cursor_1], second[cursor_2])>>, 1, 1)
     \/ ~(More_1 /\ More_2) /\ Leave(<<>>)

set_difference ==
  /\ pc = "set_difference"
  /\ \/ AtFirst  /\ Turn(<<first[cursor_1]>>, 1, 0)
     \/ AtSecond /\ Turn(<<>>, 0, 1)
     \/ /\ AtBoth
        /\ Turn(IF call.nested
                  THEN <<combined(call, first[cursor_1], second[cursor_2])>> ELSE <<>>,
                1, 1)
     \/ More_1 /\ ~More_2 /\ Leave(Rest(first, cursor_1))
     \/ ~More_1 /\ Leave(<<>>)

-----------------------------------------------------------------------------
(* find_key and contains *)

(* Fault: the position is one too high.                                     *)
Answer_shifted(i) == found' = i + 1 /\ pc' = "done"

Answer(i) == found' = i /\ pc' = "done"

linear_search ==
  /\ pc = "linear"
  /\ IF ~More_1 THEN Answer(0) /\ UNCHANGED cursor_1
     ELSE IF first[cursor_1].key = call.key
       THEN Answer(cursor_1) /\ UNCHANGED cursor_1
       ELSE cursor_1' = cursor_1 + 1 /\ UNCHANGED <<pc, found>>
  /\ UNCHANGED <<call, new_set, cursor_2, low, high>>

(* Faults: the last candidate is not looked at; the search does not leave   *)
(* the middle.                                                              *)
Exhausted_early == low >= high

after_stuck(mid) == mid

Exhausted == low > high

after(mid) == mid + 1

binary_search ==
  LET mid == low + (high - low) \div 2
  IN  /\ pc = "binary"
      /\ IF Exhausted THEN Answer(0) /\ UNCHANGED <<low, high>>
         ELSE IF first[mid].key = call.key
           THEN Answer(mid) /\ UNCHANGED <<low, high>>
         ELSE IF first[mid].key < call.key
           THEN low' = after(mid) /\ UNCHANGED <<pc, high, found>>
           ELSE high' = mid - 1 /\ UNCHANGED <<pc, low, found>>
      /\ UNCHANGED <<call, new_set, cursor_1, cursor_2>>

Next ==
  \/ prepare_vector_set \/ accept \/ verify
  \/ set_union \/ set_intersection \/ set_difference
  \/ linear_search \/ binary_search

Spec == Init /\ [][Next]_vars

FairSpec == Spec /\ WF_vars(Next)

-----------------------------------------------------------------------------
(* Correctness *)

TypeOK ==
  /\ call \in Call
  /\ pc \in BinaryOps \cup
            {"prepare_vector_set", "verify", "linear", "binary", "done", "thrown"}
  /\ new_set \in Seq(Element)
  /\ cursor_1 \in Nat /\ cursor_2 \in Nat
  /\ low \in Int /\ high \in Int
  /\ found \in 0 .. Len(first)

(* The elements of S whose keys T has not, those combined from both, and    *)
(* the result of call c on the sets S and T.                                *)
Only(S, T) == {e \in S : e.key \notin Keys(T)}

Matches(S, T) == {x \in S \X T : x[1].key = x[2].key}

Both(c, S, T) == {combined(c, x[1], x[2]) : x \in Matches(S, T)}

Result(c, S, T) ==
  CASE c.op = "set_union"        -> Only(S, T) \cup Only(T, S) \cup Both(c, S, T)
    [] c.op = "set_intersection" -> Both(c, S, T)
    [] c.op = "set_difference"   ->
         Only(S, T) \cup (IF c.nested THEN Both(c, S, T) ELSE {})

(* What a merge loop leaves behind is the result of the set operation, as   *)
(* a sorted vector without duplicates.  The result is registered with the   *)
(* integrity check disabled, so nothing else would notice.                  *)
MergedRight ==
  pc = "done" /\ call.op \in BinaryOps =>
    /\ IsPropertySet(new_set)
    /\ Elements(new_set) = Result(call, Elements(first), Elements(second))

(* Linear and binary search find a key exactly if the set has it, and       *)
(* return its element.                                                      *)
SearchedRight ==
  pc = "done" /\ call.op = "find_key" =>
    IF found = 0 THEN call.key \notin Keys(Elements(first))
                 ELSE first[found].key = call.key

(* register_set accepts exactly the sorted vectors without duplicate keys,  *)
(* which the merge loops and the binary search rely on; preparing a vector  *)
(* makes it acceptable unless a key comes with two values, and keeps its    *)
(* elements.                                                                *)
CheckedRight ==
  /\ pc = "done" /\ call.op = "register_set" => IsPropertySet(new_set)
  /\ pc = "thrown" /\ call.op = "register_set" => ~IsPropertySet(new_set)
  /\ pc = "done" /\ call.op = "prepare_vector_set" =>
       /\ IsPropertySet(new_set)
       /\ Elements(new_set) = Elements(first)
  /\ pc = "thrown" /\ call.op = "prepare_vector_set" =>
       ~OneValuePerKey(Elements(first))

(* Every loop comes to its end.                                             *)
Terminates == <>(pc \in {"done", "thrown"})
=============================================================================
