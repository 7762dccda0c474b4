---------------------------- MODULE ParallelForest ----------------------------
(***************************************************************************)
(* A LatticeHashForest built with LHF_ENABLE_PARALLEL and used by several   *)
(* threads.  Each find and insert of a map and each push_back of the        *)
(* storage takes its lock and is one step (MapAdapter, lhf.hpp 727-778;     *)
(* PropertySetStorage, module BlockStorage).  Nothing holds a lock across   *)
(* two of them: an operation looks something up, computes, and acts on what *)
(* it saw while other threads go on.                                        *)
(***************************************************************************)
EXTENDS ForestData

CONSTANTS Thread,    \* the threads that share the forest
          MaxCalls,  \* how many calls the threads make in all
          Prepared,  \* the sets registered before the threads start
          Filter     \* the predicates of set_filter, as the sets they keep

ASSUME ThreadAssumption == IsFiniteSet(Thread) /\ Thread # {}

ASSUME CallsAssumption == MaxCalls \in Nat

ASSUME PreparedAssumption ==
  /\ Prepared \in Seq((SUBSET Property) \ {{}})
  /\ \A i, j \in DOMAIN Prepared : Prepared[i] = Prepared[j] => i = j

ASSUME FilterAssumption == Filter \subseteq SUBSET Property

VARIABLES forest,    \* the members of the shared object
          caches,    \* the UnaryOperationMap shared per predicate
          pc,        \* where each thread is in its call
          local,     \* its call and variables, see Locals
          calls      \* how many calls were made

vars == <<forest, caches, pc, local, calls>>

Call(op, operands, set) == [op |-> op, operands |-> operands, set |-> set]

(* call: what the caller asked for, and ret the answer; op, a, b: the       *)
(* operation under way in it; set: the set being computed or registered;    *)
(* todo: the containments still to be recorded.                             *)
Locals(call, op, a, b, set, ret) ==
  [call |-> call, op |-> op, a |-> a, b |-> b, set |-> set, ret |-> ret,
   todo |-> <<>>]

Idle(call, r) == Locals(call, "none", 0, 0, {}, r)

Symmetric(op) == op \in {"set_union", "set_intersection"}

(* The map of results that an operation uses.                               *)
results(f, op) ==
  CASE op = "set_union"        -> f.unions
    [] op = "set_intersection" -> f.intersections
    [] op = "set_difference"   -> f.differences

meaning(f, op, a, b) ==
  CASE op = "set_union"        -> get_value(f, a) \cup get_value(f, b)
    [] op = "set_intersection" -> get_value(f, a) \cap get_value(f, b)
    [] op = "set_difference"   -> get_value(f, a) \ get_value(f, b)

Goto(t, label) == pc' = [pc EXCEPT ![t] = label]

Return(t, call, r) ==
  /\ Goto(t, "idle")
  /\ local' = [local EXCEPT ![t] = Idle(call, r)]

Perform(t, call, op, a, b, label) ==
  /\ Goto(t, label)
  /\ local' = [local EXCEPT ![t] = Locals(call, op, a, b, {}, 0)]

RegisterFor(t, call, s) ==
  /\ Goto(t, "find")
  /\ local' = [local EXCEPT ![t] = Locals(call, "register_set", 0, 0, s, 0)]

(* What an operation answers before it looks at anything shared, if it can. *)
trivial(op, a, b) ==
  CASE op = "set_union" ->
         IF a = b \/ is_empty(a) THEN {b} ELSE IF is_empty(b) THEN {a} ELSE {}
    [] op = "set_intersection" ->
         IF a = b THEN {a}
         ELSE IF is_empty(a) \/ is_empty(b) THEN {EMPTY_SET_VALUE} ELSE {}
    [] op = "set_difference" ->
         IF a = b \/ is_empty(a) THEN {EMPTY_SET_VALUE}
         ELSE IF is_empty(b) THEN {a} ELSE {}

Operate(t, call, op, a, b) ==
  \/ \E r \in trivial(op, a, b) : Return(t, call, r)
  \/ /\ trivial(op, a, b) = {}
     /\ IF Symmetric(op)
          THEN Perform(t, call, op, minimum(a, b), maximum(a, b),
                       "check_subset")
          ELSE Perform(t, call, op, a, b, "lookup")

-----------------------------------------------------------------------------
(* The calls of the public operations.                                      *)

Begin(t) ==
  /\ pc[t] = "idle" /\ calls < MaxCalls
  /\ calls' = calls + 1
  /\ UNCHANGED <<forest, caches>>

register_set(t, s) ==
  Begin(t) /\ RegisterFor(t, Call("register_set", <<>>, s), s)

operation(t, op, a, b) ==
  Begin(t) /\ Operate(t, Call(op, <<a, b>>, {}), op, a, b)

(* Both register the element's set first, as a call of its own would.       *)
set_insert_single(t, a, p) ==
  Begin(t) /\ RegisterFor(t, Call("set_insert_single", <<a>>, {p}), {p})

set_remove_single(t, a, p) ==
  Begin(t) /\ RegisterFor(t, Call("set_remove_single", <<a>>, {p}), {p})

set_remove_single_key(t, a, p) ==
  /\ Begin(t)
  /\ RegisterFor(t, Call("set_remove_single_key", <<a>>, {p}),
                 get_value(forest, a) \ {p})

set_filter(t, s, keep) ==
  LET call == Call("set_filter", <<s>>, keep)
  IN  /\ Begin(t)
      /\ \/ is_empty(s) /\ Return(t, call, s)
         \/ /\ ~is_empty(s)
            /\ Perform(t, call, "set_filter", s, s, "filter")

-----------------------------------------------------------------------------
(* Their steps.                                                             *)

(* Fault: the answers of a union, also for an intersection.                 *)
check_subset_as_union(t) ==
  LET l == local[t]
      r == is_subset(forest, l.a, l.b)
  IN  /\ pc[t] = "check_subset"
      /\ \/ r = "UNKNOWN" /\ Goto(t, "lookup") /\ UNCHANGED local
         \/ /\ r # "UNKNOWN"
            /\ Return(t, l.call, IF r = "SUBSET" THEN l.b ELSE l.a)
      /\ UNCHANGED <<forest, caches, calls>>

(* is_subset reads the subset map.                                          *)
check_subset(t) ==
  LET l == local[t]
      r == is_subset(forest, l.a, l.b)
  IN  /\ pc[t] = "check_subset"
      /\ \/ r = "UNKNOWN" /\ Goto(t, "lookup") /\ UNCHANGED local
         \/ /\ r # "UNKNOWN"
            /\ Return(t, l.call, IF (r = "SUBSET") = (l.op = "set_union")
                                   THEN l.b ELSE l.a)
      /\ UNCHANGED <<forest, caches, calls>>

(* The operation map is read; on a miss the merge loop runs over the two    *)
(* stored sets, which never change.                                         *)
lookup(t) ==
  LET l == local[t]
      m == results(forest, l.op)
  IN  /\ pc[t] = "lookup"
      /\ \/ /\ <<l.a, l.b>> \in DOMAIN m
            /\ Return(t, l.call, m[<<l.a, l.b>>])
         \/ /\ <<l.a, l.b>> \notin DOMAIN m
            /\ local' = [local EXCEPT
                           ![t].set = meaning(forest, l.op, l.a, l.b)]
            /\ Goto(t, "find")
      /\ UNCHANGED <<forest, caches, calls>>

(* set_filter reads the cache, and filters on a miss.                       *)
filter(t) ==
  LET l == local[t]
      m == caches[l.call.set]
  IN  /\ pc[t] = "filter"
      /\ \/ l.a \in DOMAIN m /\ Return(t, l.call, m[l.a])
         \/ /\ l.a \notin DOMAIN m
            /\ local' = [local EXCEPT
                           ![t].set = get_value(forest, l.a) \cap l.call.set]
            /\ Goto(t, "find")
      /\ UNCHANGED <<forest, caches, calls>>

(* The end of register_set: of the call, of its first half, or inside the   *)
(* operation that computed the set.                                         *)
Registered(t, r) ==
  LET l == local[t]
  IN  CASE l.op # "register_set" ->
             Goto(t, "record") /\ local' = [local EXCEPT ![t].ret = r]
        [] l.op = "register_set" /\ l.call.op = "set_insert_single" ->
             Operate(t, l.call, "set_union", l.call.operands[1], r)
        [] l.op = "register_set" /\ l.call.op = "set_remove_single" ->
             Operate(t, l.call, "set_difference", l.call.operands[1], r)
        [] OTHER -> Return(t, l.call, r)

(* Faults: the map is never asked; the index is one too high; the set is    *)
(* stored and not entered into the map.                                     *)
find_misses(t) ==
  /\ pc[t] = "find"
  /\ Goto(t, "push_back")
  /\ UNCHANGED <<forest, caches, local, calls>>

push_back_one_past(t) ==
  /\ pc[t] = "push_back"
  /\ forest' = [forest EXCEPT !.property_sets = Append(@, local[t].set)]
  /\ local' = [local EXCEPT ![t].ret = Len(forest.property_sets) + 1]
  /\ Goto(t, "insert")
  /\ UNCHANGED <<caches, calls>>

push_back_unpublished(t) ==
  /\ pc[t] = "push_back"
  /\ forest' = [forest EXCEPT !.property_sets = Append(@, local[t].set)]
  /\ Registered(t, Len(forest.property_sets))
  /\ UNCHANGED <<caches, calls>>

(* register_set: find, then push_back, then insert (lhf.hpp 1589-1597).     *)
find(t) ==
  LET s == local[t].set
  IN  /\ pc[t] = "find"
      /\ \/ /\ s \in DOMAIN forest.property_set_map
            /\ Registered(t, index_of(forest, s))
         \/ /\ s \notin DOMAIN forest.property_set_map
            /\ Goto(t, "push_back") /\ UNCHANGED local
      /\ UNCHANGED <<forest, caches, calls>>

push_back(t) ==
  /\ pc[t] = "push_back"
  /\ forest' = [forest EXCEPT !.property_sets = Append(@, local[t].set)]
  /\ local' = [local EXCEPT ![t].ret = Len(forest.property_sets)]
  /\ Goto(t, "insert")
  /\ UNCHANGED <<caches, calls>>

insert(t) ==
  LET l == local[t]
  IN  /\ pc[t] = "insert"
      /\ forest' = [forest EXCEPT
                      !.property_set_map = Insert(@, l.set, l.ret)]
      /\ Registered(t, l.ret)
      /\ UNCHANGED <<caches, calls>>

(* Fault: a difference is recorded as containing what it was taken from.    *)
containments_reversed(op, a, b, r) ==
  CASE op = "set_union" ->
         IF r = a THEN <<<<b, r>>>>
         ELSE IF r = b THEN <<<<a, r>>>> ELSE <<<<a, r>>, <<b, r>>>>
    [] op = "set_intersection" ->
         IF r # a THEN <<<<r, a>>>> ELSE <<<<r, b>>>>
    [] op = "set_difference" -> IF r # a THEN <<<<a, r>>>> ELSE <<>>

(* The containments an operation records once its result is known.          *)
containments(op, a, b, r) ==
  CASE op = "set_union" ->
         IF r = a THEN <<<<b, r>>>>
         ELSE IF r = b THEN <<<<a, r>>>> ELSE <<<<a, r>>, <<b, r>>>>
    [] op = "set_intersection" ->
         IF r # a THEN <<<<r, a>>>> ELSE <<<<r, b>>>>
    [] op = "set_difference" -> IF r # a THEN <<<<r, a>>>> ELSE <<>>

(* Fault: the result is not entered into the operation map.                 *)
record_not(t) ==
  LET l == local[t]
  IN  /\ pc[t] = "record" /\ l.op # "set_filter"
      /\ local' = [local EXCEPT
                     ![t].todo = containments(l.op, l.a, l.b, l.ret)]
      /\ Goto(t, "relate")
      /\ UNCHANGED <<forest, caches, calls>>

(* The result enters the operation map, if no other thread's did before.    *)
record(t) ==
  LET l == local[t]
      k == <<l.a, l.b>>
  IN  /\ pc[t] = "record" /\ l.op # "set_filter"
      /\ forest' =
           CASE l.op = "set_union" ->
                  [forest EXCEPT !.unions = Insert(@, k, l.ret)]
             [] l.op = "set_intersection" ->
                  [forest EXCEPT !.intersections = Insert(@, k, l.ret)]
             [] l.op = "set_difference" ->
                  [forest EXCEPT !.differences = Insert(@, k, l.ret)]
      /\ local' = [local EXCEPT
                     ![t].todo = containments(l.op, l.a, l.b, l.ret)]
      /\ Goto(t, "relate")
      /\ UNCHANGED <<caches, calls>>

(* The caller's cache, in which another thread may have been first.         *)
record_filter(t) ==
  LET l == local[t]
  IN  /\ pc[t] = "record" /\ l.op = "set_filter"
      /\ caches' = [caches EXCEPT ![l.call.set] = Insert(@, l.a, l.ret)]
      /\ Return(t, l.call, l.ret)
      /\ UNCHANGED <<forest, calls>>

(* One store_subset, or the disjoint intersection that a difference found.  *)
relate(t) ==
  LET l == local[t]
  IN  /\ pc[t] = "relate"
      /\ IF l.todo = <<>>
           THEN forest' = [forest EXCEPT !.intersections =
                             Insert(@, <<minimum(l.a, l.b), maximum(l.a, l.b)>>,
                                    EMPTY_SET_VALUE)]
           ELSE forest' = store_subset(forest, Head(l.todo)[1], Head(l.todo)[2])
      /\ IF Len(l.todo) > 1
           THEN local' = [local EXCEPT ![t].todo = Tail(@)] /\ UNCHANGED pc
           ELSE Return(t, l.call, l.ret)
      /\ UNCHANGED <<caches, calls>>

-----------------------------------------------------------------------------

(* The constructor and the registrations of the thread that starts others.  *)
PreparedForest ==
  LET sets == <<{}>> \o Prepared
  IN  [FreshForest EXCEPT
         !.property_sets = sets,
         !.property_set_map =
            [s \in {sets[i] : i \in DOMAIN sets} |->
               (CHOOSE i \in DOMAIN sets : sets[i] = s) - 1]]

Init ==
  /\ forest = PreparedForest
  /\ caches = [keep \in Filter |-> NoEntries]
  /\ pc = [t \in Thread |-> "idle"]
  /\ local = [t \in Thread |-> Idle(Call("none", <<>>, {}), 0)]
  /\ calls = 0

Step(t) ==
  \/ check_subset(t) \/ lookup(t) \/ filter(t)
  \/ find(t) \/ push_back(t) \/ insert(t)
  \/ record(t) \/ record_filter(t) \/ relate(t)

Next ==
  \E t \in Thread :
    \/ \E s \in SUBSET Property : register_set(t, s)
    \/ \E op \in BinaryOps, a, b \in Indices(forest) : operation(t, op, a, b)
    \/ \E a \in Indices(forest), p \in Property :
         \/ set_insert_single(t, a, p)
         \/ set_remove_single(t, a, p)
         \/ set_remove_single_key(t, a, p)
    \/ \E s \in Indices(forest), keep \in Filter : set_filter(t, s, keep)
    \/ Step(t)

Spec == Init /\ [][Next]_vars

(* Correctness *)

(* All indices that threads hold or maps lead to exist, so the unlocked     *)
(* reads between two steps never run past the storage.                      *)
TypeOK ==
  /\ ForestType(forest)
  /\ caches = [keep \in Filter |-> caches[keep]]
  /\ \A keep \in Filter :
       IsMap(caches[keep], Indices(forest), Indices(forest))
  /\ pc \in [Thread -> {"idle", "check_subset", "lookup", "filter", "find",
                        "push_back", "insert", "record", "relate"}]
  /\ calls \in 0 .. MaxCalls
  /\ \A t \in Thread :
       /\ local[t].call.operands \in Seq(Indices(forest))
       /\ {local[t].a, local[t].b, local[t].ret} \subseteq Indices(forest)
       /\ local[t].set \in SUBSET Property
       /\ \A i \in DOMAIN local[t].todo : local[t].todo[i] \in Pairs(forest)

(* Threads that race to compute and record the same things never make the   *)
(* forest, or a filter cache that they share, remember something false:     *)
(* what a thread saw before it was interrupted stays true, because stored   *)
(* sets do not change.                                                      *)
RecordsSound ==
  /\ Sound(forest)
  /\ \A keep \in Filter : \A s \in DOMAIN caches[keep] :
       get_value(forest, caches[keep][s]) = get_value(forest, s) \cap keep

(* Every stored set can be found through property_set_map, except by the    *)
(* thread that stored it and has not reached the insertion yet; and what is *)
(* found is the set looked for.                                             *)
StoredIsFindable ==
  /\ \A i \in Indices(forest) :
       \/ get_value(forest, i) \in DOMAIN forest.property_set_map
       \/ \E t \in Thread : pc[t] = "insert" /\ local[t].ret = i
  /\ \A s \in DOMAIN forest.property_set_map :
       get_value(forest, index_of(forest, s)) = s

Returned(t) == pc[t] = "idle" /\ local[t].call.op # "none"

(* The set that a call asks for.                                            *)
asked(f, call) ==
  LET x == call.operands
  IN  CASE call.op = "register_set" -> call.set
        [] call.op \in BinaryOps -> meaning(f, call.op, x[1], x[2])
        [] call.op = "set_insert_single" -> get_value(f, x[1]) \cup call.set
        [] call.op \in {"set_remove_single", "set_remove_single_key"} ->
             get_value(f, x[1]) \ call.set
        [] call.op = "set_filter" -> get_value(f, x[1]) \cap call.set

(* A call returns the index of the set it asked for, whatever the other     *)
(* threads did meanwhile, and between its two halves if it has two.         *)
AnswersRight ==
  \A t \in Thread :
    Returned(t) =>
      get_value(forest, local[t].ret) = asked(forest, local[t].call)

(* ... and afterwards any thread that makes the same call is answered from  *)
(* memory, with an index of the same set.                                   *)
AnswersRemembered ==
  \A t \in Thread :
    Returned(t) /\ local[t].call.op \in BinaryOps =>
      LET x == local[t].call.operands
          m == remembered(forest, local[t].call.op, x[1], x[2])
      IN  /\ m # {}
          /\ \A r \in m :
               get_value(forest, r) = get_value(forest, local[t].ret)

(* Races give a set several indices, but each thread can add only one: once *)
(* a thread has inserted a set, every later find of it succeeds.            *)
DuplicatesBounded ==
  \A s \in SUBSET Property :
    Cardinality({i \in Indices(forest) : get_value(forest, i) = s})
      <= IF s = {} THEN 1 ELSE Cardinality(Thread)

(* The guide's first guarantee: "Map each and every property set to a       *)
(* unique integer identifier".                                              *)
UniqueIdentifiers ==
  \A i, j \in Indices(forest) :
    get_value(forest, i) = get_value(forest, j) => i = j
=============================================================================
