------------------------ MODULE ParallelForestProofs ------------------------
(* What holds of ParallelForest for any number of threads, calls and sets:  *)
(* its types, the truth of what threads record, that stored sets are found, *)
(* the answers, that answers are remembered, and how often a set is stored. *)
EXTENDS ParallelForest, ForestDataProofs, FiniteSetTheorems, TLAPS

-----------------------------------------------------------------------------
(* The inductive invariant *)

Halves == {"set_insert_single", "set_remove_single"}

CallOps ==
  BinaryOps \cup Halves
    \cup {"register_set", "set_remove_single_key", "set_filter"}

(* c is a call that some thread can have made while f was the forest.       *)
CallType(f, c) ==
  /\ c.op \in CallOps
  /\ c.set \in SUBSET Property
  /\ c.operands \in Seq(Indices(f))
  /\ c.op \in BinaryOps => Len(c.operands) = 2
  /\ c.op \in CallOps \ (BinaryOps \cup {"register_set"})
       => Len(c.operands) = 1
  /\ c.op = "set_filter" => c.set \in Filter

Labels == {"idle", "check_subset", "lookup", "filter", "find", "push_back",
           "insert", "record", "relate"}

LocalType(f, l) ==
  /\ l = [call |-> l.call, op |-> l.op, a |-> l.a, b |-> l.b, set |-> l.set,
          ret |-> l.ret, todo |-> l.todo]
  /\ l.call.operands \in Seq(Indices(f))
  /\ l.a \in Indices(f) /\ l.b \in Indices(f) /\ l.ret \in Indices(f)
  /\ l.set \in SUBSET Property
  /\ l.todo \in Seq(Pairs(f))

(* The operation under way computes what the call asks for: itself, or the  *)
(* second half of a call whose first has registered an element.             *)
Operates(f, l) ==
  /\ l.op \in BinaryOps
  /\ l.a # 0 /\ l.b # 0 /\ l.a # l.b
  /\ Symmetric(l.op) => l.a < l.b
  /\ meaning(f, l.op, l.a, l.b) = asked(f, l.call)

Filters(l) ==
  /\ l.op = "set_filter"
  /\ l.call.op = "set_filter"
  /\ l.a = l.call.operands[1]

Registers(l) ==
  /\ l.op = "register_set"
  /\ l.call.op \notin BinaryOps \cup {"set_filter"}

Busy(f, l) ==
  /\ CallType(f, l.call)
  /\ Operates(f, l) \/ Filters(l) \/ Registers(l)

(* The set that is being looked for or stored.                              *)
wanted(f, l) ==
  IF l.op = "register_set" /\ l.call.op \in Halves
    THEN l.call.set
    ELSE asked(f, l.call)

(* What is still to be recorded is true.                                    *)
TodoTrue(f, l) ==
  /\ l.todo = <<>> => get_value(f, l.a) \cap get_value(f, l.b) = {}
  /\ \A i \in DOMAIN l.todo :
       /\ l.todo[i][1] # l.todo[i][2]
       /\ get_value(f, l.todo[i][1]) \subseteq get_value(f, l.todo[i][2])

(* What a thread at label p knows.  It holds in every later forest too,     *)
(* which is why it may act on what it saw before others moved on.           *)
Knows(f, p, l) ==
  /\ p \in Labels
  /\ LocalType(f, l)
  /\ p = "idle" /\ l.call.op # "none" =>
       CallType(f, l.call) /\ get_value(f, l.ret) = asked(f, l.call)
  /\ p # "idle" => Busy(f, l)
  /\ p = "check_subset" => Symmetric(l.op)
  /\ p = "lookup" => l.op \in BinaryOps
  /\ p = "filter" => l.op = "set_filter"
  /\ p \in {"find", "push_back", "insert"} => l.set = wanted(f, l)
  /\ p = "insert" => get_value(f, l.ret) = l.set
  /\ p \in {"record", "relate"} =>
       l.op # "register_set" /\ get_value(f, l.ret) = asked(f, l.call)
  /\ p = "relate" => l.op \in BinaryOps /\ TodoTrue(f, l)

CachesTrue(f, c) ==
  /\ c = [keep \in Filter |-> c[keep]]
  /\ \A keep \in Filter :
       /\ IsMap(c[keep], Indices(f), Indices(f))
       /\ \A s \in DOMAIN c[keep] :
            get_value(f, c[keep][s]) = get_value(f, s) \cap keep

(* Every index is in the map, or its thread is on the way to the insertion. *)
Findable(f, labels, locals) ==
  \A i \in Indices(f) :
    \/ get_value(f, i) \in DOMAIN f.property_set_map
    \/ \E t \in Thread : labels[t] = "insert" /\ locals[t].ret = i

Typed(f, labels, locals) ==
  /\ labels = [t \in Thread |-> labels[t]]
  /\ locals = [t \in Thread |-> locals[t]]
  /\ \A t \in Thread : Knows(f, labels[t], locals[t])

IInv ==
  /\ Trusted(forest)
  /\ CachesTrue(forest, caches)
  /\ Typed(forest, pc, local)
  /\ Findable(forest, pc, local)
  /\ calls \in 0 .. MaxCalls

-----------------------------------------------------------------------------
(* What was true stays true *)

(* A call asks for the same set in every later forest.                      *)
LEMMA AskedLemma ==
  ASSUME NEW f, NEW g, Later(f, g), NEW c, CallType(f, c)
  PROVE  CallType(g, c) /\ asked(g, c) = asked(f, c)
<1>1. \A i \in Indices(f) : i \in Indices(g) /\ get_value(g, i) = get_value(f, i)
  BY DEF Later
<1>2. CallType(g, c)
  <2>1. \A s : s \in Seq(Indices(f)) => s \in Seq(Indices(g))
    BY DEF Later
  <2>. QED
    BY <2>1 DEF CallType
<1>3. CASE c.op \in BinaryOps
  <2>1. c.operands[1] \in Indices(f) /\ c.operands[2] \in Indices(f)
    BY <1>3 DEF CallType
  <2>. QED
    BY <1>1, <1>2, <1>3, <2>1 DEF asked, meaning, BinaryOps
<1>4. CASE c.op = "register_set"
  BY <1>2, <1>4 DEF asked
<1>5. CASE c.op \in CallOps \ (BinaryOps \cup {"register_set"})
  <2>1. c.operands[1] \in Indices(f)
    BY <1>5 DEF CallType
  <2>. QED
    BY <1>1, <1>2, <1>5, <2>1 DEF asked, CallOps, Halves, BinaryOps
<1>. QED
  BY <1>3, <1>4, <1>5 DEF CallType

(* What a thread knows outlives the steps of the others.                    *)
LEMMA KnowsLemma ==
  ASSUME NEW f, NEW g, Later(f, g), NEW p, NEW l, Knows(f, p, l)
  PROVE  Knows(g, p, l)
<1>1. \A i \in Indices(f) : i \in Indices(g) /\ get_value(g, i) = get_value(f, i)
  BY DEF Later
<1>2. LocalType(g, l)
  <2>1. \A s : s \in Seq(Indices(f)) => s \in Seq(Indices(g))
    BY DEF Later
  <2>2. Pairs(f) \subseteq Pairs(g)
    BY DEF Later, Pairs
  <2>3. \A s : s \in Seq(Pairs(f)) => s \in Seq(Pairs(g))
    BY <2>2
  <2>4. LocalType(f, l)
    BY DEF Knows
  <2>. QED
    BY <1>1, <2>1, <2>3, <2>4 DEF LocalType
<1>3. /\ l.a \in Indices(f) /\ l.b \in Indices(f) /\ l.ret \in Indices(f)
      /\ l.todo \in Seq(Pairs(f))
  BY DEF Knows, LocalType
<1>4. ASSUME CallType(f, l.call)
      PROVE  /\ CallType(g, l.call)
             /\ asked(g, l.call) = asked(f, l.call)
             /\ wanted(g, l) = wanted(f, l)
  BY <1>4, AskedLemma DEF wanted
<1>5. ASSUME Operates(f, l), CallType(f, l.call)
      PROVE  Operates(g, l)
  <2>1. meaning(g, l.op, l.a, l.b) = meaning(f, l.op, l.a, l.b)
    BY <1>1, <1>3 DEF meaning
  <2>. QED
    BY <1>4, <1>5, <2>1 DEF Operates
<1>6. ASSUME Busy(f, l)
      PROVE  Busy(g, l)
  BY <1>4, <1>5, <1>6 DEF Busy
<1>7. ASSUME TodoTrue(f, l)
      PROVE  TodoTrue(g, l)
  <2>1. \A i \in DOMAIN l.todo :
          l.todo[i][1] \in Indices(f) /\ l.todo[i][2] \in Indices(f)
    BY <1>3 DEF Pairs
  <2>. QED
    BY <1>1, <1>3, <1>7, <2>1 DEF TodoTrue
<1>8. get_value(g, l.ret) = get_value(f, l.ret)
  BY <1>1, <1>3
<1>. QED
  BY <1>2, <1>4, <1>6, <1>7, <1>8 DEF Knows, Busy

(* So do the caches, and a set that can be found stays so.                  *)
LEMMA CachesLemma ==
  ASSUME NEW f, NEW g, Later(f, g), NEW c, CachesTrue(f, c)
  PROVE  CachesTrue(g, c)
BY DEF CachesTrue, Later, IsMap

(* A step of thread t keeps the invariant if the forest only grows, t knows *)
(* what it needs afterwards, and no stored set is lost from view.           *)
LEMMA MovedLemma ==
  ASSUME IInv, NEW t \in Thread, NEW p, NEW l,
         Trusted(forest'), Later(forest, forest'),
         CachesTrue(forest', caches'),
         pc' = [pc EXCEPT ![t] = p], local' = [local EXCEPT ![t] = l],
         Knows(forest', p, l),
         Findable(forest', pc', local'),
         calls' \in 0 .. MaxCalls
  PROVE  IInv'
<1>1. /\ pc' = [x \in Thread |-> pc'[x]]
      /\ local' = [x \in Thread |-> local'[x]]
      /\ pc'[t] = p /\ local'[t] = l
      /\ \A x \in Thread \ {t} : pc'[x] = pc[x] /\ local'[x] = local[x]
  BY DEF IInv, Typed
<1>2. ASSUME NEW x \in Thread
      PROVE  Knows(forest', pc'[x], local'[x])
  <2>1. CASE x = t
    BY <1>1, <2>1
  <2>2. CASE x # t
    <3>1. Knows(forest, pc[x], local[x])
      BY DEF IInv, Typed
    <3>2. Knows(forest', pc[x], local[x])
      BY <3>1, KnowsLemma
    <3>. QED
      BY <1>1, <2>2, <3>2
  <2>. QED
    BY <2>1, <2>2
<1>3. Typed(forest', pc', local')
  BY <1>1, <1>2 DEF Typed
<1>. QED
  BY <1>3 DEF IInv

(* A step that leaves the shared object alone, of a thread that has nothing *)
(* to insert.                                                               *)
LEMMA AloneLemma ==
  ASSUME IInv, NEW t \in Thread, NEW p, NEW l,
         UNCHANGED <<forest, caches>>,
         pc' = [pc EXCEPT ![t] = p], local' = [local EXCEPT ![t] = l],
         pc[t] # "insert",
         Knows(forest, p, l),
         calls' \in 0 .. MaxCalls
  PROVE  IInv'
<1>1. Later(forest, forest')
  BY DEF Later
<1>2. Findable(forest', pc', local')
  <2>1. \A x \in Thread : pc[x] = "insert" =>
          pc'[x] = "insert" /\ local'[x] = local[x]
    BY DEF IInv, Typed
  <2>. QED
    BY <2>1 DEF IInv, Findable
<1>3. Trusted(forest') /\ CachesTrue(forest', caches') /\ Knows(forest', p, l)
  BY DEF IInv
<1>. QED
  BY <1>1, <1>2, <1>3, MovedLemma

-----------------------------------------------------------------------------
(* What a thread knows after each kind of step *)

(* ... when it returns an index of the set that was asked for;              *)
LEMMA ReturnedLemma ==
  ASSUME NEW f, Trusted(f), NEW c, CallType(f, c), NEW r \in Indices(f),
         get_value(f, r) = asked(f, c)
  PROVE  Knows(f, "idle", Idle(c, r))
<1> DEFINE l == Idle(c, r)
<1>1. l = [call |-> c, op |-> "none", a |-> 0, b |-> 0, set |-> {}, ret |-> r,
           todo |-> <<>>]
  BY DEF Idle, Locals
<1>. HIDE DEF l
<1>2. /\ 0 \in Indices(f)
      /\ c.operands \in Seq(Indices(f))
      /\ <<>> \in Seq(Pairs(f))
  BY DEF Trusted, ForestType, Indices, CallType
<1>3. LocalType(f, l)
  BY <1>1, <1>2 DEF LocalType
<1>4. Knows(f, "idle", l)
  BY <1>1, <1>3 DEF Knows, Labels
<1>. QED
  BY <1>4 DEF l

(* ... when it starts an operation;                                         *)
LEMMA PerformedLemma ==
  ASSUME NEW f, Trusted(f), NEW c, CallType(f, c), NEW op \in BinaryOps,
         NEW a \in Indices(f), NEW b \in Indices(f), NEW p,
         p = IF Symmetric(op) THEN "check_subset" ELSE "lookup",
         a # 0, b # 0, a # b, Symmetric(op) => a < b,
         meaning(f, op, a, b) = asked(f, c)
  PROVE  Knows(f, p, Locals(c, op, a, b, {}, 0))
<1> DEFINE l == Locals(c, op, a, b, {}, 0)
<1>1. l = [call |-> c, op |-> op, a |-> a, b |-> b, set |-> {}, ret |-> 0,
           todo |-> <<>>]
  BY DEF Idle, Locals
<1>. HIDE DEF l
<1>2. /\ 0 \in Indices(f)
      /\ c.operands \in Seq(Indices(f))
      /\ <<>> \in Seq(Pairs(f))
  BY DEF Trusted, ForestType, Indices, CallType
<1>3. LocalType(f, l)
  BY <1>1, <1>2 DEF LocalType
<1>4. Busy(f, l)
  BY <1>1 DEF Busy, Operates
<1>5. Knows(f, p, l)
  BY <1>1, <1>3, <1>4 DEF Knows, Labels
<1>. QED
  BY <1>5 DEF l

(* ... when it registers a set.                                             *)
LEMMA RegisteringLemma ==
  ASSUME NEW f, Trusted(f), NEW c, CallType(f, c),
         c.op \notin BinaryOps \cup {"set_filter"}, NEW s \in SUBSET Property,
         s = IF c.op \in Halves THEN c.set ELSE asked(f, c)
  PROVE  Knows(f, "find",
               Locals(c, "register_set", 0, 0, s, 0))
<1> DEFINE l == Locals(c, "register_set", 0, 0, s, 0)
<1>1. l = [call |-> c, op |-> "register_set", a |-> 0, b |-> 0, set |-> s,
           ret |-> 0, todo |-> <<>>]
  BY DEF Idle, Locals
<1>. HIDE DEF l
<1>2. /\ 0 \in Indices(f)
      /\ c.operands \in Seq(Indices(f))
      /\ <<>> \in Seq(Pairs(f))
  BY DEF Trusted, ForestType, Indices, CallType
<1>3. LocalType(f, l)
  BY <1>1, <1>2 DEF LocalType
<1>4. Busy(f, l) /\ l.set = wanted(f, l)
  BY <1>1 DEF Busy, Registers, wanted
<1>5. Knows(f, "find", l)
  BY <1>1, <1>3, <1>4 DEF Knows, Labels
<1>. QED
  BY <1>5 DEF l

(* An answer that an operation has before it looks is right.                *)
LEMMA TrivialLemma ==
  ASSUME NEW f, Trusted(f), NEW op \in BinaryOps, NEW a \in Indices(f),
         NEW b \in Indices(f)
  PROVE  /\ \A r \in trivial(op, a, b) :
              r \in Indices(f) /\ get_value(f, r) = meaning(f, op, a, b)
         /\ trivial(op, a, b) = {} => a # 0 /\ b # 0 /\ a # b
<1>1. get_value(f, 0) = {} /\ 0 \in Indices(f)
  BY DEF Trusted, ForestType, Indices, EMPTY_SET_VALUE
<1>2. CASE op = "set_union"
  BY <1>1, <1>2 DEF trivial, meaning, is_empty, EMPTY_SET_VALUE
<1>3. CASE op = "set_intersection"
  BY <1>1, <1>3 DEF trivial, meaning, is_empty, EMPTY_SET_VALUE
<1>4. CASE op = "set_difference"
  BY <1>1, <1>4 DEF trivial, meaning, is_empty, EMPTY_SET_VALUE
<1>. QED
  BY <1>2, <1>3, <1>4 DEF BinaryOps

(* Starting an operation, as a call or as the second half of one, moves the *)
(* thread to a label other than that of an insertion, knowing what it must. *)
LEMMA OperateLemma ==
  ASSUME NEW f, Trusted(f), NEW t, NEW c, CallType(f, c),
         NEW op \in BinaryOps, NEW a \in Indices(f), NEW b \in Indices(f),
         meaning(f, op, a, b) = asked(f, c), Operate(t, c, op, a, b)
  PROVE  \E p, l : /\ pc' = [pc EXCEPT ![t] = p]
                   /\ local' = [local EXCEPT ![t] = l]
                   /\ Knows(f, p, l)
<1>1. CASE trivial(op, a, b) # {}
  <2>1. PICK r \in trivial(op, a, b) : Return(t, c, r)
    BY <1>1 DEF Operate
  <2>2. r \in Indices(f) /\ get_value(f, r) = asked(f, c)
    BY <2>1, TrivialLemma
  <2>3. Knows(f, "idle", Idle(c, r))
    BY <2>2, ReturnedLemma
  <2>. QED
    BY <2>1, <2>3 DEF Return, Goto
<1>2. CASE trivial(op, a, b) = {}
  <2>1. a # 0 /\ b # 0 /\ a # b
    BY <1>2, TrivialLemma
  <2>2. CASE Symmetric(op)
    <3> DEFINE x == minimum(a, b)
               y == maximum(a, b)
    <3>1. /\ x \in Indices(f) /\ y \in Indices(f)
          /\ x # 0 /\ y # 0 /\ x < y
      BY <2>1 DEF minimum, maximum, Indices
    <3>2. meaning(f, op, x, y) = meaning(f, op, a, b)
      BY <2>2 DEF minimum, maximum, meaning, Symmetric
    <3>3. x # y
      BY <3>1 DEF Indices
    <3>. HIDE DEF x, y
    <3>4. Knows(f, "check_subset",
                Locals(c, op, x, y, {}, 0))
      BY <2>2, <3>1, <3>2, <3>3, PerformedLemma
    <3>5. Perform(t, c, op, x, y, "check_subset")
      BY <1>2, <2>2 DEF Operate, x, y
    <3>. QED
      BY <3>4, <3>5 DEF Perform, Goto
  <2>3. CASE ~Symmetric(op)
    <3>1. Knows(f, "lookup",
                Locals(c, op, a, b, {}, 0))
      BY <2>1, <2>3, PerformedLemma
    <3>2. Perform(t, c, op, a, b, "lookup")
      BY <1>2, <2>3 DEF Operate
    <3>. QED
      BY <3>1, <3>2 DEF Perform, Goto
  <2>. QED
    BY <2>2, <2>3
<1>. QED
  BY <1>1, <1>2

(* The variables of a thread after one of them was assigned.                *)
LEMMA AssignedLemma ==
  ASSUME NEW f, NEW l, LocalType(f, l), NEW s \in SUBSET Property,
         NEW r \in Indices(f), NEW todo \in Seq(Pairs(f))
  PROVE  /\ [l EXCEPT !.set = s] =
              [call |-> l.call, op |-> l.op, a |-> l.a, b |-> l.b,
               set |-> s, ret |-> l.ret, todo |-> l.todo]
         /\ [l EXCEPT !.ret = r] =
              [call |-> l.call, op |-> l.op, a |-> l.a, b |-> l.b,
               set |-> l.set, ret |-> r, todo |-> l.todo]
         /\ [l EXCEPT !.todo = todo] =
              [call |-> l.call, op |-> l.op, a |-> l.a, b |-> l.b,
               set |-> l.set, ret |-> l.ret, todo |-> todo]
         /\ LocalType(f, [l EXCEPT !.set = s])
         /\ LocalType(f, [l EXCEPT !.ret = r])
         /\ LocalType(f, [l EXCEPT !.todo = todo])
<1> DEFINE x == [l EXCEPT !.set = s]
           y == [l EXCEPT !.ret = r]
           z == [l EXCEPT !.todo = todo]
<1>0. l = [call |-> l.call, op |-> l.op, a |-> l.a, b |-> l.b, set |-> l.set,
           ret |-> l.ret, todo |-> l.todo]
  BY DEF LocalType
<1>1. x = [call |-> l.call, op |-> l.op, a |-> l.a, b |-> l.b,
           set |-> s, ret |-> l.ret, todo |-> l.todo]
  BY <1>0
<1>2. y = [call |-> l.call, op |-> l.op, a |-> l.a, b |-> l.b,
           set |-> l.set, ret |-> r, todo |-> l.todo]
  BY <1>0
<1>3. z = [call |-> l.call, op |-> l.op, a |-> l.a, b |-> l.b,
           set |-> l.set, ret |-> l.ret, todo |-> todo]
  BY <1>0
<1>. HIDE DEF x, y, z
<1>4. LocalType(f, x) /\ LocalType(f, y) /\ LocalType(f, z)
  BY <1>1, <1>2, <1>3 DEF LocalType
<1>. QED
  BY <1>1, <1>2, <1>3, <1>4 DEF x, y, z

(* A thread that computed the wanted set may look for it.                   *)
LEMMA SeekingLemma ==
  ASSUME NEW f, NEW p, NEW l, Knows(f, p, l), p # "idle",
         NEW s \in SUBSET Property, s = wanted(f, l)
  PROVE  Knows(f, "find", [l EXCEPT !.set = s])
<1> DEFINE x == [l EXCEPT !.set = s]
<1>1. LocalType(f, l) /\ Busy(f, l)
  BY DEF Knows
<1>2. /\ LocalType(f, x)
      /\ x.call = l.call /\ x.op = l.op /\ x.a = l.a /\ x.b = l.b /\ x.set = s
  BY <1>1, AssignedLemma DEF LocalType
<1>. HIDE DEF x
<1>3. Busy(f, x) /\ x.set = wanted(f, x)
  BY <1>1, <1>2 DEF Busy, Operates, Filters, Registers, wanted
<1>4. Knows(f, "find", x)
  BY <1>2, <1>3 DEF Knows, Labels
<1>. QED
  BY <1>4 DEF x

(* A stored set is a set of properties.                                     *)
LEMMA ValueLemma ==
  ASSUME NEW f, Trusted(f), NEW i \in Indices(f)
  PROVE  get_value(f, i) \in SUBSET Property
BY DEF Trusted, ForestType, Indices, get_value

(* What the thread knows before its step.                                   *)
LEMMA BeforeLemma ==
  ASSUME IInv, NEW t \in Thread
  PROVE  /\ Trusted(forest)
         /\ Knows(forest, pc[t], local[t])
         /\ LocalType(forest, local[t])
         /\ pc = [pc EXCEPT ![t] = pc[t]]
         /\ local = [local EXCEPT ![t] = local[t]]
         /\ calls \in 0 .. MaxCalls
BY DEF IInv, Typed, Knows

-----------------------------------------------------------------------------
(* The steps that read                                                      *)

LEMMA CheckSubsetStep ==
  ASSUME IInv, NEW t \in Thread, check_subset(t)
  PROVE  IInv'
<1> DEFINE l == local[t]
           r == is_subset(forest, l.a, l.b)
<1>1. /\ Trusted(forest) /\ LocalType(forest, l)
      /\ Knows(forest, "check_subset", l)
      /\ pc[t] = "check_subset"
      /\ local = [local EXCEPT ![t] = l]
      /\ calls' \in 0 .. MaxCalls /\ UNCHANGED <<forest, caches>>
  BY BeforeLemma DEF check_subset
<1>2. CallType(forest, l.call) /\ Operates(forest, l) /\ Symmetric(l.op)
  BY <1>1 DEF Knows, Busy, Filters, Registers, Symmetric
<1>3. CASE r = "UNKNOWN"
  <2>1. Knows(forest, "lookup", l)
    BY <1>1, <1>2 DEF Knows, Operates, Labels
  <2>2. pc' = [pc EXCEPT ![t] = "lookup"] /\ local' = [local EXCEPT ![t] = l]
    BY <1>1, <1>3 DEF check_subset, Goto
  <2>. QED
    BY <1>1, <2>1, <2>2, AloneLemma
<1>4. CASE r # "UNKNOWN"
  <2> DEFINE v == IF (r = "SUBSET") = (l.op = "set_union") THEN l.b ELSE l.a
             k == <<l.a, l.b>>
  <2>1. k \in DOMAIN forest.subsets /\ r = forest.subsets[k]
    BY <1>4 DEF is_subset
  <2>2. r \in {"SUBSET", "SUPERSET"}
    BY <1>1, <2>1 DEF Trusted, ForestType, IsMap
  <2>3. /\ r = "SUBSET" =>
             get_value(forest, l.a) \subseteq get_value(forest, l.b)
        /\ r = "SUPERSET" =>
             get_value(forest, l.b) \subseteq get_value(forest, l.a)
    BY <1>1, <2>1 DEF Trusted, Sound, SubsetsSound
  <2>4. v \in Indices(forest)
    BY <1>1 DEF LocalType
  <2>5. get_value(forest, v) = meaning(forest, l.op, l.a, l.b)
    BY <1>2, <2>2, <2>3 DEF meaning, Symmetric
  <2>6. get_value(forest, v) = asked(forest, l.call)
    BY <1>2, <2>5 DEF Operates
  <2>7. /\ pc' = [pc EXCEPT ![t] = "idle"]
        /\ local' = [local EXCEPT ![t] = Idle(l.call, v)]
    BY <1>4 DEF check_subset, Return, Goto
  <2>. HIDE DEF v
  <2>8. Knows(forest, "idle", Idle(l.call, v))
    BY <1>1, <1>2, <2>4, <2>6, ReturnedLemma
  <2>. QED
    BY <1>1, <2>7, <2>8, AloneLemma
<1>. QED
  BY <1>3, <1>4

LEMMA LookupStep ==
  ASSUME IInv, NEW t \in Thread, lookup(t)
  PROVE  IInv'
<1> DEFINE l == local[t]
           m == results(forest, l.op)
           k == <<l.a, l.b>>
<1>1. /\ Trusted(forest) /\ LocalType(forest, l)
      /\ Knows(forest, "lookup", l)
      /\ pc[t] = "lookup"
      /\ local = [local EXCEPT ![t] = l]
      /\ calls' \in 0 .. MaxCalls /\ UNCHANGED <<forest, caches>>
  BY BeforeLemma DEF lookup
<1>2. CallType(forest, l.call) /\ Operates(forest, l)
  BY <1>1 DEF Knows, Busy, Filters, Registers, BinaryOps
<1>3. CASE k \in DOMAIN m
  <2>1. /\ m[k] \in Indices(forest)
        /\ get_value(forest, m[k]) = meaning(forest, l.op, l.a, l.b)
    <3>1. CASE l.op = "set_union"
      <4>1. m = forest.unions
        BY <3>1 DEF results
      <4>2. IsMap(m, Pairs(forest), Indices(forest)) /\ UnionsSound(forest)
        BY <1>1, <4>1 DEF Trusted, ForestType, Sound
      <4>. QED
        BY <1>3, <3>1, <4>1, <4>2 DEF IsMap, UnionsSound, meaning
    <3>2. CASE l.op = "set_intersection"
      <4>1. m = forest.intersections
        BY <3>2 DEF results
      <4>2. IsMap(m, Pairs(forest), Indices(forest)) /\ IntersectionsSound(forest)
        BY <1>1, <4>1 DEF Trusted, ForestType, Sound
      <4>. QED
        BY <1>3, <3>2, <4>1, <4>2 DEF IsMap, IntersectionsSound, meaning
    <3>3. CASE l.op = "set_difference"
      <4>1. m = forest.differences
        BY <3>3 DEF results
      <4>2. IsMap(m, Pairs(forest), Indices(forest)) /\ DifferencesSound(forest)
        BY <1>1, <4>1 DEF Trusted, ForestType, Sound
      <4>3. /\ m[k] \in Indices(forest)
            /\ get_value(forest, m[k])
                 = get_value(forest, l.a) \ get_value(forest, l.b)
        BY <1>3, <4>1, <4>2 DEF IsMap, DifferencesSound
      <4>. QED
        BY <3>3, <4>3 DEF meaning
    <3>. QED
      BY <1>2, <3>1, <3>2, <3>3 DEF Operates, BinaryOps
  <2>2. get_value(forest, m[k]) = asked(forest, l.call)
    BY <1>2, <2>1 DEF Operates
  <2>3. /\ pc' = [pc EXCEPT ![t] = "idle"]
        /\ local' = [local EXCEPT ![t] = Idle(l.call, m[k])]
    BY <1>3 DEF lookup, Return, Goto
  <2>. HIDE DEF m
  <2>4. Knows(forest, "idle", Idle(l.call, m[k]))
    BY <1>1, <1>2, <2>1, <2>2, ReturnedLemma
  <2>. QED
    BY <1>1, <2>3, <2>4, AloneLemma
<1>4. CASE k \notin DOMAIN m
  <2> DEFINE s == meaning(forest, l.op, l.a, l.b)
  <2>1. /\ pc' = [pc EXCEPT ![t] = "find"]
        /\ local' = [local EXCEPT ![t] = [l EXCEPT !.set = s]]
    BY <1>4 DEF lookup, Goto
  <2>2. /\ get_value(forest, l.a) \in SUBSET Property
        /\ get_value(forest, l.b) \in SUBSET Property
    BY <1>1, ValueLemma DEF LocalType
  <2>3. s \in SUBSET Property
    BY <1>2, <2>2 DEF Operates, meaning, BinaryOps
  <2>4. s = wanted(forest, l)
    BY <1>2 DEF Operates, wanted, BinaryOps
  <2>. HIDE DEF s
  <2>5. Knows(forest, "find", [l EXCEPT !.set = s])
    BY <1>1, <2>3, <2>4, SeekingLemma
  <2>. QED
    BY <1>1, <2>1, <2>5, AloneLemma
<1>. QED
  BY <1>3, <1>4

LEMMA FilterStep ==
  ASSUME IInv, NEW t \in Thread, filter(t)
  PROVE  IInv'
<1> DEFINE l == local[t]
           m == caches[l.call.set]
<1>1. /\ Trusted(forest) /\ LocalType(forest, l)
      /\ Knows(forest, "filter", l)
      /\ pc[t] = "filter"
      /\ local = [local EXCEPT ![t] = l]
      /\ calls' \in 0 .. MaxCalls /\ UNCHANGED <<forest, caches>>
  BY BeforeLemma DEF filter
<1>2. CallType(forest, l.call) /\ Filters(l)
  BY <1>1 DEF Knows, Busy, Operates, Registers, BinaryOps
<1>3. /\ l.call.set \in Filter
      /\ asked(forest, l.call) = get_value(forest, l.a) \cap l.call.set
      /\ l.a \in Indices(forest)
  BY <1>1, <1>2 DEF CallType, Filters, asked, LocalType, BinaryOps
<1>4. CASE l.a \in DOMAIN m
  <2>1. /\ m[l.a] \in Indices(forest)
        /\ get_value(forest, m[l.a]) = asked(forest, l.call)
    BY <1>3, <1>4 DEF IInv, CachesTrue, IsMap
  <2>2. /\ pc' = [pc EXCEPT ![t] = "idle"]
        /\ local' = [local EXCEPT ![t] = Idle(l.call, m[l.a])]
    BY <1>4 DEF filter, Return, Goto
  <2>. HIDE DEF m
  <2>3. Knows(forest, "idle", Idle(l.call, m[l.a]))
    BY <1>1, <1>2, <2>1, ReturnedLemma
  <2>. QED
    BY <1>1, <2>2, <2>3, AloneLemma
<1>5. CASE l.a \notin DOMAIN m
  <2> DEFINE s == get_value(forest, l.a) \cap l.call.set
  <2>1. /\ pc' = [pc EXCEPT ![t] = "find"]
        /\ local' = [local EXCEPT ![t] = [l EXCEPT !.set = s]]
    BY <1>5 DEF filter, Goto
  <2>2. s \in SUBSET Property /\ s = wanted(forest, l)
    BY <1>2, <1>3 DEF Filters, wanted, CallType
  <2>. HIDE DEF s
  <2>3. Knows(forest, "find", [l EXCEPT !.set = s])
    BY <1>1, <2>2, SeekingLemma
  <2>. QED
    BY <1>1, <2>1, <2>3, AloneLemma
<1>. QED
  BY <1>4, <1>5

-----------------------------------------------------------------------------
(* The steps that register                                                  *)

(* A thread that holds an index of the wanted set goes on in one of three   *)
(* ways, knowing what it must.                                              *)
LEMMA RegisteredLemma ==
  ASSUME NEW f, Trusted(f), NEW t,
         NEW q \in {"find", "insert"}, Knows(f, q, local[t]),
         NEW r \in Indices(f), get_value(f, r) = local[t].set, Registered(t, r)
  PROVE  \E p, l : /\ pc' = [pc EXCEPT ![t] = p]
                   /\ local' = [local EXCEPT ![t] = l]
                   /\ Knows(f, p, l)
<1> DEFINE l == local[t]
           c == l.call
<1>1. /\ LocalType(f, l) /\ Busy(f, l) /\ CallType(f, c)
      /\ get_value(f, r) = wanted(f, l)
  BY DEF Knows, Busy
<1>2. CASE l.op # "register_set"
  <2> DEFINE x == [l EXCEPT !.ret = r]
  <2>1. /\ LocalType(f, x)
        /\ x.call = c /\ x.op = l.op /\ x.a = l.a /\ x.b = l.b /\ x.ret = r
    BY <1>1, AssignedLemma DEF LocalType
  <2>2. pc' = [pc EXCEPT ![t] = "record"] /\ local' = [local EXCEPT ![t] = x]
    BY <1>2 DEF Registered, Goto
  <2>. HIDE DEF x
  <2>3. Busy(f, x)
    BY <1>1, <2>1 DEF Busy, Operates, Filters, Registers
  <2>4. get_value(f, r) = asked(f, c)
    BY <1>1, <1>2 DEF wanted
  <2>5. Knows(f, "record", x)
    BY <1>2, <2>1, <2>3, <2>4 DEF Knows, Labels
  <2>. QED
    BY <2>2, <2>5
<1>3. CASE l.op = "register_set" /\ c.op \in Halves
  <2> DEFINE a == c.operands[1]
  <2>1. a \in Indices(f) /\ get_value(f, r) = c.set
    BY <1>1, <1>3 DEF CallType, CallOps, Halves, BinaryOps, wanted
  <2>2. CASE c.op = "set_insert_single"
    <3>1. meaning(f, "set_union", a, r) = asked(f, c)
      BY <2>1, <2>2 DEF meaning, asked, BinaryOps
    <3>2. Operate(t, c, "set_union", a, r)
      BY <1>3, <2>2 DEF Registered
    <3>. QED
      BY <1>1, <2>1, <3>1, <3>2, OperateLemma DEF BinaryOps
  <2>3. CASE c.op = "set_remove_single"
    <3>1. meaning(f, "set_difference", a, r) = asked(f, c)
      BY <2>1, <2>3 DEF meaning, asked, BinaryOps
    <3>2. Operate(t, c, "set_difference", a, r)
      BY <1>3, <2>3 DEF Registered
    <3>. QED
      BY <1>1, <2>1, <3>1, <3>2, OperateLemma DEF BinaryOps
  <2>. QED
    BY <1>3, <2>2, <2>3 DEF Halves
<1>4. CASE l.op = "register_set" /\ c.op \notin Halves
  <2>1. get_value(f, r) = asked(f, c)
    BY <1>1, <1>4 DEF wanted
  <2>2. Return(t, c, r)
    BY <1>4 DEF Registered, Halves
  <2>3. Knows(f, "idle", Idle(c, r))
    BY <1>1, <2>1, ReturnedLemma
  <2>. QED
    BY <2>2, <2>3 DEF Return, Goto
<1>. QED
  BY <1>2, <1>3, <1>4

LEMMA FindStep ==
  ASSUME IInv, NEW t \in Thread, find(t)
  PROVE  IInv'
<1> DEFINE l == local[t]
<1>1. /\ Trusted(forest) /\ LocalType(forest, l)
      /\ Knows(forest, "find", l)
      /\ pc[t] = "find"
      /\ local = [local EXCEPT ![t] = l]
      /\ calls' \in 0 .. MaxCalls /\ UNCHANGED <<forest, caches>>
  BY BeforeLemma DEF find
<1>2. CASE l.set \in DOMAIN forest.property_set_map
  <2> DEFINE r == index_of(forest, l.set)
  <2>1. r \in Indices(forest) /\ get_value(forest, r) = l.set
    BY <1>1, <1>2 DEF Trusted, ForestType, IsMap, index_of
  <2>2. Registered(t, r)
    BY <1>2 DEF find
  <2>. HIDE DEF r
  <2>3. PICK p, x : /\ pc' = [pc EXCEPT ![t] = p]
                    /\ local' = [local EXCEPT ![t] = x]
                    /\ Knows(forest, p, x)
    BY <1>1, <2>1, <2>2, RegisteredLemma
  <2>. QED
    BY <1>1, <2>3, AloneLemma
<1>3. CASE l.set \notin DOMAIN forest.property_set_map
  <2>1. Knows(forest, "push_back", l)
    BY <1>1 DEF Knows, Labels
  <2>2. pc' = [pc EXCEPT ![t] = "push_back"] /\ local' = [local EXCEPT ![t] = l]
    BY <1>1, <1>3 DEF find, Goto
  <2>. QED
    BY <1>1, <2>1, <2>2, AloneLemma
<1>. QED
  BY <1>2, <1>3

LEMMA PushBackStep ==
  ASSUME IInv, NEW t \in Thread, push_back(t)
  PROVE  IInv'
<1> DEFINE l == local[t]
           n == Len(forest.property_sets)
           x == [l EXCEPT !.ret = n]
<1>1. /\ Trusted(forest) /\ LocalType(forest, l)
      /\ Knows(forest, "push_back", l)
      /\ pc[t] = "push_back"
      /\ calls' \in 0 .. MaxCalls /\ caches' = caches
      /\ forest' = [forest EXCEPT !.property_sets = Append(@, l.set)]
      /\ pc' = [pc EXCEPT ![t] = "insert"] /\ local' = [local EXCEPT ![t] = x]
  BY BeforeLemma DEF push_back, Goto
<1>2. l.set \in SUBSET Property
  BY <1>1 DEF LocalType
<1>3. /\ Trusted(forest') /\ Later(forest, forest')
      /\ Indices(forest') = Indices(forest) \cup {n}
      /\ get_value(forest', n) = l.set
      /\ forest'.property_set_map = forest.property_set_map
  BY <1>1, <1>2, PushedLemma
<1>4. Knows(forest', "push_back", l)
  BY <1>1, <1>3, KnowsLemma
<1>5. /\ LocalType(forest', x)
      /\ x.call = l.call /\ x.op = l.op /\ x.a = l.a /\ x.b = l.b
      /\ x.set = l.set /\ x.ret = n
  <2>1. LocalType(forest', l) /\ n \in Indices(forest')
    BY <1>3, <1>4 DEF Knows
  <2>. QED
    BY <2>1, AssignedLemma DEF LocalType
<1>. HIDE DEF x
<1>6. Knows(forest', "insert", x)
  <2>1. Busy(forest', l) /\ l.set = wanted(forest', l)
    BY <1>4 DEF Knows
  <2>2. Busy(forest', x) /\ x.set = wanted(forest', x)
    BY <1>5, <2>1 DEF Busy, Operates, Filters, Registers, wanted
  <2>. QED
    BY <1>3, <1>5, <2>2 DEF Knows, Labels
<1>7. CachesTrue(forest', caches')
  BY <1>1, <1>3, CachesLemma DEF IInv
<1>8. Findable(forest', pc', local')
  <2>1. /\ pc'[t] = "insert" /\ local'[t].ret = n
        /\ \A y \in Thread : pc[y] = "insert" =>
             pc'[y] = "insert" /\ local'[y] = local[y]
    BY <1>1, <1>5 DEF IInv, Typed
  <2>2. ASSUME NEW i \in Indices(forest)
        PROVE  \/ get_value(forest', i) \in DOMAIN forest'.property_set_map
               \/ \E y \in Thread : pc'[y] = "insert" /\ local'[y].ret = i
    BY <1>3, <2>1 DEF IInv, Findable, Later
  <2>. QED
    BY <1>3, <2>1, <2>2 DEF Findable
<1>. QED
  BY <1>1, <1>3, <1>6, <1>7, <1>8, MovedLemma

LEMMA InsertStep ==
  ASSUME IInv, NEW t \in Thread, insert(t)
  PROVE  IInv'
<1> DEFINE l == local[t]
<1>1. /\ Trusted(forest) /\ LocalType(forest, l)
      /\ Knows(forest, "insert", l)
      /\ pc[t] = "insert"
      /\ calls' \in 0 .. MaxCalls /\ caches' = caches
      /\ forest' = [forest EXCEPT !.property_set_map = Insert(@, l.set, l.ret)]
      /\ Registered(t, l.ret)
  BY BeforeLemma DEF insert
<1>2. /\ l.set \in SUBSET Property /\ l.ret \in Indices(forest)
      /\ get_value(forest, l.ret) = l.set
  BY <1>1 DEF LocalType, Knows
<1>3. /\ Trusted(forest') /\ Later(forest, forest')
      /\ Indices(forest') = Indices(forest)
      /\ DOMAIN forest'.property_set_map
           = DOMAIN forest.property_set_map \cup {l.set}
  BY <1>1, <1>2, EnteredLemma
<1>4. Knows(forest', "insert", l)
  BY <1>1, <1>3, KnowsLemma
<1>5. l.ret \in Indices(forest') /\ get_value(forest', l.ret) = l.set
  BY <1>2, <1>3 DEF Later
<1>6. PICK p, x : /\ pc' = [pc EXCEPT ![t] = p]
                  /\ local' = [local EXCEPT ![t] = x]
                  /\ Knows(forest', p, x)
  BY <1>1, <1>3, <1>4, <1>5, RegisteredLemma
<1>7. CachesTrue(forest', caches')
  BY <1>1, <1>3, CachesLemma DEF IInv
<1>8. Findable(forest', pc', local')
  <2>1. \A y \in Thread \ {t} : pc[y] = "insert" =>
          pc'[y] = "insert" /\ local'[y] = local[y]
    BY <1>6 DEF IInv, Typed
  <2>2. ASSUME NEW i \in Indices(forest)
        PROVE  \/ get_value(forest', i) \in DOMAIN forest'.property_set_map
               \/ \E y \in Thread : pc'[y] = "insert" /\ local'[y].ret = i
    <3>1. get_value(forest', i) = get_value(forest, i)
      BY <1>3 DEF Later
    <3>2. CASE get_value(forest, i) \in DOMAIN forest.property_set_map
      BY <1>3, <3>1, <3>2
    <3>3. CASE l.ret = i
      BY <1>2, <1>3, <3>1, <3>3
    <3>4. CASE \E y \in Thread \ {t} : pc[y] = "insert" /\ local[y].ret = i
      BY <2>1, <3>4
    <3>. QED
      BY <3>2, <3>3, <3>4 DEF IInv, Findable
  <2>. QED
    BY <1>3, <2>2 DEF Findable
<1>. QED
  BY <1>1, <1>3, <1>6, <1>7, <1>8, MovedLemma

-----------------------------------------------------------------------------
(* The steps that record                                                    *)

(* A step that leaves the storage alone, and property_set_map, of a thread  *)
(* that has nothing to insert.                                              *)
LEMMA NotedLemma ==
  ASSUME IInv, NEW t \in Thread, NEW p, NEW l,
         Trusted(forest'), Later(forest, forest'),
         Indices(forest') = Indices(forest),
         forest'.property_set_map = forest.property_set_map,
         CachesTrue(forest', caches'),
         pc' = [pc EXCEPT ![t] = p], local' = [local EXCEPT ![t] = l],
         pc[t] # "insert", Knows(forest', p, l), calls' \in 0 .. MaxCalls
  PROVE  IInv'
<1>1. \A x \in Thread : pc[x] = "insert" =>
        pc'[x] = "insert" /\ local'[x] = local[x]
  BY DEF IInv, Typed
<1>2. Findable(forest', pc', local')
  BY <1>1 DEF IInv, Findable, Later
<1>. QED
  BY <1>2, MovedLemma

(* The containments that a result gives away are true, and an empty list is *)
(* a difference that left its first operand whole.                          *)
LEMMA ContainmentsLemma ==
  ASSUME NEW f, NEW op \in BinaryOps, NEW a \in Indices(f), NEW b \in Indices(f),
         NEW r \in Indices(f), a # b, get_value(f, r) = meaning(f, op, a, b)
  PROVE  LET todo == containments(op, a, b, r)
         IN  /\ todo \in Seq(Pairs(f))
             /\ todo = <<>> => get_value(f, a) \cap get_value(f, b) = {}
             /\ \A i \in DOMAIN todo :
                  /\ todo[i][1] # todo[i][2]
                  /\ get_value(f, todo[i][1]) \subseteq get_value(f, todo[i][2])
<1>1. CASE op = "set_union"
  <2>1. get_value(f, r) = get_value(f, a) \cup get_value(f, b)
    BY <1>1 DEF meaning
  <2>2. CASE r = a
    BY <1>1, <2>1, <2>2 DEF containments, Pairs
  <2>3. CASE r # a /\ r = b
    BY <1>1, <2>1, <2>3 DEF containments, Pairs
  <2>4. CASE r # a /\ r # b
    <3>1. containments(op, a, b, r) = <<<<a, r>>, <<b, r>>>>
      BY <1>1, <2>4 DEF containments
    <3>. QED
      BY <2>1, <2>4, <3>1 DEF Pairs
  <2>. QED
    BY <2>2, <2>3, <2>4
<1>2. CASE op = "set_intersection"
  <2>1. get_value(f, r) = get_value(f, a) \cap get_value(f, b)
    BY <1>2 DEF meaning
  <2>2. CASE r # a
    BY <1>2, <2>1, <2>2 DEF containments, Pairs
  <2>3. CASE r = a
    BY <1>2, <2>1, <2>3 DEF containments, Pairs
  <2>. QED
    BY <2>2, <2>3
<1>3. CASE op = "set_difference"
  <2>1. get_value(f, r) = get_value(f, a) \ get_value(f, b)
    BY <1>3 DEF meaning
  <2>2. CASE r # a
    BY <1>3, <2>1, <2>2 DEF containments, Pairs
  <2>3. CASE r = a
    BY <1>3, <2>1, <2>3 DEF containments, Pairs
  <2>. QED
    BY <2>2, <2>3
<1>. QED
  BY <1>1, <1>2, <1>3 DEF BinaryOps

LEMMA RecordStep ==
  ASSUME IInv, NEW t \in Thread, record(t)
  PROVE  IInv'
<1> DEFINE l == local[t]
           k == <<l.a, l.b>>
           todo == containments(l.op, l.a, l.b, l.ret)
           x == [l EXCEPT !.todo = todo]
<1>1. /\ Trusted(forest) /\ LocalType(forest, l)
      /\ Knows(forest, "record", l)
      /\ pc[t] = "record" /\ l.op # "set_filter"
      /\ calls' \in 0 .. MaxCalls /\ caches' = caches
      /\ pc' = [pc EXCEPT ![t] = "relate"] /\ local' = [local EXCEPT ![t] = x]
  BY BeforeLemma DEF record, Goto
<1>2. /\ Operates(forest, l) /\ CallType(forest, l.call) /\ Busy(forest, l)
      /\ get_value(forest, l.ret) = asked(forest, l.call)
      /\ get_value(forest, l.ret) = meaning(forest, l.op, l.a, l.b)
  BY <1>1 DEF Knows, Busy, Filters, Registers, Operates
<1>3. /\ l.a \in Indices(forest) /\ l.b \in Indices(forest)
      /\ l.ret \in Indices(forest)
      /\ k \in Pairs(forest)
      /\ l.op \in BinaryOps
      /\ l.a # 0 /\ l.b # 0 /\ l.a # l.b
      /\ Symmetric(l.op) => Ordered(k)
  BY <1>1, <1>2 DEF LocalType, Pairs, Operates, Ordered, Indices
<1>4. /\ Trusted(forest') /\ Later(forest, forest')
      /\ Indices(forest') = Indices(forest)
      /\ forest'.property_set_map = forest.property_set_map
  <2>1. CASE l.op = "set_union"
    <3>1. forest' = [forest EXCEPT !.unions = Insert(@, k, l.ret)]
      BY <2>1 DEF record
    <3>2. get_value(forest, l.ret)
            = get_value(forest, k[1]) \cup get_value(forest, k[2])
      BY <1>2, <2>1 DEF meaning
    <3>3. Ordered(k)
      BY <1>3, <2>1 DEF Symmetric
    <3>. HIDE DEF k
    <3>. QED
      BY <1>1, <1>3, <3>1, <3>2, <3>3, UnitedLemma
  <2>2. CASE l.op = "set_intersection"
    <3>1. forest' = [forest EXCEPT !.intersections = Insert(@, k, l.ret)]
      BY <2>2 DEF record
    <3>2. get_value(forest, l.ret)
            = get_value(forest, k[1]) \cap get_value(forest, k[2])
      BY <1>2, <2>2 DEF meaning
    <3>3. Ordered(k)
      BY <1>3, <2>2 DEF Symmetric
    <3>. HIDE DEF k
    <3>. QED
      BY <1>1, <1>3, <3>1, <3>2, <3>3, MetLemma
  <2>3. CASE l.op = "set_difference"
    <3>1. forest' = [forest EXCEPT !.differences = Insert(@, k, l.ret)]
      BY <2>3 DEF record
    <3>2. /\ get_value(forest, l.ret)
               = get_value(forest, k[1]) \ get_value(forest, k[2])
          /\ k[1] # 0 /\ k[2] # 0 /\ k[1] # k[2]
      BY <1>2, <1>3, <2>3 DEF meaning
    <3>. HIDE DEF k
    <3>. QED
      BY <1>1, <1>3, <3>1, <3>2, SubtractedLemma
  <2>. QED
    BY <1>3, <2>1, <2>2, <2>3 DEF BinaryOps
<1>5. /\ todo \in Seq(Pairs(forest))
      /\ todo = <<>> => get_value(forest, l.a) \cap get_value(forest, l.b) = {}
      /\ \A i \in DOMAIN todo :
           /\ todo[i][1] # todo[i][2]
           /\ get_value(forest, todo[i][1]) \subseteq get_value(forest, todo[i][2])
  BY <1>2, <1>3, ContainmentsLemma
<1>. HIDE DEF todo
<1>6. /\ LocalType(forest, x)
      /\ x.call = l.call /\ x.op = l.op /\ x.a = l.a /\ x.b = l.b
      /\ x.ret = l.ret /\ x.todo = todo
  BY <1>1, <1>5, AssignedLemma DEF LocalType
<1>. HIDE DEF x
<1>7. Knows(forest, "relate", x)
  <2>1. Busy(forest, x)
    BY <1>2, <1>6 DEF Busy, Operates
  <2>2. TodoTrue(forest, x)
    BY <1>5, <1>6 DEF TodoTrue
  <2>. QED
    BY <1>2, <1>3, <1>6, <2>1, <2>2 DEF Knows, Labels, BinaryOps
<1>8. Knows(forest', "relate", x)
  BY <1>4, <1>7, KnowsLemma
<1>9. CachesTrue(forest', caches')
  BY <1>1, <1>4, CachesLemma DEF IInv
<1>. QED
  BY <1>1, <1>4, <1>8, <1>9, NotedLemma

LEMMA RecordFilterStep ==
  ASSUME IInv, NEW t \in Thread, record_filter(t)
  PROVE  IInv'
<1> DEFINE l == local[t]
           keep == l.call.set
           m == Insert(caches[keep], l.a, l.ret)
<1>1. /\ Trusted(forest) /\ LocalType(forest, l)
      /\ Knows(forest, "record", l)
      /\ pc[t] = "record" /\ l.op = "set_filter"
      /\ calls' \in 0 .. MaxCalls /\ forest' = forest
      /\ caches' = [caches EXCEPT ![keep] = m]
      /\ pc' = [pc EXCEPT ![t] = "idle"]
      /\ local' = [local EXCEPT ![t] = Idle(l.call, l.ret)]
  BY BeforeLemma DEF record_filter, Return, Goto
<1>2. /\ Filters(l) /\ CallType(forest, l.call)
      /\ get_value(forest, l.ret) = asked(forest, l.call)
      /\ l.a \in Indices(forest) /\ l.ret \in Indices(forest)
  BY <1>1 DEF Knows, Busy, Registers, Operates, BinaryOps, LocalType
<1>3. /\ keep \in Filter
      /\ get_value(forest, l.ret) = get_value(forest, l.a) \cap keep
  BY <1>2 DEF CallType, Filters, asked, BinaryOps
<1>4. /\ CachesTrue(forest, caches)
      /\ IsMap(caches[keep], Indices(forest), Indices(forest))
  BY <1>3 DEF IInv, CachesTrue
<1>5. /\ IsMap(m, Indices(forest), Indices(forest))
      /\ DOMAIN m = DOMAIN caches[keep] \cup {l.a}
      /\ \A s \in DOMAIN caches[keep] : m[s] = caches[keep][s]
      /\ l.a \notin DOMAIN caches[keep] => m[l.a] = l.ret
  <2> DEFINE c == caches[keep]
             a == l.a
             r == l.ret
  <2>1. a \in Indices(forest) /\ r \in Indices(forest)
    BY <1>2
  <2>2. IsMap(c, Indices(forest), Indices(forest))
    BY <1>4
  <2>3. m = Insert(c, a, r)
    OBVIOUS
  <2>. HIDE DEF c, a, r, m
  <2>4. /\ IsMap(m, Indices(forest), Indices(forest))
        /\ DOMAIN m = DOMAIN c \cup {a}
        /\ \A s \in DOMAIN c : m[s] = c[s]
        /\ a \notin DOMAIN c => m[a] = r
    BY <2>1, <2>2, <2>3 DEF IsMap, Insert
  <2>. QED
    BY <2>4 DEF c, a, r
<1>6. ASSUME NEW s \in DOMAIN m
      PROVE  get_value(forest, m[s]) = get_value(forest, s) \cap keep
  <2>1. CASE s \in DOMAIN caches[keep]
    BY <1>3, <1>4, <1>5, <2>1 DEF CachesTrue
  <2>2. CASE s = l.a /\ s \notin DOMAIN caches[keep]
    BY <1>3, <1>5, <2>2
  <2>. QED
    BY <1>5, <2>1, <2>2
<1>. HIDE DEF m, keep
<1>7. CachesTrue(forest, caches')
  BY <1>1, <1>3, <1>4, <1>5, <1>6 DEF CachesTrue
<1>8. Knows(forest, "idle", Idle(l.call, l.ret))
  BY <1>1, <1>2, ReturnedLemma
<1>9. Later(forest, forest')
  BY <1>1 DEF Later
<1>10. /\ Trusted(forest') /\ CachesTrue(forest', caches')
       /\ Indices(forest') = Indices(forest)
       /\ forest'.property_set_map = forest.property_set_map
       /\ Knows(forest', "idle", Idle(l.call, l.ret))
  BY <1>1, <1>7, <1>8
<1>. QED
  BY <1>1, <1>9, <1>10, NotedLemma

LEMMA RelateStep ==
  ASSUME IInv, NEW t \in Thread, relate(t)
  PROVE  IInv'
<1> DEFINE l == local[t]
<1>1. /\ Trusted(forest) /\ LocalType(forest, l)
      /\ Knows(forest, "relate", l)
      /\ pc[t] = "relate"
      /\ pc = [pc EXCEPT ![t] = "relate"]
      /\ calls' \in 0 .. MaxCalls /\ caches' = caches
  BY BeforeLemma DEF relate
<1>2. /\ Operates(forest, l) /\ CallType(forest, l.call) /\ Busy(forest, l)
      /\ get_value(forest, l.ret) = asked(forest, l.call)
      /\ TodoTrue(forest, l)
  BY <1>1 DEF Knows, Busy, Filters, Registers, BinaryOps
<1>3. /\ l.a \in Indices(forest) /\ l.b \in Indices(forest)
      /\ l.ret \in Indices(forest) /\ l.todo \in Seq(Pairs(forest))
      /\ l.a # 0 /\ l.b # 0 /\ l.a # l.b
  BY <1>1, <1>2 DEF LocalType, Operates
<1>4. /\ Trusted(forest') /\ Later(forest, forest')
      /\ Indices(forest') = Indices(forest)
      /\ forest'.property_set_map = forest.property_set_map
  <2>1. CASE l.todo = <<>>
    <3> DEFINE k == <<minimum(l.a, l.b), maximum(l.a, l.b)>>
    <3>1. forest' = [forest EXCEPT !.intersections =
                       Insert(@, k, EMPTY_SET_VALUE)]
      BY <2>1 DEF relate
    <3>2. k \in Pairs(forest) /\ Ordered(k)
      BY <1>3 DEF Pairs, minimum, maximum, Ordered, Indices
    <3>3. get_value(forest, k[1]) \cap get_value(forest, k[2]) = {}
      BY <1>2, <2>1 DEF TodoTrue, minimum, maximum
    <3>4. /\ EMPTY_SET_VALUE \in Indices(forest)
          /\ get_value(forest, EMPTY_SET_VALUE) = {}
      BY <1>1 DEF Trusted, ForestType, Indices, EMPTY_SET_VALUE
    <3>. HIDE DEF k
    <3>. QED
      BY <1>1, <3>1, <3>2, <3>3, <3>4, MetLemma
  <2>2. CASE l.todo # <<>>
    <3> DEFINE a == Head(l.todo)[1]
               b == Head(l.todo)[2]
    <3>1. forest' = store_subset(forest, a, b)
      BY <2>2 DEF relate
    <3>2. /\ 1 \in DOMAIN l.todo /\ Head(l.todo) = l.todo[1]
          /\ l.todo[1] \in Pairs(forest)
      BY <1>3, <2>2
    <3>3. /\ a \in Indices(forest) /\ b \in Indices(forest) /\ a # b
          /\ get_value(forest, a) \subseteq get_value(forest, b)
      BY <1>2, <3>2 DEF Pairs, TodoTrue
    <3>. HIDE DEF a, b
    <3>. QED
      BY <1>1, <3>1, <3>3, ContainedLemma
  <2>. QED
    BY <2>1, <2>2
<1>5. CachesTrue(forest', caches')
  BY <1>1, <1>4, CachesLemma DEF IInv
<1>6. CASE Len(l.todo) > 1
  <2> DEFINE todo == Tail(l.todo)
             x == [l EXCEPT !.todo = todo]
  <2>1. /\ todo \in Seq(Pairs(forest))
        /\ todo # <<>>
        /\ \A i \in DOMAIN todo : i + 1 \in DOMAIN l.todo /\ todo[i] = l.todo[i + 1]
    <3> DEFINE u == l.todo
               P == Pairs(forest)
    <3>1. u \in Seq(P) /\ Len(u) > 1
      BY <1>3, <1>6
    <3>. HIDE DEF u, P
    <3>2. /\ Tail(u) \in Seq(P)
          /\ Len(Tail(u)) = Len(u) - 1
          /\ \A i \in 1 .. Len(u) - 1 : Tail(u)[i] = u[i + 1]
      BY <3>1
    <3>3. /\ Len(u) \in Nat
          /\ DOMAIN u = 1 .. Len(u) /\ DOMAIN Tail(u) = 1 .. Len(u) - 1
      <4> DEFINE v == Tail(u)
      <4>1. Len(u) \in Nat /\ DOMAIN u = 1 .. Len(u)
        BY <3>1
      <4>2. v \in Seq(P) /\ Len(v) = Len(u) - 1
        BY <3>2
      <4>. HIDE DEF v
      <4>3. DOMAIN v = 1 .. Len(v)
        BY <4>2
      <4>. QED
        BY <4>1, <4>2, <4>3 DEF v
    <3>4. Tail(u) # <<>>
      <4> DEFINE v == Tail(u)
      <4>1. Len(v) > 0
        BY <3>1, <3>2, <3>3
      <4>. HIDE DEF v
      <4>2. v # <<>>
        BY <4>1
      <4>. QED
        BY <4>2 DEF v
    <3>5. \A i \in DOMAIN Tail(u) : i + 1 \in DOMAIN u /\ Tail(u)[i] = u[i + 1]
      BY <3>1, <3>2, <3>3
    <3>. QED
      BY <3>2, <3>3, <3>4, <3>5 DEF u, P
  <2>2. pc' = [pc EXCEPT ![t] = "relate"] /\ local' = [local EXCEPT ![t] = x]
    BY <1>1, <1>6 DEF relate
  <2>. HIDE DEF todo
  <2>3. /\ LocalType(forest, x)
        /\ x.call = l.call /\ x.op = l.op /\ x.a = l.a /\ x.b = l.b
        /\ x.ret = l.ret /\ x.todo = todo
    BY <1>1, <2>1, AssignedLemma DEF LocalType
  <2>. HIDE DEF x
  <2>4. Busy(forest, x)
    BY <1>2, <2>3 DEF Busy, Operates
  <2>5. TodoTrue(forest, x)
    BY <1>2, <2>1, <2>3 DEF TodoTrue
  <2>6. Knows(forest, "relate", x)
    BY <1>1, <1>2, <2>3, <2>4, <2>5 DEF Knows
  <2>7. Knows(forest', "relate", x)
    BY <1>4, <2>6, KnowsLemma
  <2>. QED
    BY <1>1, <1>4, <1>5, <2>2, <2>7, NotedLemma
<1>7. CASE ~(Len(l.todo) > 1)
  <2>1. /\ pc' = [pc EXCEPT ![t] = "idle"]
        /\ local' = [local EXCEPT ![t] = Idle(l.call, l.ret)]
    BY <1>7 DEF relate, Return, Goto
  <2>2. Knows(forest, "idle", Idle(l.call, l.ret))
    BY <1>1, <1>2, <1>3, ReturnedLemma
  <2>3. Knows(forest', "idle", Idle(l.call, l.ret))
    BY <1>4, <2>2, KnowsLemma
  <2>. QED
    BY <1>1, <1>4, <1>5, <2>1, <2>3, NotedLemma
<1>. QED
  BY <1>6, <1>7

-----------------------------------------------------------------------------
(* The calls                                                                *)

(* A thread that begins a call knows nothing that needs the shared object.  *)
LEMMA BegunLemma ==
  ASSUME IInv, NEW t \in Thread, Begin(t), NEW p, NEW l,
         pc' = [pc EXCEPT ![t] = p], local' = [local EXCEPT ![t] = l],
         Knows(forest, p, l)
  PROVE  IInv'
<1>1. /\ UNCHANGED <<forest, caches>> /\ pc[t] # "insert"
      /\ calls' = calls + 1 /\ calls < MaxCalls /\ calls \in 0 .. MaxCalls
  BY BeforeLemma DEF Begin
<1>2. calls' \in 0 .. MaxCalls
  BY <1>1, CallsAssumption
<1>. QED
  BY <1>1, <1>2, AloneLemma

LEMMA RegisterCall ==
  ASSUME IInv, NEW t \in Thread, NEW c, CallType(forest, c),
         c.op \notin BinaryOps \cup {"set_filter"}, NEW s \in SUBSET Property,
         s = IF c.op \in Halves THEN c.set ELSE asked(forest, c),
         Begin(t), RegisterFor(t, c, s)
  PROVE  IInv'
<1>1. Knows(forest, "find", Locals(c, "register_set", 0, 0, s, 0))
  BY BeforeLemma, RegisteringLemma
<1>. QED
  BY <1>1, BegunLemma DEF RegisterFor, Goto

LEMMA RegisterSetStep ==
  ASSUME IInv, NEW t \in Thread, NEW s \in SUBSET Property, register_set(t, s)
  PROVE  IInv'
<1> DEFINE c == Call("register_set", <<>>, s)
<1>1. c.op = "register_set" /\ c.operands = <<>> /\ c.set = s
  BY DEF Call
<1>2. Begin(t) /\ RegisterFor(t, c, s)
  BY DEF register_set
<1>. HIDE DEF c
<1>3. CallType(forest, c)
  BY <1>1 DEF CallType, CallOps, BinaryOps
<1>4. /\ c.op \notin BinaryOps \cup {"set_filter"}
      /\ s = IF c.op \in Halves THEN c.set ELSE asked(forest, c)
  BY <1>1 DEF asked, BinaryOps, Halves
<1>. QED
  BY <1>2, <1>3, <1>4, RegisterCall

LEMMA OperationStep ==
  ASSUME IInv, NEW t \in Thread, NEW op \in BinaryOps,
         NEW a \in Indices(forest), NEW b \in Indices(forest),
         operation(t, op, a, b)
  PROVE  IInv'
<1> DEFINE c == Call(op, <<a, b>>, {})
<1>1. c.op = op /\ c.operands = <<a, b>> /\ c.set = {}
  BY DEF Call
<1>2. Begin(t) /\ Operate(t, c, op, a, b)
  BY DEF operation
<1>. HIDE DEF c
<1>3. CallType(forest, c)
  BY <1>1 DEF CallType, CallOps, BinaryOps
<1>4. meaning(forest, op, a, b) = asked(forest, c)
  BY <1>1 DEF asked, BinaryOps
<1>5. PICK p, l : /\ pc' = [pc EXCEPT ![t] = p]
                  /\ local' = [local EXCEPT ![t] = l]
                  /\ Knows(forest, p, l)
  BY <1>2, <1>3, <1>4, BeforeLemma, OperateLemma
<1>. QED
  BY <1>2, <1>5, BegunLemma

LEMMA SingleStep ==
  ASSUME IInv, NEW t \in Thread, NEW a \in Indices(forest), NEW p \in Property,
         \/ set_insert_single(t, a, p)
         \/ set_remove_single(t, a, p)
         \/ set_remove_single_key(t, a, p)
  PROVE  IInv'
<1>1. /\ Trusted(forest) /\ get_value(forest, a) \in SUBSET Property
      /\ {p} \in SUBSET Property
  BY BeforeLemma, ValueLemma
<1>2. ASSUME NEW op \in Halves, Begin(t),
             RegisterFor(t, Call(op, <<a>>, {p}), {p})
      PROVE  IInv'
  <2> DEFINE c == Call(op, <<a>>, {p})
  <2>1. c.op = op /\ c.operands = <<a>> /\ c.set = {p}
    BY DEF Call
  <2>2. RegisterFor(t, c, {p})
    BY <1>2
  <2>. HIDE DEF c
  <2>3. CallType(forest, c)
    BY <1>1, <2>1 DEF CallType, CallOps, BinaryOps, Halves
  <2>4. c.op \notin BinaryOps \cup {"set_filter"} /\ c.op \in Halves
    BY <2>1 DEF BinaryOps, Halves
  <2>5. {p} = IF c.op \in Halves THEN c.set ELSE asked(forest, c)
    BY <2>1, <2>4
  <2>. QED
    BY <1>1, <1>2, <2>2, <2>3, <2>4, <2>5, RegisterCall
<1>3. CASE set_insert_single(t, a, p)
  BY <1>2, <1>3 DEF set_insert_single, Halves
<1>4. CASE set_remove_single(t, a, p)
  BY <1>2, <1>4 DEF set_remove_single, Halves
<1>5. CASE set_remove_single_key(t, a, p)
  <2> DEFINE c == Call("set_remove_single_key", <<a>>, {p})
             s == get_value(forest, a) \ {p}
  <2>1. c.op = "set_remove_single_key" /\ c.operands = <<a>> /\ c.set = {p}
    BY DEF Call
  <2>2. Begin(t) /\ RegisterFor(t, c, s)
    BY <1>5 DEF set_remove_single_key
  <2>3. s \in SUBSET Property
    BY <1>1
  <2>. HIDE DEF c
  <2>4. CallType(forest, c)
    BY <1>1, <2>1 DEF CallType, CallOps, BinaryOps
  <2>5. c.op \notin BinaryOps \cup {"set_filter"} /\ c.op \notin Halves
    BY <2>1 DEF BinaryOps, Halves
  <2>6. s = asked(forest, c)
    BY <2>1 DEF asked, BinaryOps
  <2>. HIDE DEF s
  <2>. QED
    BY <2>2, <2>3, <2>4, <2>5, <2>6, RegisterCall
<1>. QED
  BY <1>3, <1>4, <1>5

LEMMA SetFilterStep ==
  ASSUME IInv, NEW t \in Thread, NEW s \in Indices(forest), NEW keep \in Filter,
         set_filter(t, s, keep)
  PROVE  IInv'
<1> DEFINE c == Call("set_filter", <<s>>, keep)
<1>1. c.op = "set_filter" /\ c.operands = <<s>> /\ c.set = keep
  BY DEF Call
<1>2. /\ Begin(t)
      /\ \/ is_empty(s) /\ Return(t, c, s)
         \/ ~is_empty(s) /\ Perform(t, c, "set_filter", s, s, "filter")
  BY DEF set_filter
<1>. HIDE DEF c
<1>3. CallType(forest, c)
  BY <1>1, FilterAssumption DEF CallType, CallOps, BinaryOps
<1>4. Trusted(forest)
  BY BeforeLemma
<1>5. CASE is_empty(s) /\ Return(t, c, s)
  <2>1. get_value(forest, s) = asked(forest, c)
    BY <1>1, <1>4, <1>5 DEF is_empty, asked, Trusted, BinaryOps
  <2>2. Knows(forest, "idle", Idle(c, s))
    BY <1>3, <1>4, <2>1, ReturnedLemma
  <2>. QED
    BY <1>2, <1>5, <2>2, BegunLemma DEF Return, Goto
<1>6. CASE Perform(t, c, "set_filter", s, s, "filter")
  <2> DEFINE l == Locals(c, "set_filter", s, s, {}, 0)
  <2>1. l = [call |-> c, op |-> "set_filter", a |-> s, b |-> s, set |-> {},
             ret |-> 0, todo |-> <<>>]
    BY DEF Locals
  <2>2. pc' = [pc EXCEPT ![t] = "filter"] /\ local' = [local EXCEPT ![t] = l]
    BY <1>6 DEF Perform, Goto
  <2>. HIDE DEF l
  <2>3. /\ 0 \in Indices(forest)
        /\ c.operands \in Seq(Indices(forest))
        /\ <<>> \in Seq(Pairs(forest))
    BY <1>3, <1>4 DEF Trusted, ForestType, Indices, CallType
  <2>4. LocalType(forest, l)
    BY <2>1, <2>3 DEF LocalType
  <2>5. Busy(forest, l)
    BY <1>1, <1>3, <2>1 DEF Busy, Filters
  <2>6. Knows(forest, "filter", l)
    BY <2>1, <2>4, <2>5 DEF Knows, Labels
  <2>. QED
    BY <1>2, <2>2, <2>6, BegunLemma
<1>. QED
  BY <1>2, <1>5, <1>6

-----------------------------------------------------------------------------
(* The invariant holds *)

LEMMA StepLemma ==
  ASSUME IInv, Next
  PROVE  IInv'
<1>1. PICK t \in Thread :
        \/ \E s \in SUBSET Property : register_set(t, s)
        \/ \E op \in BinaryOps, a, b \in Indices(forest) : operation(t, op, a, b)
        \/ \E a \in Indices(forest), p \in Property :
             \/ set_insert_single(t, a, p)
             \/ set_remove_single(t, a, p)
             \/ set_remove_single_key(t, a, p)
        \/ \E s \in Indices(forest), keep \in Filter : set_filter(t, s, keep)
        \/ Step(t)
  BY DEF Next
<1>2. CASE Step(t)
  BY <1>2, CheckSubsetStep, LookupStep, FilterStep, FindStep, PushBackStep,
     InsertStep, RecordStep, RecordFilterStep, RelateStep DEF Step
<1>. QED
  BY <1>1, <1>2, RegisterSetStep, OperationStep, SingleStep, SetFilterStep

LEMMA InitLemma ==
  ASSUME Init
  PROVE  IInv
<1> DEFINE sets == <<{}>> \o Prepared
           n == Len(Prepared)
           first(s) == CHOOSE i \in DOMAIN sets : sets[i] = s
           names == {sets[i] : i \in DOMAIN sets}
           m == [s \in names |-> first(s) - 1]
<1>1. /\ n \in Nat
      /\ sets \in Seq(SUBSET Property)
      /\ Len(sets) = n + 1
      /\ sets[1] = {}
      /\ DOMAIN sets = 1 .. n + 1
  <2>1. Prepared \in Seq(SUBSET Property) /\ <<{}>> \in Seq(SUBSET Property)
    BY PreparedAssumption
  <2>2. Len(<<{}>>) = 1 /\ <<{}>>[1] = {}
    OBVIOUS
  <2>. QED
    BY <2>1, <2>2
<1>2. /\ forest.property_sets = sets
      /\ forest.property_set_map = m
      /\ forest.unions = NoEntries /\ forest.intersections = NoEntries
      /\ forest.differences = NoEntries /\ forest.subsets = NoEntries
      /\ forest = Members(forest)
  BY DEF Init, PreparedForest, FreshForest, Members
<1>. HIDE DEF sets
<1>3. \A s \in names : first(s) \in DOMAIN sets /\ sets[first(s)] = s
  OBVIOUS
<1>4. Indices(forest) = 0 .. n
  BY <1>1, <1>2 DEF Indices
<1>5. \A s \in names : m[s] \in Indices(forest) /\ get_value(forest, m[s]) = s
  BY <1>1, <1>2, <1>3, <1>4 DEF get_value
<1>6. IsMap(m, SUBSET Property, Indices(forest))
  <2>1. names \subseteq SUBSET Property
    BY <1>1
  <2>2. m = [s \in DOMAIN m |-> m[s]] /\ DOMAIN m = names
    OBVIOUS
  <2>. HIDE DEF m, names
  <2>. QED
    BY <1>5, <2>1, <2>2 DEF IsMap
<1>7. \A K, V : IsMap(NoEntries, K, V)
  BY DEF IsMap, NoEntries
<1>8. Trusted(forest)
  <2>1. ForestType(forest)
    BY <1>1, <1>2, <1>6, <1>7 DEF ForestType, Members
  <2>2. Sound(forest)
    BY <1>2 DEF Sound, UnionsSound, IntersectionsSound, DifferencesSound,
                SubsetsSound, NoEntries
  <2>3. get_value(forest, EMPTY_SET_VALUE) = {}
    BY <1>1, <1>2 DEF get_value, EMPTY_SET_VALUE
  <2>. QED
    BY <1>2, <1>5, <2>1, <2>2, <2>3 DEF Trusted, index_of
<1>9. CachesTrue(forest, caches)
  BY <1>7 DEF Init, CachesTrue, NoEntries
<1>10. Typed(forest, pc, local)
  <2> DEFINE c == Call("none", <<>>, {})
             l == Idle(c, 0)
  <2>1. l = [call |-> c, op |-> "none", a |-> 0, b |-> 0, set |-> {}, ret |-> 0,
             todo |-> <<>>]
    BY DEF Idle, Locals
  <2>2. c.op = "none" /\ c.operands = <<>>
    BY DEF Call
  <2>3. pc = [t \in Thread |-> "idle"] /\ local = [t \in Thread |-> l]
    BY DEF Init
  <2>. HIDE DEF c, l
  <2>4. /\ 0 \in Indices(forest)
        /\ c.operands \in Seq(Indices(forest))
        /\ <<>> \in Seq(Pairs(forest))
    BY <1>1, <1>4, <2>2
  <2>5. LocalType(forest, l)
    BY <2>1, <2>4 DEF LocalType
  <2>6. Knows(forest, "idle", l)
    BY <2>1, <2>2, <2>5 DEF Knows, Labels
  <2>. QED
    BY <2>3, <2>6 DEF Typed
<1>11. Findable(forest, pc, local)
  BY <1>1, <1>2, <1>4 DEF Findable, get_value
<1>12. calls \in 0 .. MaxCalls
  BY CallsAssumption DEF Init
<1>. QED
  BY <1>8, <1>9, <1>10, <1>11, <1>12 DEF IInv

(* The invariant is inductive.                                              *)
THEOREM Invariance == Spec => []IInv
<1>1. Init => IInv
  BY InitLemma
<1>2. IInv /\ [Next]_vars => IInv'
  <2>1. ASSUME IInv, UNCHANGED vars
        PROVE  IInv'
    BY <2>1 DEF vars, IInv
  <2>. QED
    BY <2>1, StepLemma
<1>. QED
  BY <1>1, <1>2, PTL DEF Spec

(* However many threads share the forest, no index that one of them holds,  *)
(* or finds, lies beyond the storage.                                       *)
THEOREM TypeCorrect == Spec => []TypeOK
<1>1. ASSUME IInv
      PROVE  TypeOK
  <2>1. \A t \in Thread : pc[t] \in Labels /\ LocalType(forest, local[t])
    BY <1>1 DEF IInv, Typed, Knows
  <2>2. pc = [t \in Thread |-> pc[t]]
    BY <1>1 DEF IInv, Typed
  <2>3. pc \in [Thread -> Labels]
    BY <2>1, <2>2
  <2>4. ASSUME NEW t \in Thread
        PROVE  \A i \in DOMAIN local[t].todo : local[t].todo[i] \in Pairs(forest)
    <3> DEFINE todo == local[t].todo
               P == Pairs(forest)
    <3>1. todo \in Seq(P)
      BY <2>1 DEF LocalType
    <3>. HIDE DEF todo, P
    <3>2. \A i \in DOMAIN todo : todo[i] \in P
      BY <3>1
    <3>. QED
      BY <3>2 DEF todo, P
  <2>. QED
    BY <1>1, <2>1, <2>3, <2>4
       DEF IInv, Trusted, CachesTrue, TypeOK, Labels, LocalType
<1>. QED
  BY <1>1, Invariance, PTL

(* Nothing false is ever recorded in the forest or in a filter cache,       *)
(* although threads act on what they saw before others moved on.            *)
THEOREM RecordsTrue == Spec => []RecordsSound
<1>1. IInv => RecordsSound
  BY DEF IInv, Trusted, CachesTrue, RecordsSound
<1>. QED
  BY <1>1, Invariance, PTL

(* A stored set can be found, or the thread that stored it is about to      *)
(* enter it.                                                                *)
THEOREM StoredFound == Spec => []StoredIsFindable
<1>1. IInv => StoredIsFindable
  BY DEF IInv, Trusted, Findable, StoredIsFindable
<1>. QED
  BY <1>1, Invariance, PTL

(* Every call of every thread returns an index of the set it asked for.     *)
THEOREM AnswersTrue == Spec => []AnswersRight
<1>1. IInv => AnswersRight
  BY DEF IInv, Typed, Knows, AnswersRight, Returned
<1>. QED
  BY <1>1, Invariance, PTL

-----------------------------------------------------------------------------
(* What a step does to the thread that makes it, and to the storage *)

(* The forest can answer the binary call of a thread once it has returned,  *)
(* since the operation under way in it is that call, under the keys of the  *)
(* maps, and its result was recorded before the containments.               *)
Recalls(f, p, l) ==
  LET x == l.call.operands[1]
      y == l.call.operands[2]
  IN  l.call.op \in BinaryOps =>
        /\ p = "idle" => remembered(f, l.call.op, x, y) # {}
        /\ p # "idle" =>
             /\ l.op = l.call.op
             /\ l.a = IF Symmetric(l.op) THEN minimum(x, y) ELSE x
             /\ l.b = IF Symmetric(l.op) THEN maximum(x, y) ELSE y
        /\ p = "relate" => <<l.a, l.b>> \in DOMAIN results(f, l.op)

(* A set enters the storage only by the push_back of a thread whose find    *)
(* missed it.                                                               *)
Stores(t, p, l) ==
  \/ /\ forest'.property_sets = forest.property_sets
     /\ p # "push_back"
  \/ /\ forest' = forest
     /\ p = "push_back" /\ pc[t] = "find" /\ l = local[t]
     /\ l.set \notin DOMAIN forest.property_set_map
  \/ /\ forest'.property_sets = Append(forest.property_sets, local[t].set)
     /\ p = "insert" /\ pc[t] = "push_back"

(* Thread t goes to label p with variables l.                               *)
Goes(t, p, l) ==
  /\ pc' = [pc EXCEPT ![t] = p] /\ local' = [local EXCEPT ![t] = l]
  /\ Remembers(forest, forest')
  /\ DOMAIN forest.property_set_map \subseteq DOMAIN forest'.property_set_map
  /\ Recalls(forest', p, l)
  /\ Stores(t, p, l)

(* Starting an operation.                                                   *)
LEMMA OperateGoes ==
  ASSUME NEW f, NEW t, NEW c, NEW op \in BinaryOps,
         NEW a \in Indices(f), NEW b \in Indices(f),
         c.op \in BinaryOps =>
           c.op = op /\ c.operands[1] = a /\ c.operands[2] = b,
         Operate(t, c, op, a, b)
  PROVE  \E p, l : /\ pc' = [pc EXCEPT ![t] = p]
                   /\ local' = [local EXCEPT ![t] = l]
                   /\ p # "push_back"
                   /\ Recalls(f, p, l)
<1>0. a \in Nat /\ b \in Nat
  BY DEF Indices
<1>1. CASE trivial(op, a, b) # {}
  <2>1. PICK r \in trivial(op, a, b) : Return(t, c, r)
    BY <1>1 DEF Operate
  <2> DEFINE l == Idle(c, r)
  <2>2. l.call = c
    BY DEF Idle, Locals
  <2>3. remembered(f, op, a, b) # {}
    <3>1. CASE op = "set_union"
      BY <1>0, <1>1, <3>1
         DEF trivial, remembered, is_empty, EMPTY_SET_VALUE, minimum, maximum
    <3>2. CASE op = "set_intersection"
      BY <1>0, <1>1, <3>2
         DEF trivial, remembered, is_empty, EMPTY_SET_VALUE, minimum, maximum
    <3>3. CASE op = "set_difference"
      BY <1>0, <1>1, <3>3
         DEF trivial, remembered, is_empty, EMPTY_SET_VALUE, minimum, maximum
    <3>. QED
      BY <3>1, <3>2, <3>3 DEF BinaryOps
  <2>4. pc' = [pc EXCEPT ![t] = "idle"] /\ local' = [local EXCEPT ![t] = l]
    BY <2>1 DEF Return, Goto
  <2>. HIDE DEF l
  <2>5. Recalls(f, "idle", l)
    BY <2>2, <2>3 DEF Recalls
  <2>. QED
    BY <2>4, <2>5
<1>2. CASE trivial(op, a, b) = {}
  <2> DEFINE x == IF Symmetric(op) THEN minimum(a, b) ELSE a
             y == IF Symmetric(op) THEN maximum(a, b) ELSE b
             p == IF Symmetric(op) THEN "check_subset" ELSE "lookup"
             l == Locals(c, op, x, y, {}, 0)
  <2>1. l.call = c /\ l.op = op /\ l.a = x /\ l.b = y
    BY DEF Locals
  <2>2. pc' = [pc EXCEPT ![t] = p] /\ local' = [local EXCEPT ![t] = l]
    BY <1>2 DEF Operate, Perform, Goto
  <2>. HIDE DEF l
  <2>3. Recalls(f, p, l)
    BY <2>1 DEF Recalls
  <2>. QED
    BY <2>2, <2>3
<1>. QED
  BY <1>1, <1>2

(* A step that leaves the shared object alone.                              *)
LEMMA AloneGoes ==
  ASSUME forest' = forest, NEW t, NEW p, NEW l,
         pc' = [pc EXCEPT ![t] = p], local' = [local EXCEPT ![t] = l],
         p # "push_back", Recalls(forest, p, l)
  PROVE  Goes(t, p, l)
<1>1. Remembers(forest, forest')
  BY DEF Remembers, Kept
<1>. QED
  BY <1>1 DEF Goes, Stores

(* Return, of a call that is answered from memory if it is binary.          *)
LEMMA ReturnGoes ==
  ASSUME NEW t, NEW c, NEW r, forest' = forest, Return(t, c, r),
         c.op \in BinaryOps =>
           remembered(forest, c.op, c.operands[1], c.operands[2]) # {}
  PROVE  \E p, l : Goes(t, p, l)
<1> DEFINE l == Idle(c, r)
<1>1. l.call = c
  BY DEF Idle, Locals
<1>2. pc' = [pc EXCEPT ![t] = "idle"] /\ local' = [local EXCEPT ![t] = l]
  BY DEF Return, Goto
<1>. HIDE DEF l
<1>3. Recalls(forest, "idle", l)
  BY <1>1 DEF Recalls
<1>. QED
  BY <1>2, <1>3, AloneGoes

(* The calls.                                                               *)
LEMMA OperationGoes ==
  ASSUME IInv, NEW t \in Thread, NEW op \in BinaryOps,
         NEW a \in Indices(forest), NEW b \in Indices(forest),
         operation(t, op, a, b)
  PROVE  \E p, l : Goes(t, p, l)
<1> DEFINE c == Call(op, <<a, b>>, {})
<1>1. c.op = op /\ c.operands[1] = a /\ c.operands[2] = b
  BY DEF Call
<1>2. forest' = forest /\ Operate(t, c, op, a, b)
  BY DEF operation, Begin
<1>. HIDE DEF c
<1>3. PICK p, l : /\ pc' = [pc EXCEPT ![t] = p]
                  /\ local' = [local EXCEPT ![t] = l]
                  /\ p # "push_back"
                  /\ Recalls(forest, p, l)
  BY <1>1, <1>2, OperateGoes
<1>. QED
  BY <1>2, <1>3, AloneGoes

(* The calls that compute a set go to find it.                              *)
LEMMA RegisterGoes ==
  ASSUME NEW t, NEW c, c.op \notin BinaryOps, NEW s,
         forest' = forest, RegisterFor(t, c, s)
  PROVE  \E p, l : Goes(t, p, l)
<1> DEFINE l == Locals(c, "register_set", 0, 0, s, 0)
<1>1. l.call = c
  BY DEF Locals
<1>2. pc' = [pc EXCEPT ![t] = "find"] /\ local' = [local EXCEPT ![t] = l]
  BY DEF RegisterFor, Goto
<1>. HIDE DEF l
<1>3. Recalls(forest, "find", l)
  BY <1>1 DEF Recalls
<1>. QED
  BY <1>2, <1>3, AloneGoes

(* All calls but the binary ones.                                           *)
LEMMA CallGoes ==
  ASSUME IInv, NEW t \in Thread,
         \/ \E s \in SUBSET Property : register_set(t, s)
         \/ \E a \in Indices(forest), p \in Property :
              \/ set_insert_single(t, a, p)
              \/ set_remove_single(t, a, p)
              \/ set_remove_single_key(t, a, p)
         \/ \E s \in Indices(forest), keep \in Filter : set_filter(t, s, keep)
  PROVE  \E p, l : Goes(t, p, l)
<1>1. ASSUME NEW s, register_set(t, s) PROVE \E p, l : Goes(t, p, l)
  <2>1. Call("register_set", <<>>, s).op \notin BinaryOps
    BY DEF Call, BinaryOps
  <2>. QED
    BY <1>1, <2>1, RegisterGoes DEF register_set, Begin
<1>2. ASSUME NEW a, NEW q, set_insert_single(t, a, q)
      PROVE  \E p, l : Goes(t, p, l)
  <2>1. Call("set_insert_single", <<a>>, {q}).op \notin BinaryOps
    BY DEF Call, BinaryOps
  <2>. QED
    BY <1>2, <2>1, RegisterGoes DEF set_insert_single, Begin
<1>3. ASSUME NEW a, NEW q, set_remove_single(t, a, q)
      PROVE  \E p, l : Goes(t, p, l)
  <2>1. Call("set_remove_single", <<a>>, {q}).op \notin BinaryOps
    BY DEF Call, BinaryOps
  <2>. QED
    BY <1>3, <2>1, RegisterGoes DEF set_remove_single, Begin
<1>4. ASSUME NEW a, NEW q, set_remove_single_key(t, a, q)
      PROVE  \E p, l : Goes(t, p, l)
  <2>1. Call("set_remove_single_key", <<a>>, {q}).op \notin BinaryOps
    BY DEF Call, BinaryOps
  <2>. QED
    BY <1>4, <2>1, RegisterGoes DEF set_remove_single_key, Begin
<1>5. ASSUME NEW s, NEW keep, set_filter(t, s, keep)
      PROVE  \E p, l : Goes(t, p, l)
  <2> DEFINE c == Call("set_filter", <<s>>, keep)
  <2>1. c.op \notin BinaryOps
    BY DEF Call, BinaryOps
  <2>2. /\ forest' = forest
        /\ Return(t, c, s) \/ Perform(t, c, "set_filter", s, s, "filter")
    BY <1>5 DEF set_filter, Begin
  <2>. HIDE DEF c
  <2>3. CASE Return(t, c, s)
    BY <2>1, <2>2, <2>3, ReturnGoes
  <2>4. CASE Perform(t, c, "set_filter", s, s, "filter")
    <3> DEFINE l == Locals(c, "set_filter", s, s, {}, 0)
    <3>1. l.call = c
      BY DEF Locals
    <3>2. /\ pc' = [pc EXCEPT ![t] = "filter"]
          /\ local' = [local EXCEPT ![t] = l]
      BY <2>4 DEF Perform, Goto
    <3>. HIDE DEF l
    <3>3. Recalls(forest, "filter", l)
      BY <2>1, <3>1 DEF Recalls
    <3>. QED
      BY <2>2, <3>2, <3>3, AloneGoes
  <2>. QED
    BY <2>2, <2>3, <2>4
<1>. QED
  BY <1>1, <1>2, <1>3, <1>4, <1>5

(* The result of a recorded pair is answered from memory.                   *)
LEMMA RecordedRemembered ==
  ASSUME NEW f, NEW p, NEW l, p # "idle", Recalls(f, p, l),
         l.call.op \in BinaryOps,
         \/ <<l.a, l.b>> \in DOMAIN results(f, l.op)
         \/ Symmetric(l.op) /\ is_subset(f, l.a, l.b) \in {"SUBSET", "SUPERSET"}
  PROVE  remembered(f, l.call.op, l.call.operands[1], l.call.operands[2]) # {}
<1> DEFINE x == l.call.operands[1]
           y == l.call.operands[2]
<1>1. /\ l.op = l.call.op
      /\ l.a = IF Symmetric(l.op) THEN minimum(x, y) ELSE x
      /\ l.b = IF Symmetric(l.op) THEN maximum(x, y) ELSE y
  BY DEF Recalls
<1>. HIDE DEF x, y
<1>2. CASE l.op = "set_union"
  <2>1. /\ l.a = minimum(x, y) /\ l.b = maximum(x, y)
        /\ results(f, l.op) = f.unions
    BY <1>1, <1>2 DEF Symmetric, results
  <2>. QED
    BY <1>1, <1>2, <2>1 DEF remembered, x, y
<1>3. CASE l.op = "set_intersection"
  <2>1. /\ l.a = minimum(x, y) /\ l.b = maximum(x, y)
        /\ results(f, l.op) = f.intersections
    BY <1>1, <1>3 DEF Symmetric, results
  <2>. QED
    BY <1>1, <1>3, <2>1 DEF remembered, x, y
<1>4. CASE l.op = "set_difference"
  <2>1. /\ l.a = x /\ l.b = y
        /\ results(f, l.op) = f.differences
    BY <1>1, <1>4 DEF Symmetric, results
  <2>. QED
    BY <1>1, <1>4, <2>1 DEF remembered, x, y, Symmetric
<1>. QED
  BY <1>1, <1>2, <1>3, <1>4 DEF BinaryOps


(* The steps that read.                                                     *)
LEMMA ReadGoes ==
  ASSUME IInv, NEW t \in Thread, Recalls(forest, pc[t], local[t]),
         check_subset(t) \/ lookup(t) \/ filter(t)
  PROVE  \E p, l : Goes(t, p, l)
<1> DEFINE l == local[t]
           c == l.call
<1>1. /\ LocalType(forest, l) /\ Knows(forest, pc[t], l)
      /\ local = [local EXCEPT ![t] = l] /\ Trusted(forest)
  BY BeforeLemma
<1>2. CASE check_subset(t)
  <2> DEFINE r == is_subset(forest, l.a, l.b)
  <2>1. pc[t] = "check_subset" /\ forest' = forest
    BY <1>2 DEF check_subset
  <2>2. r # "UNKNOWN" => r \in {"SUBSET", "SUPERSET"}
    BY <1>1 DEF is_subset, Trusted, ForestType, IsMap
  <2>3. CASE r = "UNKNOWN"
    <3>1. Recalls(forest, "lookup", l)
      BY <2>1 DEF Recalls
    <3>2. /\ pc' = [pc EXCEPT ![t] = "lookup"]
          /\ local' = [local EXCEPT ![t] = l]
      BY <1>1, <1>2, <2>3 DEF check_subset, Goto
    <3>. QED
      BY <2>1, <3>1, <3>2, AloneGoes
  <2>4. CASE r # "UNKNOWN"
    <3>1. Symmetric(l.op)
      BY <1>1, <2>1 DEF Knows
    <3>2. c.op \in BinaryOps =>
            remembered(forest, c.op, c.operands[1], c.operands[2]) # {}
      BY <2>1, <2>2, <2>4, <3>1, RecordedRemembered
    <3>3. PICK v : Return(t, c, v)
      BY <1>2, <2>4 DEF check_subset
    <3>. QED
      BY <2>1, <3>2, <3>3, ReturnGoes
  <2>. QED
    BY <2>3, <2>4
<1>3. CASE lookup(t)
  <2> DEFINE m == results(forest, l.op)
             k == <<l.a, l.b>>
  <2>1. pc[t] = "lookup" /\ forest' = forest
    BY <1>3 DEF lookup
  <2>2. CASE k \in DOMAIN m
    <3>1. c.op \in BinaryOps =>
            remembered(forest, c.op, c.operands[1], c.operands[2]) # {}
      BY <2>1, <2>2, RecordedRemembered
    <3>2. PICK v : Return(t, c, v)
      BY <1>3, <2>2 DEF lookup
    <3>. QED
      BY <2>1, <3>1, <3>2, ReturnGoes
  <2>3. CASE k \notin DOMAIN m
    <3> DEFINE s == meaning(forest, l.op, l.a, l.b)
               x == [l EXCEPT !.set = s]
    <3>1. /\ pc' = [pc EXCEPT ![t] = "find"]
          /\ local' = [local EXCEPT ![t] = x]
      BY <1>3, <2>3 DEF lookup, Goto
    <3>2. x.call = c /\ x.op = l.op /\ x.a = l.a /\ x.b = l.b
      BY <1>1 DEF LocalType
    <3>. HIDE DEF x
    <3>3. Recalls(forest, "find", x)
      BY <2>1, <3>2 DEF Recalls
    <3>. QED
      BY <2>1, <3>1, <3>3, AloneGoes
  <2>. QED
    BY <2>2, <2>3
<1>4. CASE filter(t)
  <2> DEFINE m == caches[c.set]
  <2>1. pc[t] = "filter" /\ forest' = forest
    BY <1>4 DEF filter
  <2>2. c.op \notin BinaryOps
    BY <1>1, <2>1 DEF Knows, Busy, Operates, Filters, Registers, BinaryOps
  <2>3. CASE l.a \in DOMAIN m
    <3>1. PICK v : Return(t, c, v)
      BY <1>4, <2>3 DEF filter
    <3>. QED
      BY <2>1, <2>2, <3>1, ReturnGoes
  <2>4. CASE l.a \notin DOMAIN m
    <3> DEFINE x == [l EXCEPT !.set = get_value(forest, l.a) \cap c.set]
    <3>1. /\ pc' = [pc EXCEPT ![t] = "find"]
          /\ local' = [local EXCEPT ![t] = x]
      BY <1>4, <2>4 DEF filter, Goto
    <3>2. x.call = c
      BY <1>1 DEF LocalType
    <3>. HIDE DEF x
    <3>3. Recalls(forest, "find", x)
      BY <2>2, <3>2 DEF Recalls
    <3>. QED
      BY <2>1, <3>1, <3>3, AloneGoes
  <2>. QED
    BY <2>3, <2>4
<1>. QED
  BY <1>2, <1>3, <1>4

(* The end of a registration.                                               *)
LEMMA RegisteredGoes ==
  ASSUME NEW f, Trusted(f), NEW t, NEW q \in {"find", "insert"},
         Knows(f, q, local[t]), Recalls(f, q, local[t]),
         NEW r \in Indices(f), Registered(t, r)
  PROVE  \E p, l : /\ pc' = [pc EXCEPT ![t] = p]
                   /\ local' = [local EXCEPT ![t] = l]
                   /\ p # "push_back"
                   /\ Recalls(f, p, l)
<1> DEFINE l == local[t]
           c == l.call
<1>1. LocalType(f, l) /\ Busy(f, l) /\ CallType(f, c)
  BY DEF Knows, Busy
<1>2. CASE l.op # "register_set"
  <2> DEFINE x == [l EXCEPT !.ret = r]
  <2>1. x.call = c /\ x.op = l.op /\ x.a = l.a /\ x.b = l.b
    BY <1>1 DEF LocalType
  <2>2. pc' = [pc EXCEPT ![t] = "record"] /\ local' = [local EXCEPT ![t] = x]
    BY <1>2 DEF Registered, Goto
  <2>. HIDE DEF x
  <2>3. Recalls(f, "record", x)
    BY <2>1 DEF Recalls
  <2>. QED
    BY <2>2, <2>3
<1>3. CASE l.op = "register_set"
  <2>1. c.op \notin BinaryOps
    BY <1>1, <1>3 DEF Busy, Operates, Filters, Registers, BinaryOps
  <2>2. CASE c.op \in Halves
    <3>1. c.operands[1] \in Indices(f)
      BY <1>1, <2>1, <2>2 DEF CallType, CallOps, Halves, BinaryOps
    <3>2. PICK op \in BinaryOps : Operate(t, c, op, c.operands[1], r)
      BY <1>3, <2>2 DEF Registered, Halves, BinaryOps
    <3>. QED
      BY <2>1, <3>1, <3>2, OperateGoes
  <2>3. CASE c.op \notin Halves
    <3> DEFINE x == Idle(c, r)
    <3>1. pc' = [pc EXCEPT ![t] = "idle"] /\ local' = [local EXCEPT ![t] = x]
      BY <1>3, <2>3 DEF Registered, Halves, Return, Goto
    <3>2. x.call = c
      BY DEF Idle, Locals
    <3>. HIDE DEF x
    <3>3. Recalls(f, "idle", x)
      BY <2>1, <3>2 DEF Recalls
    <3>. QED
      BY <3>1, <3>3
  <2>. QED
    BY <2>2, <2>3
<1>. QED
  BY <1>2, <1>3

(* The steps that register.                                                 *)
LEMMA StoreGoes ==
  ASSUME IInv, NEW t \in Thread, Recalls(forest, pc[t], local[t]),
         find(t) \/ push_back(t) \/ insert(t)
  PROVE  \E p, l : Goes(t, p, l)
<1> DEFINE l == local[t]
           c == l.call
<1>1. /\ LocalType(forest, l) /\ Knows(forest, pc[t], l)
      /\ local = [local EXCEPT ![t] = l] /\ Trusted(forest)
      /\ forest = Members(forest)
  BY BeforeLemma, MembersLemma
<1>2. CASE find(t)
  <2>1. pc[t] = "find" /\ forest' = forest
    BY <1>2 DEF find
  <2>2. CASE l.set \in DOMAIN forest.property_set_map
    <3> DEFINE r == index_of(forest, l.set)
    <3>1. r \in Indices(forest)
      BY <1>1, <2>2 DEF Trusted, ForestType, IsMap, index_of
    <3>2. Registered(t, r)
      BY <1>2, <2>2 DEF find
    <3>. HIDE DEF r
    <3>3. PICK p, x : /\ pc' = [pc EXCEPT ![t] = p]
                      /\ local' = [local EXCEPT ![t] = x]
                      /\ p # "push_back"
                      /\ Recalls(forest, p, x)
      BY <1>1, <2>1, <3>1, <3>2, RegisteredGoes
    <3>. QED
      BY <2>1, <3>3, AloneGoes
  <2>3. CASE l.set \notin DOMAIN forest.property_set_map
    <3>1. /\ pc' = [pc EXCEPT ![t] = "push_back"]
          /\ local' = [local EXCEPT ![t] = l]
      BY <1>1, <1>2, <2>3 DEF find, Goto
    <3>2. Recalls(forest, "push_back", l)
      BY <2>1 DEF Recalls
    <3>3. Remembers(forest, forest')
      BY <2>1 DEF Remembers, Kept
    <3>. QED
      BY <2>1, <2>3, <3>1, <3>2, <3>3 DEF Goes, Stores
  <2>. QED
    BY <2>2, <2>3
<1>3. CASE push_back(t)
  <2> DEFINE x == [l EXCEPT !.ret = Len(forest.property_sets)]
  <2>1. /\ pc[t] = "push_back"
        /\ forest' = [forest EXCEPT !.property_sets = Append(@, l.set)]
        /\ pc' = [pc EXCEPT ![t] = "insert"]
        /\ local' = [local EXCEPT ![t] = x]
    BY <1>3 DEF push_back, Goto
  <2>2. /\ forest'.property_sets = Append(forest.property_sets, l.set)
        /\ forest'.property_set_map = forest.property_set_map
        /\ forest'.unions = forest.unions
        /\ forest'.intersections = forest.intersections
        /\ forest'.differences = forest.differences
        /\ forest'.subsets = forest.subsets
    BY <1>1, <2>1 DEF Members
  <2>3. x.call = c /\ x.op = l.op /\ x.a = l.a /\ x.b = l.b
    BY <1>1 DEF LocalType
  <2>. HIDE DEF x
  <2>4. Recalls(forest', "insert", x)
    BY <2>1, <2>3 DEF Recalls
  <2>5. Remembers(forest, forest')
    BY <2>2 DEF Remembers, Kept
  <2>. QED
    BY <2>1, <2>2, <2>4, <2>5 DEF Goes, Stores
<1>4. CASE insert(t)
  <2>1. /\ pc[t] = "insert" /\ Registered(t, l.ret)
        /\ forest' = [forest EXCEPT !.property_set_map
                                      = Insert(@, l.set, l.ret)]
    BY <1>4 DEF insert
  <2>2. /\ l.set \in SUBSET Property /\ l.ret \in Indices(forest)
        /\ get_value(forest, l.ret) = l.set
    BY <1>1, <2>1 DEF LocalType, Knows
  <2>3. /\ Trusted(forest') /\ Later(forest, forest')
        /\ Indices(forest') = Indices(forest)
        /\ DOMAIN forest'.property_set_map
             = DOMAIN forest.property_set_map \cup {l.set}
    BY <1>1, <2>1, <2>2, EnteredLemma
  <2>4. /\ forest'.property_sets = forest.property_sets
        /\ forest'.unions = forest.unions
        /\ forest'.intersections = forest.intersections
        /\ forest'.differences = forest.differences
        /\ forest'.subsets = forest.subsets
    BY <1>1, <2>1 DEF Members
  <2>5. Knows(forest', "insert", l)
    BY <1>1, <2>1, <2>3, KnowsLemma
  <2>6. Recalls(forest', "insert", l)
    BY <2>1 DEF Recalls
  <2>7. PICK p, x : /\ pc' = [pc EXCEPT ![t] = p]
                    /\ local' = [local EXCEPT ![t] = x]
                    /\ p # "push_back"
                    /\ Recalls(forest', p, x)
    BY <2>1, <2>2, <2>3, <2>5, <2>6, RegisteredGoes
  <2>8. Remembers(forest, forest')
    BY <2>4 DEF Remembers, Kept
  <2>. QED
    BY <2>3, <2>4, <2>7, <2>8 DEF Goes, Stores
<1>. QED
  BY <1>2, <1>3, <1>4

(* The steps that record.                                                   *)
LEMMA RecordGoes ==
  ASSUME IInv, NEW t \in Thread, Recalls(forest, pc[t], local[t]),
         record(t) \/ record_filter(t) \/ relate(t)
  PROVE  \E p, l : Goes(t, p, l)
<1> DEFINE l == local[t]
           c == l.call
           k == <<l.a, l.b>>
<1>1. /\ LocalType(forest, l) /\ Knows(forest, pc[t], l)
      /\ local = [local EXCEPT ![t] = l] /\ Trusted(forest)
      /\ forest = Members(forest)
  BY BeforeLemma, MembersLemma
<1>2. CASE record(t)
  <2> DEFINE x == [l EXCEPT !.todo = containments(l.op, l.a, l.b, l.ret)]
  <2>1. /\ pc[t] = "record" /\ l.op # "set_filter"
        /\ pc' = [pc EXCEPT ![t] = "relate"]
        /\ local' = [local EXCEPT ![t] = x]
    BY <1>2 DEF record, Goto
  <2>2. l.op \in BinaryOps
    BY <1>1, <2>1 DEF Knows, Busy, Operates, Filters, Registers
  <2>3. /\ forest'.property_sets = forest.property_sets
        /\ forest'.property_set_map = forest.property_set_map
        /\ Remembers(forest, forest')
        /\ k \in DOMAIN results(forest', l.op)
    <3>1. CASE l.op = "set_union"
      <4>1. forest' = [forest EXCEPT !.unions = Insert(@, k, l.ret)]
        BY <1>2, <3>1 DEF record
      <4>2. /\ forest'.property_sets = forest.property_sets
            /\ forest'.property_set_map = forest.property_set_map
            /\ forest'.unions = Insert(forest.unions, k, l.ret)
            /\ forest'.intersections = forest.intersections
            /\ forest'.differences = forest.differences
            /\ forest'.subsets = forest.subsets
        BY <1>1, <4>1 DEF Members
      <4>3. /\ Kept(forest.unions, forest'.unions)
            /\ k \in DOMAIN forest'.unions
        BY <4>2, InsertKeeps
      <4>. QED
        BY <3>1, <4>2, <4>3 DEF Remembers, Kept, results
    <3>2. CASE l.op = "set_intersection"
      <4>1. forest' = [forest EXCEPT !.intersections = Insert(@, k, l.ret)]
        BY <1>2, <3>2 DEF record
      <4>2. /\ forest'.property_sets = forest.property_sets
            /\ forest'.property_set_map = forest.property_set_map
            /\ forest'.unions = forest.unions
            /\ forest'.intersections = Insert(forest.intersections, k, l.ret)
            /\ forest'.differences = forest.differences
            /\ forest'.subsets = forest.subsets
        BY <1>1, <4>1 DEF Members
      <4>3. /\ Kept(forest.intersections, forest'.intersections)
            /\ k \in DOMAIN forest'.intersections
        BY <4>2, InsertKeeps
      <4>. QED
        BY <3>2, <4>2, <4>3 DEF Remembers, Kept, results
    <3>3. CASE l.op = "set_difference"
      <4>1. forest' = [forest EXCEPT !.differences = Insert(@, k, l.ret)]
        BY <1>2, <3>3 DEF record
      <4>2. /\ forest'.property_sets = forest.property_sets
            /\ forest'.property_set_map = forest.property_set_map
            /\ forest'.unions = forest.unions
            /\ forest'.intersections = forest.intersections
            /\ forest'.differences = Insert(forest.differences, k, l.ret)
            /\ forest'.subsets = forest.subsets
        BY <1>1, <4>1 DEF Members
      <4>3. /\ Kept(forest.differences, forest'.differences)
            /\ k \in DOMAIN forest'.differences
        BY <4>2, InsertKeeps
      <4>. QED
        BY <3>3, <4>2, <4>3 DEF Remembers, Kept, results
    <3>. QED
      BY <2>2, <3>1, <3>2, <3>3 DEF BinaryOps
  <2>4. x.call = c /\ x.op = l.op /\ x.a = l.a /\ x.b = l.b
    BY <1>1 DEF LocalType
  <2>. HIDE DEF x
  <2>5. Recalls(forest', "relate", x)
    BY <2>1, <2>3, <2>4 DEF Recalls
  <2>6. Stores(t, "relate", x)
    BY <2>3 DEF Stores
  <2>. QED
    BY <2>1, <2>3, <2>5, <2>6 DEF Goes
<1>3. CASE record_filter(t)
  <2>1. /\ pc[t] = "record" /\ l.op = "set_filter" /\ forest' = forest
        /\ Return(t, c, l.ret)
    BY <1>3 DEF record_filter
  <2>2. c.op \notin BinaryOps
    BY <1>1, <2>1 DEF Knows, Busy, Operates, Filters, Registers, BinaryOps
  <2>. QED
    BY <2>1, <2>2, ReturnGoes
<1>4. CASE relate(t)
  <2>1. pc[t] = "relate"
    BY <1>4 DEF relate
  <2>2. /\ forest'.property_sets = forest.property_sets
        /\ forest'.property_set_map = forest.property_set_map
        /\ Remembers(forest, forest')
    <3>1. CASE l.todo = <<>>
      <4> DEFINE j == <<minimum(l.a, l.b), maximum(l.a, l.b)>>
      <4>1. forest' = [forest EXCEPT !.intersections
                                       = Insert(@, j, EMPTY_SET_VALUE)]
        BY <1>4, <3>1 DEF relate
      <4>2. /\ forest'.property_sets = forest.property_sets
            /\ forest'.property_set_map = forest.property_set_map
            /\ forest'.unions = forest.unions
            /\ forest'.intersections
                 = Insert(forest.intersections, j, EMPTY_SET_VALUE)
            /\ forest'.differences = forest.differences
            /\ forest'.subsets = forest.subsets
        BY <1>1, <4>1 DEF Members
      <4>3. Kept(forest.intersections, forest'.intersections)
        BY <4>2, InsertKeeps
      <4>. QED
        BY <4>2, <4>3 DEF Remembers, Kept
    <3>2. CASE l.todo # <<>>
      <4>1. PICK a, b : forest' = store_subset(forest, a, b)
        BY <1>4, <3>2 DEF relate
      <4>2. /\ forest'.property_sets = forest.property_sets
            /\ forest'.property_set_map = forest.property_set_map
        BY <1>1, <4>1 DEF Members, store_subset
      <4>3. Remembers(forest, forest')
        BY <1>1, <4>1, StoreSubsetRemembers
      <4>. QED
        BY <4>2, <4>3
    <3>. QED
      BY <3>1, <3>2
  <2>3. c.op \in BinaryOps =>
          k \in DOMAIN results(forest, l.op) /\ l.op = c.op
    BY <2>1 DEF Recalls
  <2>4. c.op \in BinaryOps => k \in DOMAIN results(forest', l.op)
    BY <2>2, <2>3 DEF Remembers, Kept, results, BinaryOps
  <2>5. CASE Len(l.todo) > 1
    <3> DEFINE x == [l EXCEPT !.todo = Tail(@)]
    <3>1. local' = [local EXCEPT ![t] = x] /\ pc' = pc
      BY <1>4, <2>5 DEF relate
    <3>2. x.call = c /\ x.op = l.op /\ x.a = l.a /\ x.b = l.b
      BY <1>1 DEF LocalType
    <3>3. pc' = [pc EXCEPT ![t] = "relate"]
      BY <2>1, <3>1, BeforeLemma
    <3>. HIDE DEF x
    <3>4. Recalls(forest', "relate", x)
      BY <2>1, <2>4, <3>2 DEF Recalls
    <3>. QED
      BY <2>2, <3>1, <3>3, <3>4 DEF Goes, Stores
  <2>6. CASE ~(Len(l.todo) > 1)
    <3> DEFINE x == Idle(c, l.ret)
    <3>1. /\ pc' = [pc EXCEPT ![t] = "idle"]
          /\ local' = [local EXCEPT ![t] = x]
      BY <1>4, <2>6 DEF relate, Return, Goto
    <3>2. x.call = c
      BY DEF Idle, Locals
    <3>. HIDE DEF x
    <3>3. Recalls(forest', "relate", l)
      BY <2>1, <2>4 DEF Recalls
    <3>4. c.op \in BinaryOps =>
            remembered(forest', c.op, c.operands[1], c.operands[2]) # {}
      BY <2>4, <3>3, RecordedRemembered
    <3>5. Recalls(forest', "idle", x)
      BY <3>2, <3>4 DEF Recalls
    <3>6. Stores(t, "idle", x)
      BY <2>2 DEF Stores
    <3>. QED
      BY <2>2, <3>1, <3>5, <3>6 DEF Goes
  <2>. QED
    BY <2>5, <2>6
<1>. QED
  BY <1>2, <1>3, <1>4

-----------------------------------------------------------------------------
(* What was answered once is answered from memory *)

RInv == \A t \in Thread : Recalls(forest, pc[t], local[t])

(* Every step is one thread's.                                              *)
LEMMA NextGoes ==
  ASSUME IInv, RInv, Next
  PROVE  \E t \in Thread : \E p, l : Goes(t, p, l)
<1>1. PICK t \in Thread :
        \/ \E s \in SUBSET Property : register_set(t, s)
        \/ \E op \in BinaryOps, a, b \in Indices(forest) :
             operation(t, op, a, b)
        \/ \E a \in Indices(forest), p \in Property :
             \/ set_insert_single(t, a, p)
             \/ set_remove_single(t, a, p)
             \/ set_remove_single_key(t, a, p)
        \/ \E s \in Indices(forest), keep \in Filter : set_filter(t, s, keep)
        \/ Step(t)
  BY DEF Next
<1>2. Recalls(forest, pc[t], local[t])
  BY DEF RInv
<1>. QED
  BY <1>1, <1>2, OperationGoes, CallGoes, ReadGoes, StoreGoes, RecordGoes
     DEF Step

(* What the other threads can count on grows.                               *)
LEMMA RecallsKept ==
  ASSUME NEW f, NEW g, Trusted(f), Remembers(f, g), NEW p, NEW l,
         Recalls(f, p, l)
  PROVE  Recalls(g, p, l)
<1>1. ASSUME l.call.op \in BinaryOps,
             remembered(f, l.call.op, l.call.operands[1], l.call.operands[2])
               # {}
      PROVE  remembered(g, l.call.op, l.call.operands[1], l.call.operands[2])
               # {}
  BY <1>1, RememberedKept
<1>2. l.op \in BinaryOps /\ <<l.a, l.b>> \in DOMAIN results(f, l.op)
        => <<l.a, l.b>> \in DOMAIN results(g, l.op)
  BY DEF Remembers, Kept, results, BinaryOps
<1>. QED
  BY <1>1, <1>2 DEF Recalls

(* What a thread can recall stays so under the steps of all threads.        *)
LEMMA RecallsStep ==
  ASSUME IInv, RInv, Next
  PROVE  RInv'
<1>1. PICK t \in Thread : \E p, l : Goes(t, p, l)
  BY NextGoes
<1>2. PICK p, l : Goes(t, p, l)
  BY <1>1
<1>3. /\ pc'[t] = p /\ local'[t] = l
      /\ \A u \in Thread \ {t} : pc'[u] = pc[u] /\ local'[u] = local[u]
  BY <1>2 DEF Goes, IInv, Typed
<1>4. ASSUME NEW u \in Thread PROVE Recalls(forest', pc'[u], local'[u])
  <2>1. CASE u = t
    BY <1>2, <1>3, <2>1 DEF Goes
  <2>2. CASE u # t
    <3>1. Recalls(forest', pc[u], local[u])
      BY <1>2, RecallsKept DEF Goes, RInv, IInv
    <3>. QED
      BY <1>3, <2>2, <3>1
  <2>. QED
    BY <2>1, <2>2
<1>. QED
  BY <1>4 DEF RInv

(* A binary call that has returned, and every later one with its operands   *)
(* by any thread, is answered from memory, with an index of the same set    *)
(* (lhf.hpp 1809-1991, guide.md on operations performed only once).         *)
THEOREM AnswersKept == Spec => []AnswersRemembered
<1>1. Init => RInv
  <2>. SUFFICES ASSUME Init, NEW t \in Thread
                PROVE  Recalls(forest, pc[t], local[t])
    BY DEF RInv
  <2>1. local[t].call.op = "none"
    BY DEF Init, Idle, Locals, Call
  <2>. QED
    BY <2>1 DEF Recalls, BinaryOps
<1>2. IInv /\ RInv /\ [Next]_vars => RInv'
  <2>1. ASSUME RInv, UNCHANGED vars PROVE RInv'
    BY <2>1 DEF RInv, vars
  <2>. QED
    BY <2>1, RecallsStep
<1>3. IInv /\ RInv => AnswersRemembered
  <2>. SUFFICES ASSUME IInv, RInv, NEW t \in Thread,
                       Returned(t), local[t].call.op \in BinaryOps
                PROVE  LET c == local[t].call
                           m == remembered(forest, c.op, c.operands[1],
                                           c.operands[2])
                       IN  /\ m # {}
                           /\ \A r \in m : get_value(forest, r)
                                = get_value(forest, local[t].ret)
    BY DEF AnswersRemembered
  <2> DEFINE c == local[t].call
             m == remembered(forest, c.op, c.operands[1], c.operands[2])
  <2>1. m # {}
    BY DEF RInv, Recalls, Returned
  <2>2. /\ CallType(forest, c)
        /\ get_value(forest, local[t].ret) = asked(forest, c)
        /\ Trusted(forest)
    BY BeforeLemma DEF Knows, Returned
  <2>3. c.operands[1] \in Indices(forest) /\ c.operands[2] \in Indices(forest)
    BY <2>2 DEF CallType
  <2>4. asked(forest, c)
          = meaning(forest, c.op, c.operands[1], c.operands[2])
    BY DEF asked, BinaryOps
  <2>5. ASSUME NEW r \in m
        PROVE  get_value(forest, r)
                 = meaning(forest, c.op, c.operands[1], c.operands[2])
    <3>. HIDE DEF c
    <3>1. c.op \in BinaryOps
      BY DEF c
    <3>2. /\ c.op = "set_union" =>
               get_value(forest, r) = get_value(forest, c.operands[1])
                                        \cup get_value(forest, c.operands[2])
          /\ c.op = "set_intersection" =>
               get_value(forest, r) = get_value(forest, c.operands[1])
                                        \cap get_value(forest, c.operands[2])
          /\ c.op = "set_difference" =>
               get_value(forest, r) = get_value(forest, c.operands[1])
                                        \ get_value(forest, c.operands[2])
      BY <2>2, <2>3, <3>1, RememberedTrue
    <3>. QED
      BY <3>1, <3>2 DEF meaning, BinaryOps
  <2>. QED
    BY <2>1, <2>2, <2>4, <2>5
<1>. QED
  BY <1>1, <1>2, <1>3, Invariance, PTL DEF Spec

-----------------------------------------------------------------------------
(* How many indices a set can get *)

Copies(f, s) == {i \in Indices(f) : get_value(f, i) = s}

(* A thread on its way to add s.                                            *)
Pushing(p, l, s) == p = "push_back" /\ l.set = s

(* Every copy of s was added by a thread of its own that is not about to    *)
(* add another.                                                             *)
Owned(f, labels, locals, s) ==
  \E owner \in [Copies(f, s) -> Thread] :
    /\ \A i, j \in Copies(f, s) : owner[i] = owner[j] => i = j
    /\ \A i \in Copies(f, s) : ~ Pushing(labels[owner[i]], locals[owner[i]], s)

EmptyOnce(f, labels, locals) ==
  /\ {} \in DOMAIN f.property_set_map
  /\ Copies(f, {}) = {0}
  /\ \A t \in Thread : ~ Pushing(labels[t], locals[t], {})

CInv ==
  /\ \A s \in SUBSET Property : Owned(forest, pc, local, s)
  /\ EmptyOnce(forest, pc, local)

(* A step that stores nothing, of a thread that is not going to.            *)
LEMMA NothingStored ==
  ASSUME NEW f, NEW g, g.property_sets = f.property_sets,
         NEW labels, NEW labels2, NEW locals, NEW locals2, NEW s,
         \A u \in Thread :
           Pushing(labels2[u], locals2[u], s) => Pushing(labels[u], locals[u], s),
         Owned(f, labels, locals, s)
  PROVE  Owned(g, labels2, locals2, s)
<1>1. Copies(g, s) = Copies(f, s)
  BY DEF Copies, Indices, get_value
<1>. QED
  BY <1>1 DEF Owned

(* A thread whose find missed: until the set enters the map, each of its    *)
(* copies is held by a thread that has still to insert it.                  *)
LEMMA MissedOwned ==
  ASSUME IInv, NEW t \in Thread, pc[t] # "insert", NEW s,
         s \notin DOMAIN forest.property_set_map,
         pc' = [pc EXCEPT ![t] = "push_back"], local' = local
  PROVE  Owned(forest, pc', local', s)
<1> DEFINE C == Copies(forest, s)
           holds(u, i) == pc[u] = "insert" /\ local[u].ret = i
           owner == [i \in C |-> CHOOSE u \in Thread : holds(u, i)]
<1>1. ASSUME NEW i \in C
      PROVE  owner[i] \in Thread /\ holds(owner[i], i)
  <2>1. \E u \in Thread : holds(u, i)
    BY DEF IInv, Findable, Copies
  <2>. QED
    BY <2>1
<1>2. owner \in [C -> Thread]
  BY <1>1
<1>. HIDE DEF owner
<1>3. \A i, j \in C : owner[i] = owner[j] => i = j
  BY <1>1
<1>4. ASSUME NEW i \in C
      PROVE  ~ Pushing(pc'[owner[i]], local'[owner[i]], s)
  <2>1. owner[i] # t /\ pc[owner[i]] = "insert"
    BY <1>1
  <2>2. pc'[owner[i]] = pc[owner[i]]
    BY <1>1, <2>1 DEF IInv, Typed
  <2>. QED
    BY <2>1, <2>2 DEF Pushing
<1>. QED
  BY <1>2, <1>3, <1>4 DEF Owned

(* A thread that adds s owns the new copy.                                  *)
LEMMA PushedOwned ==
  ASSUME IInv, NEW t \in Thread, NEW s \in SUBSET Property,
         Pushing(pc[t], local[t], s),
         forest'.property_sets = Append(forest.property_sets, s),
         pc'[t] = "insert",
         \A u \in Thread \ {t} : pc'[u] = pc[u] /\ local'[u] = local[u],
         Owned(forest, pc, local, s)
  PROVE  Owned(forest', pc', local', s)
<1> DEFINE C == Copies(forest, s)
           n == Len(forest.property_sets)
<1>1. PICK owner \in [C -> Thread] :
        /\ \A i, j \in C : owner[i] = owner[j] => i = j
        /\ \A i \in C : ~ Pushing(pc[owner[i]], local[owner[i]], s)
  BY DEF Owned
<1>2. forest.property_sets \in Seq(SUBSET Property) /\ n \in Nat
  BY DEF IInv, Trusted, ForestType
<1>3. Copies(forest', s) = C \cup {n} /\ n \notin C
  <2>1. Indices(forest') = Indices(forest) \cup {n} /\ n \notin Indices(forest)
    BY <1>2 DEF Indices
  <2>2. /\ \A i \in Indices(forest) : get_value(forest', i) = get_value(forest, i)
        /\ get_value(forest', n) = s
    BY <1>2 DEF Indices, get_value
  <2>. QED
    BY <2>1, <2>2 DEF Copies
<1> DEFINE next == [i \in C \cup {n} |-> IF i = n THEN t ELSE owner[i]]
<1>4. next \in [Copies(forest', s) -> Thread]
  BY <1>1, <1>3
<1>5. \A i \in C : owner[i] # t
  BY <1>1
<1>6. \A i \in C : next[i] = owner[i]
  BY <1>3
<1>7. next[n] = t
  OBVIOUS
<1>. HIDE DEF next
<1>8. \A i, j \in Copies(forest', s) : next[i] = next[j] => i = j
  BY <1>1, <1>3, <1>5, <1>6, <1>7
<1>9. \A i \in Copies(forest', s) :
        ~ Pushing(pc'[next[i]], local'[next[i]], s)
  <2>1. ~ Pushing(pc'[t], local'[t], s)
    BY DEF Pushing
  <2>2. ASSUME NEW i \in C
        PROVE  ~ Pushing(pc'[owner[i]], local'[owner[i]], s)
    <3>1. owner[i] \in Thread \ {t}
      BY <1>1, <1>5
    <3>. QED
      BY <1>1, <3>1
  <2>. QED
    BY <1>3, <1>6, <1>7, <2>1, <2>2
<1>. QED
  BY <1>4, <1>8, <1>9 DEF Owned

(* A step stores nothing, misses a set, or adds the one it missed.          *)
LEMMA OwnedStep ==
  ASSUME IInv, RInv, CInv, Next
  PROVE  CInv'
<1>1. PICK t \in Thread : \E p, l : Goes(t, p, l)
  BY NextGoes
<1>2. PICK p, l : Goes(t, p, l)
  BY <1>1
<1>3. /\ pc'[t] = p /\ local'[t] = l
      /\ \A u \in Thread \ {t} : pc'[u] = pc[u] /\ local'[u] = local[u]
  BY <1>2 DEF Goes, IInv, Typed
<1>4. {} \in DOMAIN forest'.property_set_map
  BY <1>2 DEF Goes, CInv, EmptyOnce
<1>5. local[t].set \in SUBSET Property
  BY BeforeLemma DEF LocalType
<1>6. CASE forest'.property_sets = forest.property_sets /\ p # "push_back"
  <2>1. \A s : \A u \in Thread :
          Pushing(pc'[u], local'[u], s) => Pushing(pc[u], local[u], s)
    BY <1>3, <1>6 DEF Pushing
  <2>2. \A s \in SUBSET Property : Owned(forest', pc', local', s)
    BY <1>6, <2>1, NothingStored DEF CInv
  <2>3. Copies(forest', {}) = Copies(forest, {})
    BY <1>6 DEF Copies, Indices, get_value
  <2>. QED
    BY <1>4, <2>1, <2>2, <2>3 DEF CInv, EmptyOnce
<1>7. CASE /\ forest' = forest
           /\ p = "push_back" /\ pc[t] = "find" /\ l = local[t]
           /\ l.set \notin DOMAIN forest.property_set_map
  <2>1. pc' = [pc EXCEPT ![t] = "push_back"] /\ local' = local
    BY <1>2, <1>7, BeforeLemma DEF Goes
  <2>2. ASSUME NEW s \in SUBSET Property PROVE Owned(forest', pc', local', s)
    <3>1. CASE s = l.set
      BY <1>7, <2>1, <3>1, MissedOwned
    <3>2. CASE s # l.set
      <4>1. \A u \in Thread :
              Pushing(pc'[u], local'[u], s) => Pushing(pc[u], local[u], s)
        BY <1>3, <3>2 DEF Pushing
      <4>. QED
        BY <1>7, <4>1, NothingStored DEF CInv
    <3>. QED
      BY <3>1, <3>2
  <2>3. l.set # {}
    BY <1>7 DEF CInv, EmptyOnce
  <2>4. \A u \in Thread : ~ Pushing(pc'[u], local'[u], {})
    BY <1>3, <2>3 DEF Pushing, CInv, EmptyOnce
  <2>. QED
    BY <1>4, <1>7, <2>2, <2>4 DEF CInv, EmptyOnce
<1>8. CASE /\ forest'.property_sets = Append(forest.property_sets, local[t].set)
           /\ p = "insert" /\ pc[t] = "push_back"
  <2> DEFINE n == Len(forest.property_sets)
             c == local[t].set
  <2>1. Pushing(pc[t], local[t], c)
    BY <1>8 DEF Pushing
  <2>2. forest.property_sets \in Seq(SUBSET Property) /\ n \in Nat
    BY DEF IInv, Trusted, ForestType
  <2>3. /\ Indices(forest') = Indices(forest) \cup {n}
        /\ n \notin Indices(forest)
        /\ \A i \in Indices(forest) :
             get_value(forest', i) = get_value(forest, i)
        /\ get_value(forest', n) = c
    <3>1. Indices(forest') = Indices(forest) \cup {n} /\ n \notin Indices(forest)
      BY <1>5, <1>8, <2>2 DEF Indices
    <3>2. /\ \A i \in Indices(forest) :
               get_value(forest', i) = get_value(forest, i)
          /\ get_value(forest', n) = c
      BY <1>5, <1>8, <2>2 DEF Indices, get_value
    <3>. QED
      BY <3>1, <3>2
  <2>4. ASSUME NEW s, s # c PROVE Copies(forest', s) = Copies(forest, s)
    BY <2>3, <2>4 DEF Copies
  <2>5. \A s : \A u \in Thread :
          Pushing(pc'[u], local'[u], s) => Pushing(pc[u], local[u], s)
    BY <1>3, <1>8 DEF Pushing
  <2>6. ASSUME NEW s \in SUBSET Property PROVE Owned(forest', pc', local', s)
    <3>1. CASE s = c
      BY <1>3, <1>5, <1>8, <2>1, <3>1, PushedOwned DEF CInv
    <3>2. CASE s # c
      BY <2>4, <2>5, <3>2 DEF Owned, CInv
    <3>. QED
      BY <3>1, <3>2
  <2>7. c # {}
    BY <2>1 DEF CInv, EmptyOnce
  <2>8. Copies(forest', {}) = {0}
    BY <2>4, <2>7 DEF CInv, EmptyOnce
  <2>. QED
    BY <1>4, <2>5, <2>6, <2>8 DEF CInv, EmptyOnce
<1>. QED
  BY <1>2, <1>6, <1>7, <1>8 DEF Goes, Stores

(* The threads start from sets that differ.                                 *)
LEMMA OwnedInit ==
  ASSUME Init
  PROVE  CInv
<1> DEFINE sets == <<{}>> \o Prepared
           n == Len(Prepared)
<1>1. /\ n \in Nat
      /\ Prepared \in Seq((SUBSET Property) \ {{}})
      /\ Len(sets) = n + 1
      /\ sets[1] = {}
      /\ \A i \in 1 .. n : sets[i + 1] = Prepared[i]
      /\ DOMAIN sets = 1 .. n + 1
  <2>1. Prepared \in Seq((SUBSET Property) \ {{}})
    BY PreparedAssumption
  <2>2. Len(<<{}>>) = 1 /\ <<{}>>[1] = {} /\ <<{}>> \in Seq(SUBSET Property)
    OBVIOUS
  <2>3. n \in Nat /\ Prepared \in Seq(SUBSET Property)
    BY <2>1
  <2>4. Len(sets) = n + 1 /\ DOMAIN sets = 1 .. n + 1
    BY <2>2, <2>3
  <2>. QED
    BY <2>1, <2>2, <2>3, <2>4
<1>2. /\ forest.property_sets = sets
      /\ DOMAIN forest.property_set_map = {sets[i] : i \in DOMAIN sets}
  BY DEF Init, PreparedForest, FreshForest
<1>. HIDE DEF sets
<1>3. Indices(forest) = 0 .. n
  BY <1>1, <1>2 DEF Indices
<1>4. ASSUME NEW i \in 0 .. n, NEW j \in 0 .. n,
             get_value(forest, i) = get_value(forest, j)
      PROVE  i = j
  <2>1. sets[i + 1] = sets[j + 1]
    BY <1>2, <1>4 DEF get_value
  <2>2. \A k \in 1 .. n : Prepared[k] # {}
    <3>1. Prepared \in Seq((SUBSET Property) \ {{}}) /\ 1 .. n = DOMAIN Prepared
      BY <1>1
    <3>2. \A k \in DOMAIN Prepared : Prepared[k] \in (SUBSET Property) \ {{}}
      BY <3>1
    <3>. QED
      BY <3>1, <3>2
  <2>3. CASE i = 0 \/ j = 0
    BY <1>1, <2>1, <2>2, <2>3
  <2>4. CASE i # 0 /\ j # 0
    <3>1. i \in 1 .. n /\ j \in 1 .. n /\ DOMAIN Prepared = 1 .. n
      BY <1>1, <2>4
    <3>. QED
      BY <1>1, <2>1, <3>1, PreparedAssumption
  <2>. QED
    BY <2>3, <2>4
<1>5. \A s, t : ~ Pushing(pc[t], local[t], s) \/ t \notin Thread
  BY DEF Pushing, Init
<1>6. ASSUME NEW s \in SUBSET Property PROVE Owned(forest, pc, local, s)
  <2>1. PICK t : t \in Thread
    BY ThreadAssumption
  <2> DEFINE owner == [i \in Copies(forest, s) |-> t]
  <2>2. owner \in [Copies(forest, s) -> Thread]
    BY <2>1
  <2>3. \A i, j \in Copies(forest, s) : i = j
    BY <1>3, <1>4 DEF Copies
  <2>4. \A i \in Copies(forest, s) : owner[i] \in Thread
    BY <2>1
  <2>. QED
    BY <1>5, <2>2, <2>3, <2>4 DEF Owned
<1>7. Copies(forest, {}) = {0}
  <2>1. 0 \in 0 .. n /\ get_value(forest, 0) = {}
    BY <1>1, <1>2 DEF get_value
  <2>. QED
    BY <1>3, <1>4, <2>1 DEF Copies
<1>8. {} \in DOMAIN forest.property_set_map
  BY <1>1, <1>2
<1>. QED
  BY <1>5, <1>6, <1>7, <1>8 DEF CInv, EmptyOnce

(* Threads that race to register a set give it no more indices than there   *)
(* are threads, and the empty set never a second one (lhf.hpp 1589-1597).   *)
THEOREM RacesBounded == Spec => []DuplicatesBounded
<1>1. Init => RInv
  <2>. SUFFICES ASSUME Init, NEW t \in Thread
                PROVE  Recalls(forest, pc[t], local[t])
    BY DEF RInv
  <2>1. local[t].call.op = "none"
    BY DEF Init, Idle, Locals, Call
  <2>. QED
    BY <2>1 DEF Recalls, BinaryOps
<1>2. IInv /\ RInv /\ CInv /\ [Next]_vars => RInv' /\ CInv'
  <2>1. ASSUME RInv, CInv, UNCHANGED vars PROVE RInv' /\ CInv'
    BY <2>1 DEF RInv, CInv, vars
  <2>. QED
    BY <2>1, RecallsStep, OwnedStep
<1>3. CInv => DuplicatesBounded
  <2>. SUFFICES ASSUME CInv, NEW s \in SUBSET Property
                PROVE  Cardinality(Copies(forest, s))
                         <= IF s = {} THEN 1 ELSE Cardinality(Thread)
    BY DEF DuplicatesBounded, Copies
  <2>1. CASE s = {}
    <3>1. Copies(forest, s) = {0}
      BY <2>1 DEF CInv, EmptyOnce
    <3>2. Cardinality({0}) = 1
      BY FS_Singleton
    <3>. QED
      BY <2>1, <3>1, <3>2
  <2>2. CASE s # {}
    <3> DEFINE C == Copies(forest, s)
    <3>1. PICK owner \in [C -> Thread] :
            \A i, j \in C : owner[i] = owner[j] => i = j
      BY DEF CInv, Owned
    <3>. HIDE DEF C
    <3>2. owner \in Injection(C, Thread)
      BY <3>1 DEF Injection, IsInjective
    <3>3. Cardinality(C) <= Cardinality(Thread)
      BY <3>2, ThreadAssumption, FS_Injection
    <3>. QED
      BY <2>2, <3>3 DEF C
  <2>. QED
    BY <2>1, <2>2
<1>. QED
  BY <1>1, <1>2, <1>3, OwnedInit, Invariance, PTL DEF Spec
=============================================================================
