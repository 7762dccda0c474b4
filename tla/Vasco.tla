-------------------------------- MODULE Vasco --------------------------------
(***************************************************************************)
(* VASCO's interprocedural engine (Analysis.h) running LFCPA: liveness       *)
(* backwards and points-to sets forwards, each restricted by the other,     *)
(* a function analysed once per pair of inflow values.                      *)
(*                                                                          *)
(* doAnalysis drains the backward worklist, then the forward one, until both *)
(* are empty.  A block is taken from a worklist, its instructions are gone   *)
(* through one by one and what it changed is put on the worklists: a step of *)
(* this module is one of those.  The order of the callers of a context, of   *)
(* the predecessors of a block and of the blocks without a successor is that *)
(* of hash tables, use lists and pointers: any order.                       *)
(***************************************************************************)
EXTENDS PointsTo

CONSTANTS Programs,     \* the programs analysed, before the blocks are split
          None          \* no context

ASSUME NoneDiffers == None \notin Nat

\* What SLIM makes of a module.
Analysed(p) == Translated(startSplitting(p))

ASSUME ProgramsGiven == \A p \in Programs : IsSource(p)

VARIABLES
  program,              \* SLIM's IR of the module, its blocks split
  marked,               \* what setVariableGlobal was called on
  contexts,             \* context_label_to_context_object_map, by label
  SLIM_IN, SLIM_OUT,    \* [f |-> pairs, b |-> live] before and after, by
                        \* label and instruction
  graph,                \* SLIM_transition_graph: <<label, call>> -> label
  forward_worklist, backward_worklist,   \* stacks of [label, bb, done]; done
                        \* is calleeAnalysed
  processing,           \* setProcessingContextLabel's label
  direction,            \* which worklist is being drained
  work                  \* the block being gone through, or NoBlock

values == <<SLIM_IN, SLIM_OUT>>
worklists == <<forward_worklist, backward_worklist>>
vars == <<program, marked, contexts, values, graph, worklists, processing, direction, work>>

-----------------------------------------------------------------------------
(* Instructions are <<function, block, position>>. *)

InstructionsOf(f) ==
  UNION {{<<f, b, i>> : i \in DOMAIN program[f].code[b]} : b \in Blocks(program[f])}

Instructions == UNION {InstructionsOf(f) : f \in DOMAIN program}

Code(f, b)     == program[f].code[b]
CodeAt(i)      == Code(i[1], i[2])[i[3]]
FirstIns(f, b) == <<f, b, 1>>
LastIns(f, b)  == <<f, b, Len(Code(f, b))>>
HasCall(f, b)  == HasOp(program[f], b, "call")
IsExit(f, b)   == b \in getExitBBList(program[f])
IsLast(f, b)   == b \in getLastBasicBlock(program[f])
IsEntry(f, b)  == b = Entry(program[f])

NoValue == [f |-> {}, b |-> {}]

NoBlock == [label |-> None]

\* isVariableGlobal
Globals == Global \cup marked

FunctionOf(label) == contexts[label].function

-----------------------------------------------------------------------------
(* Worklists: a stack that holds nothing twice *)

workInsert(w, e) == IF e \in ToSet(w) THEN w ELSE Append(w, e)

\* Fault: what is queued is not looked for.
InsertAll_twice(w, es) == w \o es

\* Fault: a block queued for one context is not queued for another.
InsertAll_by_block(w, es) ==
  w \o SelectSeq(es, LAMBDA e : \A d \in ToSet(w) : d.bb # e.bb)

(* Several elements, one after the other: those not there yet, and the      *)
(* first of equal ones.                                                     *)
Missing(w, es) ==
  {n \in DOMAIN es : es[n] \notin ToSet(w) /\ \A m \in 1 .. n - 1 : es[m] # es[n]}

InsertAll(w, es) ==
  LET new   == Missing(w, es)
      nth(k) == CHOOSE n \in new : Cardinality({m \in new : m <= n}) = k
  IN  w \o [k \in 1 .. Cardinality(new) |-> es[nth(k)]]

Element(label, bb, done) == [label |-> label, bb |-> bb, done |-> done]

Elements(label, bs) == [n \in DOMAIN bs |-> Element(label, bs[n], FALSE)]

-----------------------------------------------------------------------------
(* The transition graph and the contexts *)

Put(m, k, v) == [x \in DOMAIN m \cup {k} |-> IF x = k THEN v ELSE m[x]]

getCalleeContext(label, call) ==
  IF <<label, call>> \in DOMAIN graph THEN graph[<<label, call>>] ELSE None

\* Fault: a call keeps the context it was first given.
addEdge_first(label, call, to) == graph @@ (<<label, call>> :> to)

addEdge(label, call, to) == Put(graph, <<label, call>>, to)

\* Fault: a context has the caller it is first found to have.
getCallers_one(label) ==
  LET edges == {e \in DOMAIN graph : graph[e] = label}
  IN  {<<e[1], e[2][2]>> : e \in {d \in edges : d = CHOOSE c \in edges : TRUE}}

getCallers(label) ==
  {<<e[1], e[2][2]>> : e \in {d \in DOMAIN graph : graph[d] = label}}

\* The context a call was analysed in, here or where this context comes from.
getSourceContextAtCallSite(label, call) ==
  IF getCalleeContext(label, call) # None THEN getCalleeContext(label, call)
  ELSE getCalleeContext(contexts[label].source, call)

\* Fault: only the last context is compared.
check_if_last_context(f, inflow) ==
  {IF contexts[k].function = f /\ contexts[k].inflow = inflow THEN k ELSE 0 :
     k \in {Cardinality(DOMAIN contexts) - 1}}

(* Label 0, main's first context, is also the answer for no context.        *)
check_if_context_already_exists(f, inflow) ==
  LET same == {k \in DOMAIN contexts :
                 contexts[k].function = f /\ contexts[k].inflow = inflow}
  IN  IF same = {} THEN {0} ELSE same

NewContext(f, inflow, outflow, source) ==
  [function |-> f, inflow |-> inflow, outflow |-> outflow,
   changed |-> FALSE, source |-> source]

(* INIT_CONTEXT: the blocks of f on both worklists and their values         *)
(* initialised, or copied from context `source`, which the call was in      *)
(* before what flows into it changed; then the inflow at its two ends.      *)
Initialised(M, f, source) ==
  LET fn  == program[f]
      bw  == ToSet(fn.ipost) \cup getTerminatingBBList(fn)
      old == IF source = None THEN [i \in Instructions |-> NoValue] ELSE M[source]
  IN  [i \in Instructions |->
         IF i[1] # f THEN NoValue
         ELSE [f |-> IF i[2] \in ToSet(fn.post) THEN old[i].f ELSE {},
               b |-> IF i[2] \in bw THEN old[i].b ELSE {}]]

\* Blocks without a successor that are not queued as leading to the end.
Terminating(fn) == SetToSeqs(getTerminatingBBList(fn) \ ToSet(fn.ipost))

INIT_CONTEXT(f, inflow, source, I, O, fw, bw) ==
  LET new == Cardinality(DOMAIN contexts)
      fn  == program[f]
  IN  /\ contexts' = Put(contexts, new,
           NewContext(f, inflow,
                      IF source = None THEN NoValue ELSE contexts[source].outflow,
                      source))
      /\ SLIM_IN' = Put(I, new,
           [Initialised(I, f, source) EXCEPT ![FirstIns(f, Entry(fn))].f = inflow.f])
      /\ SLIM_OUT' = Put(O, new,
           [Initialised(O, f, source) EXCEPT ![LastIns(f, Back(fn))].b = inflow.b])
      /\ forward_worklist' = InsertAll(fw, Elements(new, fn.post))
      /\ \E ends \in Terminating(fn) :
           backward_worklist' = InsertAll(bw, Elements(new, fn.ipost \o ends))
      /\ processing' = new

Init ==
  /\ program \in {Analysed(p) : p \in Programs}
  /\ marked = {}
  /\ contexts = [l \in {0} |-> NewContext("main", NoValue, NoValue, None)]
  /\ SLIM_IN = [l \in {0} |-> [i \in Instructions |-> NoValue]]
  /\ SLIM_OUT = SLIM_IN
  /\ graph = [e \in {} |-> 0]
  /\ forward_worklist = Elements(0, program["main"].post)
  /\ \E ends \in Terminating(program["main"]) :
       backward_worklist = Elements(0, program["main"].ipost \o ends)
  /\ processing = 0
  /\ direction = "backward"
  /\ work = NoBlock

-----------------------------------------------------------------------------
(* What handling an instruction writes, at the label being processed         *)

SetAt(I, i, side, v)  == [I EXCEPT ![processing][i][side] = v]
Changed(label)        == [contexts EXCEPT ![label].changed = TRUE]
SetOutflow(label, changed, side, v) ==
  [contexts EXCEPT ![label] = [@ EXCEPT !.changed = changed, !.outflow[side] = v]]

This     == <<FunctionOf(work.label), work.bb, work.i>>
At       == CodeAt(This)
Pair     == Element(work.label, work.bb, FALSE)
PairDone == Element(work.label, work.bb, TRUE)
InCallBlock == HasCall(FunctionOf(work.label), work.bb)
Going(way) == work # NoBlock /\ direction = way

\* Fault: what the block had before is not kept.
Working_anew(e, i, prev) ==
  [label |-> e.label, bb |-> e.bb, done |-> e.done, i |-> i, prev |-> prev,
   in |-> NoValue, out |-> NoValue]

(* A block is taken from the top of the worklist. *)
Working(e, i, prev) ==
  LET f == FunctionOf(e.label)
  IN  [label |-> e.label, bb |-> e.bb, done |-> e.done, i |-> i, prev |-> prev,
       in  |-> SLIM_IN[e.label][FirstIns(f, e.bb)],
       out |-> SLIM_OUT[e.label][LastIns(f, e.bb)]]

-----------------------------------------------------------------------------
(* doAnalysisBackward *)

(* LOUT is what is live into the successors; what the caller needs where    *)
(* the function returns.  A block that exits is left as it was.             *)
BackwardBlock ==
  /\ work = NoBlock
  /\ direction = "backward"
  /\ backward_worklist # <<>>
  /\ LET e    == Last(backward_worklist)
         f    == FunctionOf(e.label)
         next == ToSet(program[f].succ[e.bb])
         out  == IF IsExit(f, e.bb) THEN SLIM_OUT[e.label][LastIns(f, e.bb)].b
                 ELSE IF ~IsLast(f, e.bb)
                 THEN UNION {SLIM_IN[e.label][FirstIns(f, s)].b : s \in next}
                 ELSE IF f = "main" THEN {} ELSE contexts[e.label].inflow.b
     IN  /\ backward_worklist' = Front(backward_worklist)
         /\ processing' = e.label
         /\ SLIM_OUT' = [SLIM_OUT EXCEPT ![e.label][LastIns(f, e.bb)].b = out]
         /\ SLIM_IN' = IF IsExit(f, e.bb)
                       THEN [SLIM_IN EXCEPT ![e.label][FirstIns(f, e.bb)].b = out]
                       ELSE SLIM_IN
         /\ work' = Working(e, Len(Code(f, e.bb)), out)
  /\ UNCHANGED <<program, marked, contexts, graph, forward_worklist, direction>>

(* A change queues the block forwards: of what is live after an instruction *)
(* in a block with a call, before it in one without.  What a function        *)
(* returns is taken for a global from here on.                              *)
BackwardPlain ==
  /\ Going("backward")
  /\ work.i >= 1
  /\ At.op # "call"
  /\ IF InCallBlock /\ At.op \in Builtin
     THEN /\ work' = [work EXCEPT !.i = @ - 1]
          /\ UNCHANGED <<values, contexts, forward_worklist>>
     ELSE LET I     == SLIM_IN[processing][This]
              new   == computeInFromOut(At, work.prev, I.f)
              moved == IF InCallBlock THEN work.prev # SLIM_OUT[processing][This].b
                       ELSE new # I.b
          IN  /\ SLIM_OUT' = SetAt(SLIM_OUT, This, "b", work.prev)
              /\ SLIM_IN' = SetAt(SLIM_IN, This, "b", new)
              /\ contexts' = IF moved THEN Changed(work.label) ELSE contexts
              /\ forward_worklist' = IF moved THEN workInsert(forward_worklist, Pair)
                                     ELSE forward_worklist
              /\ work' = [work EXCEPT !.i = @ - 1, !.prev = new]
  /\ marked' = marked \cup (IF At.op = "ret" THEN {At.rhs} \ {""} ELSE {})
  /\ UNCHANGED <<program, graph, backward_worklist, processing, direction>>

(* The context of a call: the one for what flows in, or, when only the      *)
(* callee's outflow is new, the one the call already has.                   *)
Matching(inflow) ==
  IF work.done THEN {getCalleeContext(work.label, This)} \ {None}
  ELSE check_if_context_already_exists(At.rhs, inflow) \ {0}

\* What the callee returns.
Returned == ReturnOperand(program[At.rhs])

BackwardInflow ==
  CallInflow(At, SLIM_IN[processing][This].f, work.prev, Globals, Returned)

BackwardOut ==
  IF work.done THEN SLIM_OUT ELSE SetAt(SLIM_OUT, This, "b", work.prev)

BackwardCall ==
  /\ Going("backward")
  /\ work.i >= 1
  /\ At.op = "call"
  /\ \E k \in Matching(BackwardInflow) :
       LET new == SLIM_IN[processing][This].b
                    \cup contexts[k].outflow.b
                    \cup CallerLocal(At, work.prev, Globals, Returned)
       IN  /\ graph' = addEdge(work.label, This, k)
           /\ SLIM_OUT' = BackwardOut
           /\ SLIM_IN' = SetAt(SLIM_IN, This, "b", new)
           /\ work' = [work EXCEPT !.i = @ - 1, !.prev = new]
  /\ UNCHANGED <<program, marked, contexts, worklists, processing, direction>>

(* No such context: the callee is analysed first, the block comes again,    *)
(* and the instructions left are handled at the new context's label.        *)
BackwardNewContext ==
  /\ Going("backward")
  /\ work.i >= 1
  /\ At.op = "call"
  /\ LET inflow == IF work.done THEN NoValue ELSE BackwardInflow
     IN  /\ Matching(inflow) = {}
         /\ INIT_CONTEXT(At.rhs, inflow, getSourceContextAtCallSite(work.label, This),
                         SLIM_IN, BackwardOut, forward_worklist,
                         workInsert(backward_worklist, PairDone))
         /\ graph' = addEdge(work.label, This, Cardinality(DOMAIN contexts))
         /\ work' = [work EXCEPT !.i = @ - 1]
  /\ UNCHANGED <<program, marked, direction>>

(* What is live before the block changed: forwards again, and the blocks    *)
(* before it.  The callers of an entry block always come again.             *)
BackwardEnd ==
  /\ Going("backward")
  /\ work.i = 0
  /\ LET l      == work.label
         f      == FunctionOf(l)
         live   == SLIM_IN[l][FirstIns(f, work.bb)].b
         before == live # work.in.b
         after  == SLIM_OUT[l][LastIns(f, work.bb)].b # work.out.b
         moved  == contexts[l].changed \/ before \/ after
         entry  == IsEntry(f, work.bb)
     IN  /\ contexts' = SetOutflow(l, moved, "b",
              IF entry THEN GlobalandFunctionArg(live, Globals) ELSE contexts[l].outflow.b)
         /\ forward_worklist' = IF before \/ after THEN workInsert(forward_worklist, Pair)
                                ELSE forward_worklist
         /\ \E ps \in SetToSeqs(IF before THEN predecessors(program[f], work.bb) ELSE {}),
               cs \in SetToSeqs(IF entry THEN getCallers(l) ELSE {}) :
              backward_worklist' =
                InsertAll(InsertAll(backward_worklist, Elements(l, ps)),
                          [n \in DOMAIN cs |-> Element(cs[n][1], cs[n][2], ~moved)])
  /\ work' = NoBlock
  /\ UNCHANGED <<program, marked, values, graph, processing, direction>>

-----------------------------------------------------------------------------
(* doAnalysisForward *)

(* PIN is what the predecessors pass on of what is live: the inflow where   *)
(* the function starts, nothing known where main does.                      *)
ForwardBlock ==
  /\ work = NoBlock
  /\ direction = "forward"
  /\ forward_worklist # <<>>
  /\ LET e    == Last(forward_worklist)
         f    == FunctionOf(e.label)
         at   == FirstIns(f, e.bb)
         live == SLIM_IN[e.label][at].b
         prev == predecessors(program[f], e.bb)
         in   == IF IsExit(f, e.bb) THEN SLIM_IN[e.label][at].f
                 ELSE IF ~IsEntry(f, e.bb)
                 THEN performMeetForward(
                        {}, UNION {SLIM_OUT[e.label][LastIns(f, p)].f : p \in prev}, live)
                 ELSE IF f = "main" THEN MainBoundaryForward(live)
                 ELSE contexts[e.label].inflow.f
     IN  /\ forward_worklist' = Front(forward_worklist)
         /\ processing' = e.label
         /\ SLIM_IN' = [SLIM_IN EXCEPT ![e.label][at].f = in]
         /\ work' = Working(e, 1, in)
  /\ UNCHANGED <<program, marked, contexts, SLIM_OUT, graph, backward_worklist, direction>>

Instruction(i) == i <= Len(Code(FunctionOf(work.label), work.bb))

\* In a block without a call a changed PIN queues the block backwards.
ForwardPlain ==
  /\ Going("forward")
  /\ Instruction(work.i)
  /\ At.op # "call"
  /\ IF InCallBlock /\ At.op \in Builtin
     THEN /\ work' = [work EXCEPT !.i = @ + 1]
          /\ UNCHANGED <<values, contexts, backward_worklist>>
     ELSE LET O     == SLIM_OUT[processing][This]
              new   == IF At.op \in {"exit", "unreachable"} THEN work.prev
                       ELSE computeOutFromIn(At, O.f, work.prev, O.b)
              moved == ~InCallBlock /\ work.prev # SLIM_IN[processing][This].f
          IN  /\ SLIM_IN' = SetAt(SLIM_IN, This, "f", work.prev)
              /\ SLIM_OUT' = SetAt(SLIM_OUT, This, "f", new)
              /\ contexts' = IF moved THEN Changed(work.label) ELSE contexts
              /\ backward_worklist' = IF moved THEN workInsert(backward_worklist, Pair)
                                      ELSE backward_worklist
              /\ work' = [work EXCEPT !.i = @ + 1, !.prev = new]
  /\ UNCHANGED <<program, marked, graph, forward_worklist, processing, direction>>

ForwardPrev ==
  IF work.done THEN work.prev ELSE SLIM_IN[processing][This].f \cup work.prev

ForwardIn ==
  IF work.done THEN SLIM_IN ELSE SetAt(SLIM_IN, This, "f", ForwardPrev)

ForwardInflow ==
  CallInflow(At, ForwardPrev, SLIM_OUT[processing][This].b, Globals, Returned)

\* The callee's outflow and the caller's own pairs, of what is live.
ForwardCall ==
  /\ Going("forward")
  /\ Instruction(work.i)
  /\ At.op = "call"
  /\ \E k \in Matching(ForwardInflow) :
       LET O   == SLIM_OUT[processing][This]
           new == performMeetForward(
                    O.f, performMeetForward(contexts[k].outflow.f,
                                            PurelyLocalForward(ForwardPrev, Globals), O.b), O.b)
       IN  /\ graph' = addEdge(work.label, This, k)
           /\ SLIM_IN' = ForwardIn
           /\ SLIM_OUT' = SetAt(SLIM_OUT, This, "f", new)
           /\ work' = [work EXCEPT !.i = @ + 1, !.prev = new]
  /\ UNCHANGED <<program, marked, contexts, worklists, processing, direction>>

ForwardNewContext ==
  /\ Going("forward")
  /\ Instruction(work.i)
  /\ At.op = "call"
  /\ LET inflow == IF work.done THEN NoValue ELSE ForwardInflow
     IN  /\ Matching(inflow) = {}
         /\ INIT_CONTEXT(At.rhs, inflow, getSourceContextAtCallSite(work.label, This),
                         ForwardIn, SLIM_OUT, workInsert(forward_worklist, PairDone),
                         backward_worklist)
         /\ graph' = addEdge(work.label, This, Cardinality(DOMAIN contexts))
         /\ work' = [work EXCEPT !.i = @ + 1, !.prev = ForwardPrev]
  /\ UNCHANGED <<program, marked, direction>>

(* What leaves the block changed: the blocks after it.  What enters it did: *)
(* backwards again.  The callers of a last block always come again.         *)
ForwardEnd ==
  /\ Going("forward")
  /\ ~Instruction(work.i)
  /\ LET l      == work.label
         f      == FunctionOf(l)
         out    == SLIM_OUT[l][LastIns(f, work.bb)].f
         after  == out # work.out.f
         before == SLIM_IN[l][FirstIns(f, work.bb)].f # work.in.f
         moved  == contexts[l].changed \/ before \/ after
         last   == IsLast(f, work.bb)
         next   == IF after THEN Elements(l, program[f].succ[work.bb]) ELSE <<>>
     IN  /\ contexts' = SetOutflow(l, moved, "f",
              IF last THEN PurelyGlobalForward(out, Globals) ELSE contexts[l].outflow.f)
         /\ backward_worklist' = IF before THEN workInsert(backward_worklist, Pair)
                                 ELSE backward_worklist
         /\ \E cs \in SetToSeqs(IF last THEN getCallers(l) ELSE {}) :
              forward_worklist' =
                InsertAll(InsertAll(forward_worklist, next),
                          [n \in DOMAIN cs |-> Element(cs[n][1], cs[n][2], ~moved)])
  /\ work' = NoBlock
  /\ UNCHANGED <<program, marked, values, graph, processing, direction>>

-----------------------------------------------------------------------------
(* doAnalysis *)

\* Fault: the forward pass does not wait for the backward one to end.
Turn_early ==
  /\ work = NoBlock
  /\ direction' = IF direction = "backward" /\ forward_worklist # <<>>
                  THEN "forward" ELSE "backward"
  /\ UNCHANGED <<program, marked, contexts, values, graph, worklists, processing, work>>

Turn ==
  /\ work = NoBlock
  /\ \/ /\ direction = "backward" /\ backward_worklist = <<>>
        /\ direction' = "forward"
     \/ /\ direction = "forward" /\ forward_worklist = <<>>
        /\ backward_worklist # <<>>
        /\ direction' = "backward"
  /\ UNCHANGED <<program, marked, contexts, values, graph, worklists, processing, work>>

Converged == /\ work = NoBlock
             /\ direction = "forward"
             /\ forward_worklist = <<>> /\ backward_worklist = <<>>

Backward == \/ BackwardBlock \/ BackwardPlain \/ BackwardCall
            \/ BackwardNewContext \/ BackwardEnd
Forward  == \/ ForwardBlock \/ ForwardPlain \/ ForwardCall
            \/ ForwardNewContext \/ ForwardEnd

Next == Backward \/ Forward \/ Turn

Spec == Init /\ [][Next]_vars /\ WF_vars(Next)

-----------------------------------------------------------------------------
(* Properties *)

Labels == DOMAIN contexts

Values(x) == [f : SUBSET (x \X (Global \cup {Unknown})), b : SUBSET x]

IsWorklist(w) ==
  /\ IsInjective(w)
  /\ \A e \in ToSet(w) : /\ e.label \in Labels
                         /\ e.bb \in Blocks(program[FunctionOf(e.label)])
                         /\ e.done \in BOOLEAN

\* What a function is called with or may return.
Interface ==
  Global \cup Formal
    \cup ({CodeAt(i).rhs : i \in {j \in Instructions : CodeAt(j).op = "ret"}} \ {""})

\* Labels are given in order, a context comes from an earlier one of its
\* function and is entered with nothing about the caller's registers but what
\* the callee is called with and returns, an edge leads from a call to a
\* context of what it calls, and a worklist holds blocks of its contexts'
\* functions, none twice: the lookups of the tables (Analysis.h 2823-2970)
\* all succeed.
TypeOK ==
  /\ marked \subseteq Interface
  /\ Labels = 0 .. Cardinality(Labels) - 1
  /\ \A l \in Labels :
       /\ contexts[l] \in [function : DOMAIN program, changed : BOOLEAN,
                          inflow : Values(Interface), outflow : Values(Interface),
                          source : (0 .. l - 1) \cup {None}]
       /\ contexts[l].source # None => FunctionOf(contexts[l].source) = FunctionOf(l)
  /\ {SLIM_IN, SLIM_OUT} \subseteq [Labels -> [Instructions -> Values(Variable)]]
  /\ \A e \in DOMAIN graph :
       /\ e[1] \in Labels /\ FunctionOf(e[1]) = e[2][1]
       /\ CodeAt(e[2]).op = "call" /\ CodeAt(e[2]).rhs = FunctionOf(graph[e])
  /\ IsWorklist(forward_worklist) /\ IsWorklist(backward_worklist)
  /\ processing \in Labels
  /\ direction \in {"forward", "backward"}
  /\ work # NoBlock => work.label \in Labels

\* Between two blocks, what a block takes from its neighbours is what they
\* have, or the block is queued: no change is lost by an element that was
\* queued already, or by the order in which blocks come (Worklist.h 18).  In a
\* function with a block that no context queues this does not hold: a context
\* copies values only for what it queues (Analysis.h 6909-7028).
Queued(w, l, b) == \E e \in ToSet(w) : e.label = l /\ e.bb = b

\* What is live into the successors, what the predecessors point to.
LiveInto(l, b) ==
  UNION {SLIM_IN[l][FirstIns(FunctionOf(l), s)].b : s \in ToSet(program[FunctionOf(l)].succ[b])}

PassedTo(l, b) ==
  UNION {SLIM_OUT[l][LastIns(FunctionOf(l), p)].f : p \in predecessors(program[FunctionOf(l)], b)}

NeighboursCurrent ==
  work = NoBlock =>
    \A l \in Labels :
      LET f == FunctionOf(l) IN
      AllQueued(program[f]) =>
        \A b \in Blocks(program[f]) :
          ~IsExit(f, b) =>
            /\ \/ IsLast(f, b)
               \/ SLIM_OUT[l][LastIns(f, b)].b = LiveInto(l, b)
               \/ Queued(backward_worklist, l, b)
            /\ \/ IsEntry(f, b)
               \/ SLIM_IN[l][FirstIns(f, b)].f =
                    restrictByLivness(PassedTo(l, b), SLIM_IN[l][FirstIns(f, b)].b)
               \/ Queued(forward_worklist, l, b)

\* A call that got all that flows into it and hands all of it back.
EnteredWith(e) ==
  LET at == CodeAt(e[2])
  IN  contexts[graph[e]].inflow =
        CallInflow(at, SLIM_IN[e[1]][e[2]].f, SLIM_OUT[e[1]][e[2]].b, Globals,
                   ReturnOperand(program[at.rhs]))

NeedsTaken(e) == contexts[graph[e]].outflow.b \subseteq SLIM_IN[e[1]][e[2]].b

ResultsTaken(e) ==
  restrictByLivness(contexts[graph[e]].outflow.f, SLIM_OUT[e[1]][e[2]].b)
    \subseteq SLIM_OUT[e[1]][e[2]].f

\* Splitting leaves every call alone with the assignments SLIM adds to it: the
\* values at the start and at the end of the block are those the engine enters
\* the callee with and leaves it with.  That is so of the blocks that splitting
\* visits, which are those that lead to the last one (Analysis.h 1971-2036).
CallsAlone ==
  \A f \in DOMAIN program : \A b \in ToSet(program[f].ipost) :
    SplitBlock(program[f].code[b])

\* The blocks splitting ensures to hold one call at most, before the end.
Proper(f, b) == AllQueued(program[f]) /\ b \in ToSet(program[f].ipost) \ {Back(program[f])}

\* A recorded call agrees with its context, or its block is queued: the
\* context was entered with what flows into the call now, and what the context
\* returns of what is live has reached the caller (Analysis.h 4541, 5826).
CallsCurrent ==
  work = NoBlock =>
    \A e \in {d \in DOMAIN graph : Proper(d[2][1], d[2][2])} :
      LET l == e[1]
          b == e[2][2]
      IN  /\ EnteredWith(e) \/ Queued(backward_worklist, l, b) \/ Queued(forward_worklist, l, b)
          /\ ResultsTaken(e) \/ Queued(forward_worklist, l, b)

\* What the context of a call needs is live before the call, or the block is
\* queued backwards.  It need not be where the call does not start its block
\* (ReachesFixedPoint).
NeedsCurrent ==
  work = NoBlock =>
    \A e \in {d \in DOMAIN graph : Proper(d[2][1], d[2][2]) /\ d[2][3] = 1} :
      NeedsTaken(e) \/ Queued(backward_worklist, e[1], e[2][2])

\* When the worklists are empty the values have reached a fixed point
\* (Analysis.h 3132): what the contexts of the calls need and return is at
\* the calls.  It is not where only the context of a call that does not start
\* its block has changed: the forward pass queues a block backwards when what
\* enters its first instruction has (Analysis.h 5012).
ReachesFixedPoint ==
  Converged => \A e \in DOMAIN graph : EnteredWith(e) /\ NeedsTaken(e) /\ ResultsTaken(e)

\* A function is analysed once per inflow; label 0 is not counted, which is
\* the answer for no context too (check_if_context_already_exists).
ContextsUnique ==
  \A k, l \in Labels \ {0} :
    /\ contexts[k].function = contexts[l].function
    /\ contexts[k].inflow = contexts[l].inflow
    => k = l

\* The first backward pass comes through the whole program, where every block
\* of it is queued: once a block has been handled forwards, no other operand
\* counts for a global, which would change what flows into the calls handled
\* before, and no function is entered for the first time (Analysis.h
\* 3108-3126, lfcpa.cpp 1086).
EveryBlockQueued == \A f \in DOMAIN program : AllQueued(program[f])

Anew(w, l, b) == Element(l, b, FALSE) \in ToSet(w)

BlocksOf(l) == Blocks(program[FunctionOf(l)])

FirstPass ==
  /\ direction = "backward"
  /\ \A l \in Labels : \A b \in BlocksOf(l) : Anew(forward_worklist, l, b)

EnteredFunctions == {FunctionOf(l) : l \in Labels}

FirstPassLearns ==
  [][EveryBlockQueued /\ ~FirstPass
     => Globals' = Globals /\ EnteredFunctions' = EnteredFunctions]_vars

\* The analysis ends.
Terminates == <>Converged
=============================================================================
