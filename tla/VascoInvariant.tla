---------------------------- MODULE VascoInvariant ----------------------------
(***************************************************************************)
(* The invariant of the engine of the points-to analysis, which             *)
(* VascoProofs proves, in five parts, each of which needs some of those     *)
(* before; and the relations between the states of a step that the proofs   *)
(* speak of.                                                                *)
(***************************************************************************)
EXTENDS Vasco

-----------------------------------------------------------------------------
(* Types: what every table is indexed by, and what a worklist and the block  *)
(* in hand are.                                                              *)

AllBlocks == UNION {Blocks(program[f]) : f \in DOMAIN program}

ProgramOK == IsProgram(program)

ContextRecord ==
  [function : DOMAIN program, changed : BOOLEAN, inflow : Values(Interface),
   outflow : Values(Interface), source : Nat \cup {None}]

ContextsOK ==
  /\ Cardinality(Labels) \in Nat \ {0} /\ Labels = 0 .. Cardinality(Labels) - 1
  /\ contexts \in [Labels -> ContextRecord]
  /\ \A l \in Labels : contexts[l].source # None =>
       /\ contexts[l].source \in 0 .. l - 1
       /\ FunctionOf(contexts[l].source) = FunctionOf(l)

Value == [Labels -> [Instructions -> Values(Variable)]]

ValuesOK == SLIM_IN \in Value /\ SLIM_OUT \in Value

IsEdge(e, to) ==
  /\ e \in Labels \X Instructions
  /\ FunctionOf(e[1]) = e[2][1]
  /\ CodeAt(e[2]).op = "call"
  /\ to \in Labels /\ CodeAt(e[2]).rhs = FunctionOf(to)

GraphOK ==
  /\ IsFiniteSet(DOMAIN graph)
  /\ \A e \in DOMAIN graph : IsEdge(e, graph[e])

(* What a worklist may hold.                                                *)
Pending ==
  {e \in [label : Labels, bb : AllBlocks, done : BOOLEAN] :
     e.bb \in Blocks(program[FunctionOf(e.label)])}

Stack(w) == w \in Seq(Pending) /\ IsInjective(w)

WorklistsOK == Stack(forward_worklist) /\ Stack(backward_worklist)

Busy == work # NoBlock

WorkRecord ==
  [label : Labels, bb : AllBlocks, done : BOOLEAN, i : Nat,
   prev : (SUBSET Variable) \cup Pointers, in : Values(Variable), out : Values(Variable)]

(* What a step handles: backwards from the last instruction to before the  *)
(* first, forwards from the first to after the last.                        *)
WorkIn(w, way) ==
  /\ w \in WorkRecord
  /\ w.bb \in Blocks(program[FunctionOf(w.label)])
  /\ way = "backward" =>
       /\ w.i \in 0 .. Len(Code(FunctionOf(w.label), w.bb))
       /\ w.prev \in SUBSET Variable
  /\ way = "forward" =>
       /\ w.i \in 1 .. Len(Code(FunctionOf(w.label), w.bb)) + 1
       /\ w.prev \in Pointers

WorkOK == Busy => WorkIn(work, direction)

RestOK ==
  /\ marked \subseteq Interface
  /\ processing \in Labels
  /\ direction \in {"forward", "backward"}

Typed ==
  /\ ProgramOK /\ ContextsOK /\ ValuesOK /\ GraphOK
  /\ WorklistsOK /\ WorkOK /\ RestOK

-----------------------------------------------------------------------------
(* recorded calls.  A block that has been gone through has an *)
(* edge for each of its calls, so has every block that comes again only for  *)
(* what its callees return (done); the block in hand has those of the calls  *)
(* it is past.                                                              *)

InHand(l, b) == work # NoBlock /\ work.label = l /\ work.bb = b

CallsOf(f, b) == {i \in 1 .. Len(Code(f, b)) : CodeAt(<<f, b, i>>).op = "call"}

Known(l, b, i) == <<l, <<FunctionOf(l), b, i>>>> \in DOMAIN graph

AllKnown(l, b) == \A i \in CallsOf(FunctionOf(l), b) : Known(l, b, i)

StillToCome(i) == IF direction = "backward" THEN i <= work.i ELSE i >= work.i

EdgesRecorded == \A e \in DOMAIN graph : InHand(e[1], e[2][2]) \/ AllKnown(e[1], e[2][2])

DoneRecorded ==
  \A e \in ToSet(backward_worklist) \cup ToSet(forward_worklist) :
    e.done => InHand(e.label, e.bb) \/ AllKnown(e.label, e.bb)

WalkRecorded ==
  work # NoBlock =>
    \A i \in CallsOf(FunctionOf(work.label), work.bb) :
      Known(work.label, work.bb, i) \/ (~work.done /\ StillToCome(i))

CallsRecorded == EdgesRecorded /\ DoneRecorded /\ WalkRecorded

-----------------------------------------------------------------------------
(* told neighbours.  While a block is in hand, what it passes *)
(* on is still what its neighbours have been told: what it had when it was   *)
(* taken.  The end of the block tells them of what changed since.            *)

(* What is live before the block, and the pairs after it, as told.           *)
Live(l, b) ==
  IF direction = "backward" /\ InHand(l, b) THEN work.in.b
  ELSE SLIM_IN[l][FirstIns(FunctionOf(l), b)].b

Passed(l, b) ==
  IF direction = "forward" /\ InHand(l, b) THEN work.out.f
  ELSE SLIM_OUT[l][LastIns(FunctionOf(l), b)].f

Into(l, b)   == UNION {Live(l, s) : s \in ToSet(program[FunctionOf(l)].succ[b])}
Beyond(l, b) == UNION {Passed(l, p) : p \in predecessors(program[FunctionOf(l)], b)}

(* What the block has of it.                                                 *)
Needed(l, b)   == SLIM_OUT[l][LastIns(FunctionOf(l), b)].b
Entering(l, b) == SLIM_IN[l][FirstIns(FunctionOf(l), b)].f

(* The block comes again, and not only for what its callees return.          *)
Arriving(l, b) ==
  IF ~IsEntry(FunctionOf(l), b) THEN restrictByLivness(Beyond(l, b), Live(l, b))
  ELSE IF FunctionOf(l) = "main" THEN MainBoundaryForward(Live(l, b))
  ELSE contexts[l].inflow.f

BackwardTold(l, b) ==
  \/ IsExit(FunctionOf(l), b) \/ IsLast(FunctionOf(l), b)
  \/ Needed(l, b) = Into(l, b)
  \/ Anew(backward_worklist, l, b)

ForwardTold(l, b) ==
  \/ IsExit(FunctionOf(l), b)
  \/ Entering(l, b) = Arriving(l, b)
  \/ Anew(forward_worklist, l, b)

Told(l) ==
  AllQueued(program[FunctionOf(l)]) =>
    \A b \in BlocksOf(l) : BackwardTold(l, b) /\ ForwardTold(l, b)

(* Nothing has to be told to a context with all its blocks queued: a new one.*)
AllPending(l) ==
  AllQueued(program[FunctionOf(l)]) =>
    \A b \in BlocksOf(l) :
      Anew(backward_worklist, l, b) /\ Anew(forward_worklist, l, b)

(* What is written for the block in hand is what it was entered with at the  *)
(* instruction it was entered at, or goes to a new context.                  *)
WalkTold ==
  work # NoBlock =>
    /\ processing = work.label \/ AllPending(processing)
    /\ direction = "backward" /\ work.i = Len(Code(FunctionOf(work.label), work.bb)) =>
         work.prev = Needed(work.label, work.bb)
    /\ direction = "forward" /\ work.i = 1 => work.prev = Entering(work.label, work.bb)

AllTold == (\A l \in Labels : Told(l)) /\ WalkTold

-----------------------------------------------------------------------------
(* functions.  The first backward pass handles every return   *)
(* and enters every function that is called, before a block is taken         *)
(* forwards; from then on nothing is learnt about what is global and no      *)
(* function is entered for the first time.  This needs every block of the    *)
(* program to be queued.                                                     *)

(* Nothing but a global has been taken for one.                              *)
Unmarked == Globals = Global

PositionsOf(l, b) == 1 .. Len(Code(FunctionOf(l), b))

Learnt(l, b, n) ==
  LET at == CodeAt(<<FunctionOf(l), b, n>>)
  IN  /\ at.op = "ret" => at.rhs \in Globals \cup {""}
      /\ at.op = "call" => \E k \in Labels : FunctionOf(k) = at.rhs

Ahead(l, b, n) == Queued(backward_worklist, l, b) \/ (InHand(l, b) /\ n <= work.i)

AllLearnt ==
  EveryBlockQueued =>
    \A l \in Labels : \A b \in BlocksOf(l) : \A n \in PositionsOf(l, b) :
      Learnt(l, b, n) \/ (FirstPass /\ Ahead(l, b, n))

-----------------------------------------------------------------------------
(* calls.  In a block of which splitting made sure that it    *)
(* holds one call at most, a call agrees with its context, or what will make *)
(* it agree is still to come: the block is queued, or in hand with the call  *)
(* ahead, or changed at an end, which queues it when it is done with.  A     *)
(* block that comes again only for what its callees return does not look    *)
(* for another context: what flows into the call is new only as long as the  *)
(* block comes anew in the same direction.  What a function returns counts   *)
(* for a global from the first time its return is handled: what flows into a *)
(* call handled before changes with it, and the block is still queued        *)
(* forwards.                                                                 *)

ToCome(l, b, n) == InHand(l, b) /\ StillToCome(n)

InChanged(l, b)  == InHand(l, b) /\ direction = "forward" /\ Entering(l, b) # work.in.f
OutChanged(l, b) == InHand(l, b) /\ direction = "backward" /\ Needed(l, b) # work.out.b

(* The call at position n of block b, and the context it has.                *)
CallIn(l, b, n)  == SLIM_IN[l][<<FunctionOf(l), b, n>>]
CallOut(l, b, n) == SLIM_OUT[l][<<FunctionOf(l), b, n>>]
Callee(l, b, n)  == contexts[graph[<<l, <<FunctionOf(l), b, n>>>>]]

InflowAt(l, b, n) ==
  LET at == CodeAt(<<FunctionOf(l), b, n>>)
  IN  CallInflow(at, CallIn(l, b, n).f, CallOut(l, b, n).b, Globals,
                 ReturnOperand(program[at.rhs]))

(* What is live after the call when L is after the block: only the           *)
(* assignment of the call's result may come between.                         *)
Came(f, b, n, L) ==
  LET next == CodeAt(<<f, b, n + 1>>)
  IN  IF next.op \in {"addr", "copy"} THEN computeInFromOut(next, L, {}) ELSE L

LiveAfter(l, b, n) ==
  \/ CallOut(l, b, n).b = Came(FunctionOf(l), b, n, Needed(l, b))
  \/ /\ direction = "backward"
     /\ Queued(forward_worklist, l, b) \/ OutChanged(l, b)
     /\ Anew(backward_worklist, l, b) \/ (ToCome(l, b, n) /\ ~work.done)

Entered(l, b, n) ==
  Known(l, b, n) =>
    \/ Callee(l, b, n).inflow = InflowAt(l, b, n)
    \/ /\ Unmarked => /\ direction = "forward"
                      /\ Queued(backward_worklist, l, b) \/ InChanged(l, b)
       /\ \/ Anew(forward_worklist, l, b)
          \/ direction = "forward" /\ ToCome(l, b, n) /\ ~work.done

(* The forward pass enters a call whose inflow has only been marked since in *)
(* another context, whose needs need not be at the call.                     *)
Needs(l, b, n) ==
  Unmarked /\ Known(l, b, n) /\ n = 1 =>
    \/ Callee(l, b, n).outflow.b \subseteq CallIn(l, b, n).b
    \/ Queued(backward_worklist, l, b) \/ InChanged(l, b)
    \/ direction = "backward" /\ ToCome(l, b, n)

Returns(l, b, n) ==
  Known(l, b, n) =>
    \/ restrictByLivness(Callee(l, b, n).outflow.f, CallOut(l, b, n).b) \subseteq CallOut(l, b, n).f
    \/ Queued(forward_worklist, l, b) \/ OutChanged(l, b)
    \/ direction = "forward" /\ ToCome(l, b, n)

Unmet(l, b, n) ==
  Known(l, b, n) \/
    /\ Queued(backward_worklist, l, b) \/ (direction = "backward" /\ ToCome(l, b, n))
    /\ Queued(forward_worklist, l, b) \/ (direction = "forward" /\ ToCome(l, b, n))

Agrees(l, b, n) ==
  /\ LiveAfter(l, b, n) /\ Entered(l, b, n) /\ Needs(l, b, n)
  /\ Returns(l, b, n) /\ Unmet(l, b, n)

(* Up to its call, the block in hand is handled in its own context.          *)
Aims(l, b, n) ==
  ToCome(l, b, n) =>
    /\ processing = l
    /\ direction = "backward" =>
         work.prev = IF work.i > n THEN Needed(l, b)
                     ELSE Came(FunctionOf(l), b, n, Needed(l, b))

ProperBlocks(l) == {b \in BlocksOf(l) : Proper(FunctionOf(l), b)}

SitesAgree ==
  \A l \in Labels : \A b \in ProperBlocks(l) : \A n \in CallsOf(FunctionOf(l), b) :
    Agrees(l, b, n) /\ Aims(l, b, n)

(* Context 0 is no callee, and a new context has no callees.                 *)
EdgesSettled ==
  /\ \A e \in DOMAIN graph : graph[e] # 0
  /\ work # NoBlock /\ processing # work.label => \A e \in DOMAIN graph : e[1] # processing

AllAgree == EdgesSettled /\ (EveryBlockQueued \/ Unmarked => SitesAgree)

-----------------------------------------------------------------------------
(* What steps do *)

(* What no step undoes: contexts stay what they are, but for their outflow. *)
Grows ==
  /\ program' = program
  /\ Labels \subseteq Labels'
  /\ \A l \in Labels : /\ contexts'[l].function = contexts[l].function
                       /\ contexts'[l].inflow = contexts[l].inflow
                       /\ contexts'[l].source = contexts[l].source

(* What is queued for the blocks bs of a context.                            *)
Fresh(l, bs) == {Element(l, b, FALSE) : b \in bs}

(* A new context: the next label, of which no table knew.                    *)
Created(f, inflow, I, O, fw, bw) ==
  LET new == Cardinality(DOMAIN contexts) IN
  /\ new \in Nat \ {0} /\ new \notin Labels /\ Labels' = Labels \cup {new}
  /\ processing' = new
  /\ contexts'[new].function = f /\ contexts'[new].inflow = inflow
  /\ \A l \in Labels : SLIM_IN'[l] = I[l] /\ SLIM_OUT'[l] = O[l]
  /\ ToSet(forward_worklist') = ToSet(fw) \cup Fresh(new, ToSet(program[f].post))
  /\ ToSet(backward_worklist') =
       ToSet(bw)
         \cup Fresh(new, ToSet(program[f].ipost) \cup getTerminatingBBList(program[f]))

(* What is queued for the callers of a context.                              *)
Again(callers, done) == {Element(c[1], c[2], done) : c \in callers}

Steps(w, i) ==
  w # NoBlock /\ w.label = work.label /\ w.bb = work.bb /\ w.done = work.done /\ w.i = i

Walks(w, i) ==
  /\ w # NoBlock /\ w.label = work.label /\ w.bb = work.bb /\ w.i = i
  /\ w.in = work.in /\ w.out = work.out

(* What handling an instruction may write.                                   *)
Written ==
  /\ \A l \in Labels \ {processing} : SLIM_IN'[l] = SLIM_IN[l] /\ SLIM_OUT'[l] = SLIM_OUT[l]
  /\ \A x \in Instructions \ {This} :
       SLIM_IN'[processing][x] = SLIM_IN[processing][x]
       /\ SLIM_OUT'[processing][x] = SLIM_OUT[processing][x]
  /\ direction = "backward" =>
       /\ SLIM_IN'[processing][This].f = SLIM_IN[processing][This].f
       /\ SLIM_OUT'[processing][This].f = SLIM_OUT[processing][This].f
       /\ SLIM_OUT'[processing][This].b \in {SLIM_OUT[processing][This].b, work.prev}
  /\ direction = "forward" =>
       /\ SLIM_IN'[processing][This].b = SLIM_IN[processing][This].b
       /\ SLIM_OUT'[processing][This].b = SLIM_OUT[processing][This].b
       /\ SLIM_IN'[processing][This].f \in
            {SLIM_IN[processing][This].f, work.prev, SLIM_IN[processing][This].f \cup work.prev}

(* A block is taken: what is written, and what is remembered of the block.   *)
TakesBackward(k, c, out) ==
  LET f == FunctionOf(k) IN
  /\ k = Last(backward_worklist).label /\ c = Last(backward_worklist).bb
  /\ IsExit(f, c) => out = Needed(k, c)
  /\ \/ IsExit(f, c) \/ IsLast(f, c)
     \/ out = UNION {SLIM_IN[k][FirstIns(f, s)].b : s \in ToSet(program[f].succ[c])}
  /\ \A l \in Labels, x \in Instructions :
       /\ SLIM_IN'[l][x].f = SLIM_IN[l][x].f
       /\ SLIM_OUT'[l][x].f = SLIM_OUT[l][x].f
       /\ l # k \/ x # FirstIns(f, c) => SLIM_IN'[l][x].b = SLIM_IN[l][x].b
       /\ l # k \/ x # LastIns(f, c) => SLIM_OUT'[l][x].b = SLIM_OUT[l][x].b
  /\ SLIM_OUT'[k][LastIns(f, c)].b = out
  /\ work' # NoBlock /\ work'.label = k /\ work'.bb = c
  /\ work'.i = Len(Code(f, c)) /\ work'.prev = out
  /\ work'.done = Last(backward_worklist).done
  /\ work'.in = SLIM_IN[k][FirstIns(f, c)] /\ work'.out = SLIM_OUT[k][LastIns(f, c)]

TakesForward(k, c, in) ==
  LET f == FunctionOf(k) IN
  /\ k = Last(forward_worklist).label /\ c = Last(forward_worklist).bb
  /\ IsExit(f, c) => in = Entering(k, c)
  /\ \/ IsExit(f, c)
     \/ in = IF ~IsEntry(f, c)
             THEN performMeetForward(
                    {}, UNION {SLIM_OUT[k][LastIns(f, p)].f : p \in predecessors(program[f], c)},
                    SLIM_IN[k][FirstIns(f, c)].b)
             ELSE IF f = "main" THEN MainBoundaryForward(SLIM_IN[k][FirstIns(f, c)].b)
             ELSE contexts[k].inflow.f
  /\ \A l \in Labels, x \in Instructions :
       /\ SLIM_IN'[l][x].b = SLIM_IN[l][x].b
       /\ l # k \/ x # FirstIns(f, c) => SLIM_IN'[l][x].f = SLIM_IN[l][x].f
  /\ SLIM_IN'[k][FirstIns(f, c)].f = in
  /\ work' # NoBlock /\ work'.label = k /\ work'.bb = c
  /\ work'.i = 1 /\ work'.prev = in /\ work'.done = Last(forward_worklist).done
  /\ work'.in = SLIM_IN[k][FirstIns(f, c)] /\ work'.out = SLIM_OUT[k][LastIns(f, c)]

(* A step that marks something comes before all the forward passes.          *)
MarkedInTime ==
  /\ marked \subseteq marked'
  /\ EveryBlockQueued \/ Unmarked' =>
       \/ Globals' = Globals
       \/ /\ ~Unmarked'
          /\ \A l \in Labels : \A b \in BlocksOf(l) : Anew(forward_worklist, l, b)
=============================================================================
