------------------------------- MODULE PointsTo -------------------------------
(***************************************************************************)
(* The data-flow functions of the liveness-based points-to analysis         *)
(* (lfcpa.cpp) for scalar pointers.  A liveness value is the set of the live *)
(* variables; a points-to value is a set of pairs <<pointer, pointee>>.      *)
(* A register may come to be taken for a global (Vasco's `marked`): where it *)
(* matters G stands for the globals and these.                              *)
(***************************************************************************)
EXTENDS SlimProgram, FiniteSets

CONSTANT Unknown     \* the dummy operand printed as "?"

ASSUME UnknownDiffers == Unknown \notin Variable

Liveness == SUBSET Variable
Pairs    == Variable \X (Global \cup {Unknown})
Pointers == SUBSET Pairs

Pointees(P, x) == {p[2] : p \in {q \in P : q[1] = x}}
From(x, O)     == {x} \X O
Without(P, x)  == {p \in P : p[1] # x}

-----------------------------------------------------------------------------
(* Restrictions, merges and the boundaries *)

restrictByLivness(P, L) == {p \in P : p[1] \in L}

performMeetForward(P, Q, L) == restrictByLivness(P \cup Q, L)

performMeetBackward(L, M) == L \cup M

PurelyLocal(L, G)  == L \ G
PurelyGlobal(L, G) == L \cap G

PurelyLocalForward(P, G)  == restrictByLivness(P, Variable \ G)
PurelyGlobalForward(P, G) == restrictByLivness(P, G)

\* Fault: the arguments are left out.
GlobalandFunctionArg_global(L, G) == L \cap G

\* What is live at the start of a function and its callers must know of.
GlobalandFunctionArg(L, G) == L \cap (G \cup Formal)

\* Pointers that are live where main starts hold nothing known; locals are
\* left without a pair.
MainBoundaryForward(L) == (L \ Alloca) \X {Unknown}

\* What a callee is analysed for: the pairs of globals and arguments before
\* the call, the globals that are live after it, and what it returns (R) if
\* the result is live.
CallInflow(call, P, L, G, R) ==
  [f |-> restrictByLivness(P, G \cup Formal),
   b |-> PurelyGlobal(L, G) \cup (IF call.lhs \in L THEN R ELSE {})]

\* What is live before the call because of the caller: its locals but the
\* result, which the call sets if the callee returns something.
CallerLocal(call, L, G, R) ==
  PurelyLocal(L, G) \ (IF R = {} THEN {} ELSE {call.lhs})

-----------------------------------------------------------------------------
(* Liveness before an instruction: L after it, P the points-to value before *)

PhiOperands(i) == {i.args[n][2] : n \in DOMAIN i.args}

\* The right-hand side is read: for a load its pointer and every pointee.  A
\* local that is read by its name does not become live, one that is pointed to
\* does.
insertRhsLin(i, L, P) ==
  CASE i.op \in {"addr", "alloc"} -> L
    [] i.op \in {"copy", "store"} -> L \cup ({i.rhs} \ Alloca)
    [] i.op = "phi"   -> L \cup PhiOperands(i)
    [] i.op = "load"  -> IF i.rhs \in Alloca THEN L
                         ELSE L \cup {i.rhs} \cup (Pointees(P, i.rhs) \ {Unknown})

\* *lhs = rhs.  Nothing is live before it while the pointees of lhs are not
\* known; a single pointee is overwritten.
StoreIn(i, L, P) ==
  LET to   == Pointees(P, i.lhs)
      kill == IF Cardinality(to) = 1 THEN to ELSE {}
  IN  IF i.lhs \in Alloca THEN L
      ELSE IF to = {} THEN {i.lhs}
      ELSE IF to \cap L = {} THEN L \cup {i.lhs}
      ELSE insertRhsLin(i, (L \cup {i.lhs}) \ kill, P)

Direct == {"addr", "alloc", "copy", "load", "phi"}

\* lhs = ...: only what is live is of interest.
DirectIn(i, L, P) ==
  IF i.lhs \in L THEN insertRhsLin(i, L \ {i.lhs}, P) ELSE L

computeInFromOut(i, L, P) ==
  CASE i.op \in Direct  -> DirectIn(i, L, P)
    [] i.op = "store" -> StoreIn(i, L, P)
    [] i.op = "use" -> L \cup ({i.rhs} \ ({""} \cup Alloca))
    [] i.op = "ret" -> L \cup ({i.rhs} \ {""})
    [] i.op \in {"br", "exit", "unreachable"} -> L

-----------------------------------------------------------------------------
(* Points-to values after an instruction: P before it, L live after it, O   *)
(* the value it had                                                        *)

RhsPointees(i, P) ==
  CASE i.op \in {"addr", "alloc"} -> {i.rhs}
    [] i.op \in {"copy", "store"} -> Pointees(P, i.rhs)
    [] i.op = "phi" -> UNION {Pointees(P, o) : o \in PhiOperands(i)}
    [] i.op = "load" ->
         LET from == Pointees(P, i.rhs)
         IN  (from \cap {Unknown})
               \cup UNION {Pointees(P, o) : o \in from \ {Unknown}}

\* Fault: every pointee is overwritten.
StoreOut_strong(i, P, R) ==
  LET known == Pointees(P, i.lhs) \ {Unknown}
  IN  {p \in P : p[1] \notin known} \cup (known \X R)

\* A single pointee is overwritten, of several each may be.
StoreOut(i, P, R) ==
  LET to    == Pointees(P, i.lhs)
      known == to \ {Unknown}
  IN  IF Cardinality(to) = 1
      THEN {p \in P : p[1] \notin known} \cup (known \X R)
      ELSE P \cup (known \X R)

DirectOut(i, P, L, R) ==
  IF i.lhs \in L /\ R # {} THEN Without(P, i.lhs) \cup From(i.lhs, R) ELSE P

computeOutFromIn(i, O, P, L) ==
  LET R    == RhsPointees(i, P)
      next == CASE i.op \in {"br", "ret", "use"} -> P
                [] i.op \in Direct  -> DirectOut(i, P, L, R)
                [] i.op = "store" -> IF R = {} THEN P ELSE StoreOut(i, P, R)
  IN  restrictByLivness(O \cup next, L)
=============================================================================
