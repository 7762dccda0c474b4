------------------------------ MODULE ProgramRun ------------------------------
(***************************************************************************)
(* The analysis of Vasco followed by a run of the program it was given, so   *)
(* that what it recorded can be compared with what happens.  The run is      *)
(* LLVM's: every branch may go either way, a register holds nothing before  *)
(* it is set, reading or writing through a pointer that holds nothing ends   *)
(* the run.  The assignments SLIM added at a call do nothing: the call sets   *)
(* the arguments and the return the result.  A frame keeps the context label *)
(* the analysis has for it.                                                 *)
(***************************************************************************)
EXTENDS Vasco

CONSTANT MaxDepth     \* frames of a run

VARIABLES run,        \* "no", "yes", "over"
          memory,     \* what each global points to
          frames      \* [label, bb, from, i, regs], the running one last

runvars == <<run, memory, frames>>

Top      == frames[Len(frames)]
RunFn    == FunctionOf(Top.label)
RunAt    == <<RunFn, Top.bb, Top.i>>
RunOp    == Code(RunFn, Top.bb)[Top.i]
Value(x) == IF x \in Global THEN memory[x] ELSE Top.regs[x]

\* What a variable, or the address of a global, is when passed or returned.
Operand(x) == IF x \in Global THEN x ELSE Top.regs[x]

Frame(label, regs) ==
  [label |-> label, bb |-> Entry(program[FunctionOf(label)]), from |-> "", i |-> 1,
   regs |-> regs]

Nothing == [t \in Temp |-> Unknown]

\* The operand a phi picks in a block entered from another.
Picked(phi) ==
  (CHOOSE n \in DOMAIN phi.args : phi.args[n][1] = Top.from)

RunInit == /\ Init
           /\ run = "no"
           /\ memory = [g \in Global |-> Unknown]
           /\ frames = <<>>

Running == run = "yes"

Start == /\ Converged
         /\ run = "no"
         /\ run' = "yes"
         /\ frames' = <<Frame(0, Nothing)>>
         /\ UNCHANGED <<vars, memory>>

Advanced == [Top EXCEPT !.i = @ + 1]
Step     == /\ frames' = [frames EXCEPT ![Len(frames)] = Advanced]
            /\ UNCHANGED memory
Set(x, v) ==
  IF x \in Global
  THEN /\ memory' = [memory EXCEPT ![x] = v]
       /\ frames' = [frames EXCEPT ![Len(frames)] = Advanced]
  ELSE /\ frames' = [frames EXCEPT ![Len(frames)] = [Advanced EXCEPT !.regs[x] = v]]
       /\ UNCHANGED memory

\* SLIM's own assignment of an argument or of a result.
Added ==
  \E j \in DOMAIN Code(RunFn, Top.bb) :
    LET call == Code(RunFn, Top.bb)[j]
    IN  /\ call.op = "call"
        /\ \/ j < Top.i /\ call.lhs = RunOp.lhs
           \/ j > Top.i /\ \E n \in DOMAIN call.args : call.args[n][1] = RunOp.lhs

\* An allocated object holds nothing before it is written.
Assign ==
  /\ Running
  /\ \/ RunOp.op = "addr" /\ ~Added /\ Set(RunOp.lhs, RunOp.rhs)
     \/ RunOp.op = "copy" /\ ~Added /\ Set(RunOp.lhs, Value(RunOp.rhs))
     \/ RunOp.op \in {"addr", "copy"} /\ Added /\ Step
     \/ RunOp.op = "alloc" /\ Set(RunOp.lhs, RunOp.rhs)
     \/ RunOp.op = "phi" /\ Set(RunOp.lhs, Value(RunOp.args[Picked(RunOp)][2]))
     \/ /\ RunOp.op = "load" /\ Value(RunOp.rhs) # Unknown
        /\ Set(RunOp.lhs, memory[Value(RunOp.rhs)])
     \/ /\ RunOp.op = "store" /\ Value(RunOp.lhs) # Unknown
        /\ Set(Value(RunOp.lhs), Value(RunOp.rhs))
     \/ RunOp.op = "use" /\ Step
  /\ UNCHANGED <<vars, run>>

Branch ==
  /\ Running
  /\ RunOp.op = "br"
  /\ \E b \in ToSet(program[RunFn].succ[Top.bb]) :
       frames' = [frames EXCEPT ![Len(frames)] =
                    [Top EXCEPT !.bb = b, !.from = Top.bb[1], !.i = 1]]
  /\ UNCHANGED <<vars, run, memory>>

Arguments(call) ==
  [t \in Temp |->
     IF \E n \in DOMAIN call.args : call.args[n][1] = t
     THEN Operand(call.args[CHOOSE n \in DOMAIN call.args : call.args[n][1] = t][2])
     ELSE Unknown]

\* A call runs in the context the analysis recorded for it.
Invoke ==
  /\ Running
  /\ RunOp.op = "call"
  /\ Len(frames) < MaxDepth
  /\ getCalleeContext(Top.label, RunAt) # None
  /\ frames' = Append([frames EXCEPT ![Len(frames)] = Advanced],
                      Frame(getCalleeContext(Top.label, RunAt), Arguments(RunOp)))
  /\ UNCHANGED <<vars, run, memory>>

\* The caller with the result of the call it is behind.
Resumed(caller, v) ==
  LET call == Code(FunctionOf(caller.label), caller.bb)[caller.i - 1]
  IN  IF call.lhs = "" THEN caller ELSE [caller EXCEPT !.regs[call.lhs] = v]

Return ==
  /\ Running
  /\ RunOp.op = "ret"
  /\ LET v == IF RunOp.rhs = "" THEN Unknown ELSE Operand(RunOp.rhs)
         n == Len(frames) - 1
     IN  frames' = IF n = 0 THEN <<>>
                   ELSE Append(SubSeq(frames, 1, n - 1), Resumed(frames[n], v))
  /\ run' = IF Len(frames) = 1 THEN "over" ELSE run
  /\ UNCHANGED <<vars, memory>>

Stop ==
  /\ Running
  /\ \/ RunOp.op \in {"exit", "unreachable"}
     \/ RunOp.op = "load" /\ Value(RunOp.rhs) = Unknown
     \/ RunOp.op = "store" /\ Value(RunOp.lhs) = Unknown
     \/ RunOp.op = "call" /\ Len(frames) = MaxDepth
  /\ run' = "over"
  /\ frames' = <<>>
  /\ UNCHANGED <<vars, memory>>

Over == run = "over" /\ UNCHANGED <<vars, runvars>>

RunNext == \/ Next /\ UNCHANGED runvars
           \/ Start \/ Assign \/ Branch \/ Invoke \/ Return \/ Stop \/ Over

RunSpec == /\ RunInit
           /\ [][RunNext]_<<vars, runvars>>
           /\ WF_<<vars, runvars>>(Next /\ UNCHANGED runvars)

-----------------------------------------------------------------------------
(* Properties *)

\* The run is in a function called from a block that exits, or in such a
\* block: no value is computed for it.
Exiting == \E n \in DOMAIN frames : IsExit(FunctionOf(frames[n].label), frames[n].bb)

\* The program reads an address-taken local by its name, which makes nothing
\* live: what the local holds is then lost.
ReadsByName ==
  \E f \in DOMAIN program : \E b \in Blocks(program[f]) :
    \E i \in ToSet(Code(f, b)) : i.op \in {"copy", "use", "load"} /\ i.rhs \in Alloca

\* In a program that reads its address-taken locals through pointers only, a
\* pointer is live where it is dereferenced or compared, and every live pointer
\* is recorded to lead where it does lead, up to the blocks that exit
\* (computeInFromOut, computeOutFromIn, and all of the engine).
UsesSound ==
  Running /\ ~Exiting /\ ~ReadsByName =>
    LET v == SLIM_IN[Top.label][RunAt]
    IN  /\ RunOp.op = "use"   => RunOp.rhs \in v.b
        /\ RunOp.op = "store" => RunOp.lhs \in v.b
        /\ \A x \in v.b : Value(x) # Unknown => <<x, Value(x)>> \in v.f
=============================================================================
