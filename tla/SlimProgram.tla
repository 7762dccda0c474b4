----------------------------- MODULE SlimProgram -----------------------------
(***************************************************************************)
(* The program the analysis walks over: LLVM's functions and blocks, split   *)
(* around the calls (Analysis.h 1961-2047) before SLIM's IR is built, with   *)
(* the assignments SLIM adds at calls, and the tables it answers from        *)
(* (IR.cpp).                                                                *)
(*                                                                          *)
(* An instruction is [op, lhs, rhs, args]:                                  *)
(*   addr  lhs = &rhs     copy  lhs = rhs      load  lhs = *rhs             *)
(*   store *lhs = rhs     use   a comparison of rhs, or a load of data      *)
(*   alloc lhs = malloc(), which allocates the object rhs                   *)
(*   phi   lhs = one of the args, which are <<block entered from, operand>> *)
(*   call  lhs = rhs(args), where args are <<argument of rhs, operand>>     *)
(*   exit  a declared noreturn function         ret   return rhs            *)
(*   br, unreachable                                                        *)
(* What does not apply is "".  Reading or writing a global or an address-   *)
(* taken local by its name is a copy: after mem2reg SLIM gives it one level *)
(* of indirection.  The operand of a phi is a register; the address of a    *)
(* variable would have no level.                                            *)
(*                                                                          *)
(* A program maps the name of a function to the record                      *)
(*   layout  its blocks as they are laid out; the first is the entry block   *)
(*   code    the instructions of each block, a terminator last              *)
(*   succ    the successors of each block                                   *)
(*   post    post_order(entry), ipost  inverse_post_order(last in layout)   *)
(* Orders and successors are LLVM's.                                        *)
(***************************************************************************)
EXTENDS Naturals, Sequences, SequencesExt

CONSTANTS Global,    \* globals, address-taken locals and allocated objects:
                     \* also the pointees
          Alloca,    \* the address-taken locals among them
          Temp,      \* registers of the functions
          Formal,    \* the registers marked as arguments: the arguments, and
                     \* what is returned by a function that a call is met
                     \* before (addReturnArgumentForCall)
          NoReturn   \* defined functions with the attribute noreturn

ASSUME OperandsDiffer == /\ Global \cap Temp = {}
                         /\ Alloca \subseteq Global
                         /\ Formal \subseteq Temp

Variable == Global \cup Temp

Entry(fn) == fn.layout[1]
Back(fn)  == fn.layout[Len(fn.layout)]
Blocks(fn) == ToSet(fn.layout)

-----------------------------------------------------------------------------
(* performSplittingBB *)

BaseInstruction(op, x, y, args) == [op |-> op, lhs |-> x, rhs |-> y, args |-> args]

Br == BaseInstruction("br", "", "", <<>>)

Builtin == {"exit", "alloc"}

\* A call of a defined function came before i with only builtin calls after.
AfterCall(code, i) ==
  \E j \in 1 .. i - 1 : /\ code[j].op = "call"
                        /\ \A m \in j + 1 .. i - 1 : code[m].op \in Builtin

\* Fault: what follows a call stays in its block.
isSplittedOnThisInstruction_before(code, i) == i > 1 /\ code[i].op = "call"

\* A call starts a block, and so does what follows one, but for a branch.
isSplittedOnThisInstruction(code, i) ==
  /\ i > 1
  /\ \/ code[i].op = "call"
     \/ code[i].op \notin Builtin \cup {"br"} /\ AfterCall(code, i)

SplitPoints(code) ==
  LET points == {1} \cup {i \in DOMAIN code : isSplittedOnThisInstruction(code, i)}
  IN  [k \in 1 .. Cardinality(points) |->
         CHOOSE i \in points : Cardinality({j \in points : j <= i}) = k]

\* splitBasicBlock ends the first part with a branch to the second.
Parts(code) ==
  LET at == SplitPoints(code)
  IN  [k \in DOMAIN at |->
         IF k = Len(at) THEN SubSeq(code, at[k], Len(code))
         ELSE Append(SubSeq(code, at[k], at[k + 1] - 1), Br)]

(* Only blocks from which the last block in layout is reached are split.    *)
(* Part k of block b is <<b, k>>.                                           *)
performSplittingBB(fn) ==
  LET parts == [b \in Blocks(fn) |->
                  IF b \in ToSet(fn.ipost) THEN Parts(fn.code[b]) ELSE <<fn.code[b]>>]
      names(b)   == [k \in DOMAIN parts[b] |-> <<b, k>>]
      all        == UNION {ToSet(names(b)) : b \in Blocks(fn)}
      spread(bs) == FlattenSeq([n \in DOMAIN bs |-> names(bs[n])])
  IN  [layout |-> spread(fn.layout),
       code   |-> [p \in all |-> parts[p[1]][p[2]]],
       succ   |-> [p \in all |->
                     IF p[2] < Len(parts[p[1]]) THEN <<<<p[1], p[2] + 1>>>>
                     ELSE [n \in DOMAIN fn.succ[p[1]] |-> <<fn.succ[p[1]][n], 1>>]],
       post   |-> FlattenSeq([n \in DOMAIN fn.post |-> Reverse(names(fn.post[n]))]),
       ipost  |-> spread(fn.ipost)]

startSplitting(program) ==
  [f \in DOMAIN program |-> performSplittingBB(program[f])]

-----------------------------------------------------------------------------
(* Tables of SLIM's IR *)

\* The last block in layout that returns; a function may have none.
getLastBasicBlock(fn) ==
  LET returns == {n \in DOMAIN fn.layout :
                    Last(fn.code[fn.layout[n]]).op = "ret"}
  IN  {fn.layout[n] : n \in {m \in returns : \A k \in returns : k <= m}}

HasOp(fn, b, op) == \E i \in DOMAIN fn.code[b] : fn.code[b][i].op = op

\* A call of a function with the attribute exits, whether it is defined or not.
getExitBBList(fn) ==
  {b \in Blocks(fn) : \/ HasOp(fn, b, "exit")
                     \/ \E i \in ToSet(fn.code[b]) : i.op = "call" /\ i.rhs \in NoReturn}

getTerminatingBBList(fn) == {b \in Blocks(fn) : fn.succ[b] = <<>>}

predecessors(fn, b) == {a \in Blocks(fn) : b \in ToSet(fn.succ[a])}

\* What the function returns, none for one that returns nothing or never.
ReturnOperand(fn) ==
  {Last(fn.code[b]).rhs : b \in getLastBasicBlock(fn)} \ {""}

-----------------------------------------------------------------------------
(* The assignments around a call *)

LoadInstruction(x, y) ==
  BaseInstruction(IF y \in Global THEN "addr" ELSE "copy", x, y, <<>>)

\* Before the call every argument is assigned what it is called with.
processCallInstruction(call) ==
  [n \in DOMAIN call.args |-> LoadInstruction(call.args[n][1], call.args[n][2])]

\* After it the result is assigned what the callee returns.
addReturnArgumentForCall(program, call) ==
  SetToSeq({LoadInstruction(call.lhs, r) :
              r \in IF call.lhs = "" THEN {} ELSE ReturnOperand(program[call.rhs])})

WithAssignments(program, code) ==
  FlattenSeq([i \in DOMAIN code |->
    IF code[i].op # "call" THEN <<code[i]>>
    ELSE processCallInstruction(code[i]) \o <<code[i]>>
           \o addReturnArgumentForCall(program, code[i])])

\* SLIM's IR of the program whose blocks are split.
Translated(program) ==
  [f \in DOMAIN program |->
     [program[f] EXCEPT
        !.code = [b \in DOMAIN @ |-> WithAssignments(program, @[b])]]]

-----------------------------------------------------------------------------
(* What the analysis can rely on in SLIM's IR: the operands each instruction *)
(* has, and that all blocks it names exist, end and hold one call at most.  *)

IsInstruction(i, program) ==
  /\ i.op \in {"addr", "alloc", "copy", "load", "store", "phi", "use", "ret",
               "call", "br", "exit", "unreachable"}
  /\ i.op \in {"addr", "alloc"} => i.lhs \in Variable /\ i.rhs \in Global
  /\ i.op \in {"copy", "load", "store"} => {i.lhs, i.rhs} \subseteq Variable
  /\ i.op = "phi" =>
       i.lhs \in Temp /\ \A n \in DOMAIN i.args : i.args[n][2] \in Temp
  /\ i.op \in {"use", "ret"} => i.rhs \in Variable \cup {""}
  /\ i.op = "call" => i.rhs \in DOMAIN program

\* Before the one call of a block there are its arguments' assignments only,
\* after it the result's, builtin calls and the branch.
SplitBlock(code) ==
  \A n \in DOMAIN code :
    code[n].op = "call" =>
      /\ code[Len(code)].op = "br"
      /\ \A m \in 1 .. n - 1 : code[m].op \in {"addr", "copy"}
      /\ \A m \in n + 1 .. Len(code) :
           \/ code[m].op \in Builtin \cup {"br"}
           \/ m = n + 1 /\ code[m].op \in {"addr", "copy"}

IsFunction(fn, program) ==
  /\ fn.layout \in Seq(Blocks(fn)) /\ fn.layout # <<>>
  /\ \A blocks \in {fn.post, fn.ipost} : blocks \in Seq(Blocks(fn)) /\ IsInjective(blocks)
  /\ \A b \in Blocks(fn) :
       /\ fn.code[b] \in Seq(ToSet(fn.code[b])) /\ fn.code[b] # <<>>
       /\ \A i \in ToSet(fn.code[b]) : IsInstruction(i, program)
       /\ fn.succ[b] \in Seq(Blocks(fn))
  /\ \A b \in ToSet(fn.ipost) : SplitBlock(fn.code[b])

IsProgram(program) ==
  /\ "main" \in DOMAIN program
  /\ \A f \in DOMAIN program : IsFunction(program[f], program)

-----------------------------------------------------------------------------
(* What LLVM hands over.  A terminator ends each block and is nowhere else,  *)
(* and a call passes what its callee's arguments are assigned.               *)

IsCode(code, program) ==
  /\ code \in Seq(ToSet(code)) /\ code # <<>>
  /\ \A n \in DOMAIN code :
       /\ IsInstruction(code[n], program)
       /\ code[n].op \in {"br", "ret", "unreachable"} <=> n = Len(code)
       /\ code[n].op = "call" => /\ code[n].lhs \in Variable \cup {""}
                                /\ code[n].args \in Seq(Formal \X Variable)

(* An iteration visits every block once, and every block that a visited one  *)
(* leads to (for ipost, is entered from).                                    *)
WellFormed(fn, program) ==
  LET before(b) == {a \in Blocks(fn) : b \in ToSet(fn.succ[a])}
  IN  /\ \A blocks \in {fn.layout, fn.post, fn.ipost} :
           blocks \in Seq(Blocks(fn)) /\ blocks # <<>> /\ IsInjective(blocks)
      /\ Last(fn.post) = Entry(fn) /\ Last(fn.ipost) = Back(fn)
      /\ \A b \in Blocks(fn) : IsCode(fn.code[b], program) /\ fn.succ[b] \in Seq(Blocks(fn))
      /\ \A b \in ToSet(fn.post) : ToSet(fn.succ[b]) \subseteq ToSet(fn.post)
      /\ \A b \in ToSet(fn.ipost) : before(b) \subseteq ToSet(fn.ipost)

IsSource(program) ==
  /\ "main" \in DOMAIN program
  /\ \A f \in DOMAIN program : WellFormed(program[f], program)

\* Every block of the function is queued, both ways, when a context is made.
AllQueued(fn) ==
  /\ Blocks(fn) \subseteq ToSet(fn.post)
  /\ Blocks(fn) \subseteq ToSet(fn.ipost) \cup getTerminatingBBList(fn)
=============================================================================
