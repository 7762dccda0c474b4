-------------------------- MODULE BlockStorageProofs --------------------------
(* What holds of BlockStorage for any number of threads, calls and elements  *)
(* in a block: its locks exclude, its blocks fill in order and never beyond  *)
(* what was reserved, and where the shift fits the block size, it is the     *)
(* sequence of IndexedStore.                                                 *)
EXTENDS BlockStorage, TLAPS

-----------------------------------------------------------------------------
(* The inductive invariant *)

Labels == {"idle", "lock", "check", "lock_realloc", "grow", "rebase",
           "append", "count", "index", "lock_shared", "fetch"}

Types ==
  /\ data \in Seq(Seq(Holder))
  /\ total_elems \in Nat /\ block_base \in Nat
  /\ mutex \in Thread \cup {Nobody} /\ writer \in Thread \cup {Nobody}
  /\ readers \subseteq Thread
  /\ pc \in [Thread -> Labels]
  /\ calls \in [Thread -> 0 .. MaxCalls]
  /\ local = [t \in Thread |-> local[t]]

(* The variables of a thread.                                               *)
LocalOf(t) ==
  /\ local[t] = [elem |-> local[t].elem, idx |-> local[t].idx,
                 answer |-> local[t].answer]
  /\ InPush(t) \/ pc[t] = "lock" => local[t].elem \in Holder
  /\ local[t].idx \in Nat
  /\ pc[t] \in {"lock_shared", "fetch"} => local[t].idx < total_elems

Locals == \A t \in Thread : LocalOf(t)

(* The blocks are filled one after the other.                               *)
Filled ==
  /\ Len(data) > 0
  /\ \A b \in 1 .. Len(data) - 1 : Len(data[b]) = BLOCK_SIZE
  /\ Len(back) <= BLOCK_SIZE

(* What the thread inside push_back has found or made of the last block.    *)
Pushes(t) ==
  /\ pc[t] \in {"lock_realloc", "grow"} => Len(back) = BLOCK_SIZE
  /\ pc[t] = "rebase" => Len(back) = 0 /\ Len(data) > 1
  /\ pc[t] = "append" => Len(back) < BLOCK_SIZE
  /\ pc[t] \in {"count", "index"} => Len(back) > 0

(* block_base and total_elems lag behind the blocks by the one step that    *)
(* the thread inside push_back has still to make.                           *)
Based ==
  /\ \A t \in Thread :
       pc[t] = "rebase" => block_base = (Len(data) - 2) * BLOCK_SIZE
  /\ (\A t \in Thread : pc[t] # "rebase")
       => block_base = (Len(data) - 1) * BLOCK_SIZE

Counted ==
  /\ \A t \in Thread :
       pc[t] = "count"
         => total_elems = (Len(data) - 1) * BLOCK_SIZE + Len(back) - 1
  /\ (\A t \in Thread : pc[t] # "count")
       => total_elems = (Len(data) - 1) * BLOCK_SIZE + Len(back)

IInv ==
  /\ Types /\ Locals
  /\ Exclusion
  /\ Filled /\ (\A t \in Thread : Pushes(t))
  /\ Based /\ Counted

-----------------------------------------------------------------------------
(* Sequences of blocks *)

(* A block added at the end leaves the others as they are.                  *)
LEMMA AddedBlock ==
  ASSUME NEW S, NEW d \in Seq(Seq(S)), NEW x, x = Append(d, <<>>)
  PROVE  /\ x \in Seq(Seq(S))
         /\ Len(x) = Len(d) + 1
         /\ \A b \in 1 .. Len(d) : x[b] = d[b]
         /\ Len(x[Len(x)]) = 0
<1>1. <<>> \in Seq(S)
  OBVIOUS
<1>. QED
  BY <1>1

(* An element appended to the last block leaves the others as they are.     *)
LEMMA AppendedElement ==
  ASSUME NEW S, NEW d \in Seq(Seq(S)), Len(d) > 0, NEW e \in S,
         NEW x, x = [d EXCEPT ![Len(d)] = Append(@, e)]
  PROVE  /\ x \in Seq(Seq(S))
         /\ Len(x) = Len(d)
         /\ \A b \in 1 .. Len(d) - 1 : x[b] = d[b]
         /\ x[Len(x)] = Append(d[Len(d)], e)
         /\ Len(x[Len(x)]) = Len(d[Len(d)]) + 1
         /\ x[Len(x)][Len(x[Len(x)])] = e
         /\ \A k \in 1 .. Len(d[Len(d)]) : x[Len(x)][k] = d[Len(d)][k]
<1>1. Len(d) \in DOMAIN d /\ d[Len(d)] \in Seq(S)
  OBVIOUS
<1>2. Append(d[Len(d)], e) \in Seq(S)
  BY <1>1
<1>3. x \in Seq(Seq(S)) /\ Len(x) = Len(d)
  BY <1>1, <1>2
<1>4. x[Len(x)] = Append(d[Len(d)], e)
  BY <1>1, <1>3
<1>5. /\ Len(x[Len(x)]) = Len(d[Len(d)]) + 1
      /\ x[Len(x)][Len(x[Len(x)])] = e
      /\ \A k \in 1 .. Len(d[Len(d)]) : x[Len(x)][k] = d[Len(d)][k]
  BY <1>1, <1>4
<1>6. \A b \in 1 .. Len(d) - 1 : x[b] = d[b]
  BY <1>1
<1>. QED
  BY <1>3, <1>4, <1>5, <1>6

-----------------------------------------------------------------------------
(* Every step keeps the invariant *)

(* The threads start with an empty first block.                             *)
LEMMA InitInv == Init => IInv
<1>. SUFFICES ASSUME Init PROVE IInv
  OBVIOUS
<1>. USE BlockAssumption
<1>1. data \in Seq(Seq(Holder)) /\ Len(data) = 1 /\ data[1] = <<>>
  <2>1. <<>> \in Seq(Holder)
    OBVIOUS
  <2>. QED
    BY <2>1 DEF Init
<1>2. Types
  BY <1>1 DEF Init, Types, Labels
<1>3. Locals
  BY DEF Init, Locals, LocalOf, InPush
<1>4. Exclusion
  BY DEF Init, Exclusion, InPush
<1>5. Filled /\ (\A t \in Thread : Pushes(t))
  BY <1>1 DEF Init, Filled, Pushes, back
<1>6. Based /\ Counted
  BY <1>1 DEF Init, Based, Counted, back
<1>. QED
  BY <1>2, <1>3, <1>4, <1>5, <1>6 DEF IInv

(* There is a last block, never larger than was reserved.                   *)
LEMMA BackLemma ==
  ASSUME IInv
  PROVE  /\ Len(data) \in Nat /\ Len(data) > 0
         /\ back \in Seq(Holder)
         /\ Len(back) \in 0 .. BLOCK_SIZE
<1>1. Len(data) \in DOMAIN data
  BY DEF IInv, Types, Filled
<1>2. back \in Seq(Holder)
  BY <1>1 DEF IInv, Types, back
<1>. QED
  BY <1>1, <1>2 DEF IInv, Types, Filled

(* A thread calls push_back.                                                *)
LEMMA PushBackStep ==
  ASSUME IInv, NEW t \in Thread, push_back(t)
  PROVE  IInv'
<1>. USE BlockAssumption DEF push_back, Begin, Goto, shared, locks
<1>1. <<t, calls[t] + 1>> \in Holder
  BY DEF IInv, Types, Holder
<1>2. Types'
  <2>1. calls' \in [Thread -> 0 .. MaxCalls]
    BY DEF IInv, Types
  <2>2. local' = [u \in Thread |-> local'[u]]
    BY DEF IInv, Types
  <2>3. pc' \in [Thread -> Labels]
    BY DEF IInv, Types, Labels
  <2>. QED
    BY <2>1, <2>2, <2>3 DEF IInv, Types
<1>3. Locals'
  <2>1. /\ local'[t] = [local[t] EXCEPT !.elem = <<t, calls[t] + 1>>]
        /\ \A u \in Thread \ {t} : local'[u] = local[u]
    BY DEF IInv, Types
  <2>2. /\ pc'[t] = "lock"
        /\ \A u \in Thread \ {t} : pc'[u] = pc[u]
    BY DEF IInv, Types
  <2>3. LocalOf(t)'
    <3>. HIDE DEF push_back
    <3>. QED
      BY <1>1, <2>1, <2>2 DEF IInv, Locals, LocalOf
  <2>4. ASSUME NEW u \in Thread \ {t} PROVE LocalOf(u)'
    BY <2>1, <2>2 DEF IInv, Locals, LocalOf, InPush
  <2>. QED
    BY <2>3, <2>4 DEF Locals
<1>4. Exclusion'
  BY DEF IInv, Types, Exclusion, InPush
<1>5. Filled' /\ (\A u \in Thread : Pushes(u))' /\ Based' /\ Counted'
  BY DEF IInv, Types, Filled, Pushes, Based, Counted, back
<1>. QED
  BY <1>2, <1>3, <1>4, <1>5 DEF IInv

(* A thread calls at.                                                       *)
LEMMA AtStep ==
  ASSUME IInv, NEW t \in Thread, NEW i \in 0 .. total_elems - 1, at(t, i)
  PROVE  IInv'
<1>. USE BlockAssumption DEF at, Begin, Goto, shared, locks
<1>2. Types'
  <2>1. calls' \in [Thread -> 0 .. MaxCalls]
    BY DEF IInv, Types
  <2>2. local' = [u \in Thread |-> local'[u]]
    BY DEF IInv, Types
  <2>3. pc' \in [Thread -> Labels]
    BY DEF IInv, Types, Labels
  <2>. QED
    BY <2>1, <2>2, <2>3 DEF IInv, Types
<1>3. Locals'
  <2>1. /\ local'[t] = [local[t] EXCEPT !.idx = i]
        /\ \A u \in Thread \ {t} : local'[u] = local[u]
    BY DEF IInv, Types
  <2>2. /\ pc'[t] = "lock_shared"
        /\ \A u \in Thread \ {t} : pc'[u] = pc[u]
    BY DEF IInv, Types
  <2>3. i \in Nat /\ i < total_elems
    BY DEF IInv, Types
  <2>4. LocalOf(t)'
    BY <2>1, <2>2, <2>3 DEF IInv, Locals, LocalOf, InPush
  <2>5. ASSUME NEW u \in Thread \ {t} PROVE LocalOf(u)'
    BY <2>1, <2>2 DEF IInv, Locals, LocalOf, InPush
  <2>. QED
    BY <2>4, <2>5 DEF Locals
<1>4. Exclusion'
  BY DEF IInv, Types, Exclusion, InPush
<1>5. Filled' /\ (\A u \in Thread : Pushes(u))' /\ Based' /\ Counted'
  BY DEF IInv, Types, Filled, Pushes, Based, Counted, back
<1>. QED
  BY <1>2, <1>3, <1>4, <1>5 DEF IInv

(* The steps that only take a lock or read.                                 *)
LEMMA LockStep ==
  ASSUME IInv, NEW t \in Thread,
         lock(t) \/ check(t) \/ lock_realloc(t) \/ lock_shared(t)
  PROVE  IInv'
<1>. USE BlockAssumption
     DEF lock, check, lock_realloc, lock_shared, Goto, shared, locks
<1>2. Types'
  BY DEF IInv, Types, Labels
<1>3. Locals'
  BY DEF IInv, Types, Locals, LocalOf, InPush
<1>4. Exclusion'
  <2>1. CASE lock(t)
    BY <2>1 DEF IInv, Types, Exclusion, InPush
  <2>2. CASE check(t)
    BY <2>2 DEF IInv, Types, Exclusion, InPush
  <2>3. CASE lock_realloc(t)
    BY <2>3 DEF IInv, Types, Exclusion, InPush
  <2>4. CASE lock_shared(t)
    BY <2>4 DEF IInv, Types, Exclusion, InPush
  <2>. QED
    BY <2>1, <2>2, <2>3, <2>4
<1>5. Filled' /\ Based' /\ Counted'
  BY DEF IInv, Types, Filled, Pushes, Based, Counted, back
<1>6. (\A u \in Thread : Pushes(u))'
  <2>1. Len(back) \in 0 .. BLOCK_SIZE /\ data' = data
    BY BackLemma
  <2>2. pc'[t] \in {"lock_realloc", "append"}
          => IF pc'[t] = "append" THEN Len(back) < BLOCK_SIZE
             ELSE Len(back) = BLOCK_SIZE
    BY <2>1 DEF IInv, Types
  <2>3. pc'[t] = "grow" => Len(back) = BLOCK_SIZE
    BY DEF IInv, Types, Pushes
  <2>4. pc'[t] \notin {"rebase", "count", "index"}
    BY DEF IInv, Types
  <2>5. \A u \in Thread \ {t} : pc'[u] = pc[u]
    BY DEF IInv, Types
  <2>. QED
    BY <2>1, <2>2, <2>3, <2>4, <2>5 DEF IInv, Pushes, back
<1>. QED
  BY <1>2, <1>3, <1>4, <1>5, <1>6 DEF IInv

(* The steps that answer.                                                   *)
LEMMA AnswerStep ==
  ASSUME IInv, NEW t \in Thread, index(t) \/ fetch(t)
  PROVE  IInv'
<1>. USE BlockAssumption DEF index, fetch, Goto, shared, locks
<1>2. Types'
  BY DEF IInv, Types, Labels
<1>3. Locals'
  <2>1. PICK r : /\ local'[t] = [local[t] EXCEPT !.answer = r]
                 /\ \A u \in Thread \ {t} : local'[u] = local[u]
    BY DEF IInv, Types
  <2>2. /\ pc'[t] = "idle"
        /\ \A u \in Thread \ {t} : pc'[u] = pc[u]
    BY DEF IInv, Types
  <2>3. LocalOf(t)'
    BY <2>1, <2>2 DEF IInv, Locals, LocalOf, InPush
  <2>4. ASSUME NEW u \in Thread \ {t} PROVE LocalOf(u)'
    BY <2>1, <2>2 DEF IInv, Locals, LocalOf, InPush
  <2>. QED
    BY <2>3, <2>4 DEF Locals
<1>4. Exclusion'
  BY DEF IInv, Types, Exclusion, InPush
<1>5. Filled' /\ (\A u \in Thread : Pushes(u))' /\ Based' /\ Counted'
  BY DEF IInv, Types, Filled, Pushes, Based, Counted, back
<1>. QED
  BY <1>2, <1>3, <1>4, <1>5 DEF IInv

(* A thread inside push_back is the only one there.                         *)
LEMMA OnlyPusher ==
  ASSUME IInv, NEW t \in Thread, InPush(t)
  PROVE  \A u \in Thread \ {t} : ~ InPush(u)
BY BlockAssumption DEF IInv, Exclusion

(* A block is added once the last is full.                                  *)
LEMMA GrowStep ==
  ASSUME IInv, NEW t \in Thread, grow(t)
  PROVE  IInv'
<1>. USE BlockAssumption DEF grow, Goto, shared, locks
<1>1. /\ data' \in Seq(Seq(Holder))
      /\ Len(data') = Len(data) + 1
      /\ \A b \in 1 .. Len(data) : data'[b] = data[b]
      /\ Len(data'[Len(data')]) = 0
  BY AddedBlock DEF IInv, Types
<1>2. Len(data) \in Nat /\ Len(data) > 0 /\ Len(back) = BLOCK_SIZE
  BY DEF IInv, Types, Filled, Pushes
<1>3. \A u \in Thread \ {t} : ~ InPush(u)
  BY OnlyPusher DEF InPush
<1>4. Types'
  BY <1>1 DEF IInv, Types, Labels
<1>5. Locals'
  BY DEF IInv, Types, Locals, LocalOf, InPush
<1>6. Exclusion'
  BY DEF IInv, Types, Exclusion, InPush
<1>7. Filled'
  BY <1>1, <1>2 DEF IInv, Filled, back
<1>8. (\A u \in Thread : Pushes(u))'
  BY <1>1, <1>2, <1>3 DEF IInv, Types, Pushes, InPush, back
<1>9. Based'
  <2>1. block_base = (Len(data) - 1) * BLOCK_SIZE
    BY <1>3 DEF IInv, Based, InPush
  <2>. QED
    BY <1>1, <1>2, <1>3, <2>1 DEF IInv, Types, Based
<1>10. Counted'
  <2>1. total_elems = (Len(data) - 1) * BLOCK_SIZE + BLOCK_SIZE
    BY <1>2, <1>3 DEF IInv, Counted, InPush
  <2>2. total_elems = (Len(data') - 1) * BLOCK_SIZE
    BY <1>1, <1>2, <2>1
  <2>. QED
    BY <1>1, <1>2, <1>3, <2>2 DEF IInv, Types, Counted, InPush, back
<1>. QED
  BY <1>4, <1>5, <1>6, <1>7, <1>8, <1>9, <1>10 DEF IInv

(* block_base follows.                                                      *)
LEMMA RebaseStep ==
  ASSUME IInv, NEW t \in Thread, rebase(t)
  PROVE  IInv'
<1>. USE BlockAssumption DEF rebase, Goto, shared, locks
<1>2. Len(data) \in Nat /\ Len(data) > 1 /\ Len(back) = 0
  BY DEF IInv, Types, Filled, Pushes
<1>3. \A u \in Thread \ {t} : ~ InPush(u)
  BY OnlyPusher DEF InPush
<1>4. Types'
  BY DEF IInv, Types, Labels
<1>5. Locals'
  BY DEF IInv, Types, Locals, LocalOf, InPush
<1>6. Exclusion'
  BY DEF IInv, Types, Exclusion, InPush
<1>7. Filled'
  BY DEF IInv, Filled, back
<1>8. (\A u \in Thread : Pushes(u))'
  BY <1>2, <1>3 DEF IInv, Types, Pushes, InPush, back
<1>9. Based'
  <2>1. block_base = (Len(data) - 2) * BLOCK_SIZE
    BY DEF IInv, Based
  <2>2. block_base' = (Len(data) - 1) * BLOCK_SIZE
    BY <1>2, <2>1
  <2>. QED
    BY <1>2, <1>3, <2>2 DEF IInv, Types, Based, InPush
<1>10. Counted'
  BY DEF IInv, Types, Counted, back
<1>. QED
  BY <1>4, <1>5, <1>6, <1>7, <1>8, <1>9, <1>10 DEF IInv

(* An element is appended where there is room.                              *)
LEMMA AppendStep ==
  ASSUME IInv, NEW t \in Thread, append(t)
  PROVE  IInv'
<1>. USE BlockAssumption DEF append, Goto, shared, locks
<1>1. local[t].elem \in Holder
  BY DEF IInv, Locals, LocalOf, InPush
<1>2. Len(data) \in Nat /\ Len(data) > 0
  BY DEF IInv, Types, Filled
<1>3. /\ data' \in Seq(Seq(Holder))
      /\ Len(data') = Len(data)
      /\ \A b \in 1 .. Len(data) - 1 : data'[b] = data[b]
      /\ Len(data'[Len(data')]) = Len(data[Len(data)]) + 1
  BY <1>1, <1>2, AppendedElement DEF IInv, Types
<1>4. Len(back) \in Nat /\ Len(back) < BLOCK_SIZE
  BY <1>2 DEF IInv, Types, Pushes, back
<1>5. \A u \in Thread \ {t} : ~ InPush(u)
  BY OnlyPusher DEF InPush
<1>6. Types'
  BY <1>3 DEF IInv, Types, Labels
<1>7. Locals'
  BY DEF IInv, Types, Locals, LocalOf, InPush
<1>8. Exclusion'
  BY DEF IInv, Types, Exclusion, InPush
<1>9. Filled'
  <2>1. ASSUME NEW b \in 1 .. Len(data) - 1
        PROVE  Len(data'[b]) = BLOCK_SIZE
    BY <1>3, <2>1 DEF IInv, Filled
  <2>2. Len(back') <= BLOCK_SIZE
    <3>. HIDE DEF append
    <3>. QED
      BY <1>3, <1>4 DEF back
  <2>. QED
    BY <1>2, <1>3, <2>1, <2>2 DEF Filled
<1>10. (\A u \in Thread : Pushes(u))'
  BY <1>3, <1>4, <1>5 DEF IInv, Types, Pushes, InPush, back
<1>11. Based'
  BY <1>3 DEF IInv, Types, Based
<1>12. Counted'
  <2>1. total_elems = (Len(data) - 1) * BLOCK_SIZE + Len(back)
    BY <1>5 DEF IInv, Counted, InPush
  <2>2. total_elems' = (Len(data') - 1) * BLOCK_SIZE + Len(back') - 1
    <3>1. total_elems' = total_elems
      OBVIOUS
    <3>. HIDE DEF append
    <3>2. Len(back') - 1 = Len(back)
      BY <1>3, <1>4 DEF back
    <3>3. (Len(data) - 1) * BLOCK_SIZE \in Int
      BY <1>2
    <3>. QED
      BY <1>3, <1>4, <2>1, <3>1, <3>2, <3>3
  <2>. QED
    BY <1>5, <2>2 DEF IInv, Types, Counted, InPush
<1>. QED
  BY <1>6, <1>7, <1>8, <1>9, <1>10, <1>11, <1>12 DEF IInv

(* ... and counted.                                                         *)
LEMMA CountStep ==
  ASSUME IInv, NEW t \in Thread, count(t)
  PROVE  IInv'
<1>. USE BlockAssumption DEF count, Goto, shared, locks
<1>1. Len(data) \in Nat /\ Len(back) \in Nat /\ Len(back) > 0
  BY DEF IInv, Types, Filled, Pushes, back
<1>2. \A u \in Thread \ {t} : ~ InPush(u)
  BY OnlyPusher DEF InPush
<1>3. Types'
  BY DEF IInv, Types, Labels
<1>4. Locals'
  BY DEF IInv, Types, Locals, LocalOf, InPush
<1>5. Exclusion'
  BY DEF IInv, Types, Exclusion, InPush
<1>6. Filled' /\ Based'
  BY DEF IInv, Types, Filled, Based, back
<1>7. (\A u \in Thread : Pushes(u))'
  BY <1>1, <1>2 DEF IInv, Types, Pushes, InPush, back
<1>8. Counted'
  <2>1. total_elems' = (Len(data) - 1) * BLOCK_SIZE + Len(back)
    BY <1>1 DEF IInv, Counted
  <2>. QED
    BY <1>2, <2>1 DEF IInv, Types, Counted, InPush, back
<1>. QED
  BY <1>3, <1>4, <1>5, <1>6, <1>7, <1>8 DEF IInv

(* So does every step.                                                      *)
LEMMA StepInv == IInv /\ Next => IInv'
BY PushBackStep, AtStep, LockStep, AnswerStep, GrowStep, RebaseStep,
   AppendStep, CountStep DEF Next, Step

(* The invariant holds in every state.                                      *)
THEOREM StorageInvariant == Spec => []IInv
<1>1. IInv /\ UNCHANGED vars => IInv'
  BY DEF IInv, Types, Locals, LocalOf, Exclusion, InPush, Filled, Pushes,
         Based, Counted, back, vars, shared, locks
<1>. QED
  BY <1>1, StepInv, InitInv, PTL DEF Spec

-----------------------------------------------------------------------------
(* Locks and blocks *)

(* mutex is held by the one thread inside push_back, realloc_mutex by the   *)
(* readers or by the thread that adds a block (lhf.hpp 1340-1381).          *)
THEOREM LocksExclude == Spec => []Exclusion
<1>1. IInv => Exclusion
  BY DEF IInv
<1>. QED
  BY <1>1, StorageInvariant, PTL

(* No block outgrows what was reserved for it, so elements never move; all  *)
(* but the last are full, and block_base and total_elems describe them      *)
(* (lhf.hpp 1333-1362).                                                     *)
THEOREM BlocksLaidOut == Spec => []Layout
<1>1. IInv => Layout
  <2>. SUFFICES ASSUME IInv PROVE Layout
    OBVIOUS
  <2>1. Len(data) \in Nat /\ BLOCK_SIZE \in Nat
    BY BlockAssumption DEF IInv, Types
  <2>2. ASSUME NEW b \in DOMAIN data PROVE Len(data[b]) <= BLOCK_SIZE
    <3>1. b \in 1 .. Len(data) - 1 \/ b = Len(data)
      BY <2>1 DEF IInv, Types
    <3>. QED
      BY <2>1, <3>1, BackLemma DEF IInv, Filled, back
  <2>. QED
    BY <2>1, <2>2 DEF IInv, Filled, Based, Counted, Layout
<1>. QED
  BY <1>1, StorageInvariant, PTL

-----------------------------------------------------------------------------
(* Where an index leads *)

(* The shift of an index is its division by the block size.                 *)
ShiftFits == BLOCK_SIZE = 2 ^ BLOCK_SHIFT

(* An index is the start of its block and an offset, in one way only.       *)
LEMMA Division ==
  ASSUME NEW i \in Nat
  PROVE  /\ i \div BLOCK_SIZE \in Nat
         /\ i % BLOCK_SIZE \in 0 .. BLOCK_SIZE - 1
         /\ i = (i \div BLOCK_SIZE) * BLOCK_SIZE + (i % BLOCK_SIZE)
BY BlockAssumption

(* ... so a block and an offset determine the index.                        *)
LEMMA DivisionUnique ==
  ASSUME NEW b \in Nat, NEW o \in 0 .. BLOCK_SIZE - 1
  PROVE  /\ (b * BLOCK_SIZE + o) \div BLOCK_SIZE = b
         /\ (b * BLOCK_SIZE + o) % BLOCK_SIZE = o
BY BlockAssumption

(* Blocks do not overlap.                                                   *)
LEMMA Multiples ==
  ASSUME NEW b \in Int, NEW c \in Int, b < c
  PROVE  b * BLOCK_SIZE + BLOCK_SIZE <= c * BLOCK_SIZE
BY BlockAssumption

(* Every index below total_elems leads to an element.                       *)
LEMMA Located ==
  ASSUME IInv, NEW i \in 0 .. total_elems - 1
  PROVE  /\ (i \div BLOCK_SIZE) + 1 \in 1 .. Len(data)
         /\ (i % BLOCK_SIZE) + 1 \in 1 .. Len(data[(i \div BLOCK_SIZE) + 1])
         /\ (Len(data) - 1) * BLOCK_SIZE <= i
              => (i \div BLOCK_SIZE) + 1 = Len(data)
         /\ i < (Len(data) - 1) * BLOCK_SIZE
              => (i \div BLOCK_SIZE) + 1 < Len(data)
<1>. DEFINE b == i \div BLOCK_SIZE
            o == i % BLOCK_SIZE
            n == Len(data)
<1>1. i \in Nat /\ BLOCK_SIZE \in Nat \ {0} /\ total_elems \in Nat
  BY BlockAssumption DEF IInv, Types
<1>2. b \in Nat /\ o \in 0 .. BLOCK_SIZE - 1 /\ i = b * BLOCK_SIZE + o
  BY <1>1, Division
<1>3. n \in Nat /\ n > 0 /\ Len(back) \in 0 .. BLOCK_SIZE
  BY BackLemma
<1>4. total_elems <= (n - 1) * BLOCK_SIZE + Len(back)
  <2>1. \/ total_elems = (n - 1) * BLOCK_SIZE + Len(back)
        \/ total_elems = (n - 1) * BLOCK_SIZE + Len(back) - 1
    BY DEF IInv, Counted
  <2>2. (n - 1) * BLOCK_SIZE \in Int
    BY <1>1, <1>3
  <2>. QED
    BY <1>1, <1>3, <2>1, <2>2
<1>. HIDE DEF b, o, n
<1>5. (n - 1) * BLOCK_SIZE \in Int /\ b * BLOCK_SIZE \in Int
  BY <1>1, <1>2, <1>3
<1>6. ASSUME b > n - 1 PROVE FALSE
  <2>1. (n - 1) * BLOCK_SIZE + BLOCK_SIZE <= b * BLOCK_SIZE
    BY <1>2, <1>3, <1>6, Multiples
  <2>. QED
    BY <1>1, <1>2, <1>3, <1>4, <1>5, <2>1
<1>7. ASSUME b < n - 1 PROVE i < (n - 1) * BLOCK_SIZE
  <2>1. b * BLOCK_SIZE + BLOCK_SIZE <= (n - 1) * BLOCK_SIZE
    BY <1>2, <1>3, <1>7, Multiples
  <2>. QED
    BY <1>1, <1>2, <1>5, <2>1
<1>8. ASSUME b = n - 1
      PROVE  (n - 1) * BLOCK_SIZE <= i /\ o < Len(back)
  BY <1>1, <1>2, <1>3, <1>4, <1>5, <1>8
<1>9. b + 1 \in 1 .. n
  BY <1>2, <1>3, <1>6
<1>10. o + 1 \in 1 .. Len(data[b + 1])
  <2>1. CASE b = n - 1
    <3>1. Len(data[b + 1]) = Len(back)
      BY <1>3, <2>1 DEF back, n
    <3>. QED
      BY <1>1, <1>2, <1>3, <1>8, <2>1, <3>1
  <2>2. CASE b # n - 1
    <3>1. b + 1 \in 1 .. n - 1
      BY <1>2, <1>3, <1>9, <2>2
    <3>2. Len(data[b + 1]) = BLOCK_SIZE
      BY <3>1 DEF IInv, Filled, n
    <3>. QED
      BY <1>1, <1>2, <3>2
  <2>. QED
    BY <2>1, <2>2
<1>11. (n - 1) * BLOCK_SIZE <= i => b + 1 = n
  BY <1>1, <1>2, <1>3, <1>5, <1>6, <1>7
<1>12. i < (n - 1) * BLOCK_SIZE => b + 1 < n
  BY <1>1, <1>2, <1>3, <1>5, <1>6, <1>8
<1>. QED
  BY <1>9, <1>10, <1>11, <1>12 DEF b, o, n

(* The elements below total_elems never change or move.                     *)
LEMMA ElementsKept ==
  ASSUME IInv, Next, NEW i \in 0 .. total_elems - 1
  PROVE  element(i)' = element(i) /\ total_elems' >= total_elems
<1>. DEFINE b == (i \div BLOCK_SIZE) + 1
            o == (i % BLOCK_SIZE) + 1
<1>1. b \in 1 .. Len(data) /\ o \in 1 .. Len(data[b])
  BY Located
<1>2. Len(data) \in Nat /\ Len(data) > 0 /\ back \in Seq(Holder)
  BY BackLemma
<1>3. PICK t \in Thread :
        \/ push_back(t)
        \/ \E j \in 0 .. total_elems - 1 : at(t, j)
        \/ Step(t)
  BY DEF Next
<1>4. total_elems' >= total_elems
  BY <1>3 DEF Step, push_back, at, Begin, lock, check, lock_realloc, grow,
              rebase, append, count, index, lock_shared, fetch, shared,
              IInv, Types
<1>. HIDE DEF b, o
<1>5. data'[b][o] = data[b][o]
  <2>1. CASE data' = data
    BY <2>1
  <2>2. CASE grow(t)
    <3>1. \A c \in 1 .. Len(data) : data'[c] = data[c]
      BY <2>2, AddedBlock DEF grow, IInv, Types
    <3>. QED
      BY <1>1, <3>1
  <2>3. CASE append(t)
    <3>1. local[t].elem \in Holder
      BY <2>3 DEF append, IInv, Locals, LocalOf, InPush
    <3>2. /\ Len(data') = Len(data)
          /\ \A c \in 1 .. Len(data) - 1 : data'[c] = data[c]
          /\ \A k \in 1 .. Len(data[Len(data)]) :
               data'[Len(data')][k] = data[Len(data)][k]
      BY <1>2, <2>3, <3>1, AppendedElement DEF append, IInv, Types
    <3>3. CASE b = Len(data)
      BY <1>1, <3>2, <3>3
    <3>4. CASE b # Len(data)
      BY <1>1, <1>2, <3>2, <3>4
    <3>. QED
      BY <3>3, <3>4
  <2>. QED
    BY <1>3, <2>1, <2>2, <2>3
       DEF Step, push_back, at, Begin, lock, check, lock_realloc,
           rebase, count, index, lock_shared, fetch, shared
<1>. QED
  BY <1>4, <1>5 DEF element, b, o

(* The element being counted is the one the next index leads to.            *)
LEMMA CountedElement ==
  ASSUME IInv, NEW t \in Thread, pc[t] = "count"
  PROVE  element(total_elems) = back[Len(back)] /\ back[Len(back)] \in Holder
<1>1. /\ Len(data) - 1 \in Nat
      /\ Len(back) - 1 \in 0 .. BLOCK_SIZE - 1
      /\ back \in Seq(Holder)
  BY BackLemma, BlockAssumption DEF IInv, Pushes
<1>2. total_elems = (Len(data) - 1) * BLOCK_SIZE + (Len(back) - 1)
  <2>1. (Len(data) - 1) * BLOCK_SIZE \in Int
    BY <1>1, BlockAssumption
  <2>. QED
    BY <1>1, <2>1 DEF IInv, Counted
<1>3. /\ total_elems \div BLOCK_SIZE = Len(data) - 1
      /\ total_elems % BLOCK_SIZE = Len(back) - 1
  BY <1>1, <1>2, DivisionUnique
<1>4. (Len(data) - 1) + 1 = Len(data) /\ (Len(back) - 1) + 1 = Len(back)
  BY <1>1
<1>5. element(total_elems) = back[Len(back)]
  BY <1>3, <1>4 DEF element, back
<1>. QED
  BY <1>1, <1>5

(* at gives the element of its index: while it reads, no thread is between  *)
(* the two steps that add a block.                                          *)
LEMMA FetchedElement ==
  ASSUME ShiftFits, IInv, NEW t \in Thread, pc[t] = "fetch"
  PROVE  /\ local[t].idx \in 0 .. total_elems - 1
         /\ fetched(local[t].idx)
              = Fetched(local[t].idx, element(local[t].idx))
<1>. DEFINE i == local[t].idx
            b == i \div BLOCK_SIZE
            o == i % BLOCK_SIZE
<1>1. i \in 0 .. total_elems - 1
  BY DEF IInv, Types, Locals, LocalOf
<1>2. block_base = (Len(data) - 1) * BLOCK_SIZE
  <2>1. writer = Nobody
    BY DEF IInv, Types, Exclusion
  <2>. QED
    BY <2>1, BlockAssumption DEF IInv, Exclusion, Based
<1>3. i \in Nat /\ Len(data) \in Nat /\ BLOCK_SIZE \in Nat \ {0}
  BY <1>1, BackLemma, BlockAssumption
<1>4. /\ b + 1 \in 1 .. Len(data)
      /\ o + 1 \in 1 .. Len(data[b + 1])
      /\ block_base <= i => b + 1 = Len(data)
      /\ i < block_base => b + 1 < Len(data)
  BY <1>1, <1>2, Located
<1>5. b \in Nat /\ o \in 0 .. BLOCK_SIZE - 1 /\ i = b * BLOCK_SIZE + o
  BY <1>3, Division
<1>6. (i - o) \div 2 ^ BLOCK_SHIFT = b
  <2>. HIDE DEF b, o
  <2>1. i - o = b * BLOCK_SIZE + 0 /\ 0 \in 0 .. BLOCK_SIZE - 1
    <3>1. b * BLOCK_SIZE \in Int
      BY <1>3, <1>5
    <3>. QED
      BY <1>3, <1>5, <3>1
  <2>2. (i - o) \div BLOCK_SIZE = b
    BY <1>5, <2>1, DivisionUnique
  <2>. QED
    BY <2>2 DEF ShiftFits
<1>7. Len(data[b + 1]) \in Nat /\ data \in Seq(Seq(Holder))
  BY <1>4 DEF IInv, Types
<1>8. block_base \in Nat
  BY DEF IInv, Types
<1>. HIDE DEF b, o
<1>9. (IF i >= block_base THEN Len(data)
       ELSE ((i - o) \div 2 ^ BLOCK_SHIFT) + 1) = b + 1
  BY <1>3, <1>4, <1>6, <1>8
<1>10. b + 1 \in DOMAIN data /\ o < Len(data[b + 1])
  BY <1>3, <1>4, <1>5, <1>7
<1>11. fetched(i) = Fetched(i, data[b + 1][o + 1])
  BY <1>9, <1>10 DEF fetched, o
<1>. QED
  BY <1>1, <1>11 DEF element, b, o

-----------------------------------------------------------------------------
(* Answers *)

AnswerOf(t) ==
  \/ local[t].answer = NoAnswer
  \/ \E i \in 0 .. total_elems - 1 :
       \/ local[t].answer = Pushed(i)
       \/ local[t].answer = Fetched(i, element(i))

Answers == \A t \in Thread : AnswerOf(t)

(* A thread's answer is true when it is given and stays so.                 *)
LEMMA AnswersKept ==
  ASSUME ShiftFits, IInv, Answers, [Next]_vars
  PROVE  Answers'
<1>1. CASE UNCHANGED vars
  BY <1>1 DEF Answers, AnswerOf, element, vars, shared
<1>2. CASE Next
  <2>. SUFFICES ASSUME NEW u \in Thread PROVE AnswerOf(u)'
    BY DEF Answers
  <2>1. ASSUME local'[u].answer = local[u].answer PROVE AnswerOf(u)'
    <3>1. CASE local[u].answer = NoAnswer
      BY <2>1, <3>1 DEF AnswerOf
    <3>2. CASE local[u].answer # NoAnswer
      <4>1. PICK i \in 0 .. total_elems - 1 :
              \/ local[u].answer = Pushed(i)
              \/ local[u].answer = Fetched(i, element(i))
        BY <3>2 DEF Answers, AnswerOf
      <4>2. element(i)' = element(i) /\ total_elems' >= total_elems
        BY <1>2, ElementsKept
      <4>3. total_elems \in Nat /\ total_elems' \in Nat
        BY <1>2, StepInv DEF IInv, Types
      <4>4. i \in 0 .. total_elems' - 1
        <5>1. \A m, n \in Nat : n >= m /\ i \in 0 .. m - 1 => i \in 0 .. n - 1
          OBVIOUS
        <5>. QED
          BY <4>2, <4>3, <5>1
      <4>. QED
        BY <2>1, <4>1, <4>2, <4>4 DEF AnswerOf
    <3>. QED
      BY <3>1, <3>2
  <2>2. CASE index(u)
    <3>1. local'[u].answer = Pushed(total_elems - 1) /\ total_elems' = total_elems
      BY <2>2 DEF index, shared, IInv, Types, Locals, LocalOf
    <3>2. total_elems - 1 \in 0 .. total_elems - 1
      <4>1. total_elems = (Len(data) - 1) * BLOCK_SIZE + Len(back)
        BY <2>2, OnlyPusher DEF index, InPush, IInv, Counted
      <4>2. Len(back) > 0 /\ Len(back) \in Nat /\ Len(data) - 1 \in Nat
        BY <2>2, BackLemma, BlockAssumption DEF index, IInv, Pushes
      <4>3. (Len(data) - 1) * BLOCK_SIZE \in Nat
        BY <4>2, BlockAssumption
      <4>. QED
        BY <4>1, <4>2, <4>3
    <3>. QED
      BY <3>1, <3>2 DEF AnswerOf
  <2>3. CASE fetch(u)
    <3>1. /\ local'[u].answer = fetched(local[u].idx)
          /\ total_elems' = total_elems /\ data' = data
      BY <2>3 DEF fetch, shared, IInv, Types, Locals, LocalOf
    <3>2. /\ local[u].idx \in 0 .. total_elems - 1
          /\ fetched(local[u].idx)
               = Fetched(local[u].idx, element(local[u].idx))
      BY <2>3, FetchedElement DEF fetch
    <3>. QED
      BY <3>1, <3>2 DEF AnswerOf, element
  <2>4. CASE ~ index(u) /\ ~ fetch(u)
    <3>1. local'[u].answer = local[u].answer
      <4>1. PICK t \in Thread :
              \/ push_back(t)
              \/ \E j \in 0 .. total_elems - 1 : at(t, j)
              \/ Step(t)
        BY <1>2 DEF Next
      <4>2. local = [v \in Thread |-> local[v]] /\ LocalOf(u)
        BY DEF IInv, Types, Locals
      <4>3. CASE push_back(t)
        BY <4>2, <4>3 DEF push_back, LocalOf
      <4>4. ASSUME NEW j \in 0 .. total_elems - 1, at(t, j)
            PROVE  local'[u].answer = local[u].answer
        BY <4>2, <4>4 DEF at, LocalOf
      <4>5. CASE index(t) \/ fetch(t)
        BY <2>4, <4>2, <4>5 DEF index, fetch
      <4>. QED
        BY <4>1, <4>3, <4>4, <4>5
           DEF Step, lock, check, lock_realloc, grow, rebase, append, count,
               lock_shared
    <3>. QED
      BY <2>1, <3>1
  <2>. QED
    BY <2>2, <2>3, <2>4
<1>. QED
  BY <1>1, <1>2

(* Where the shift fits, every answer is the place of a counted element or   *)
(* a place with its element.                                                 *)
THEOREM AnswersTrue == ASSUME ShiftFits PROVE Spec => [](IInv /\ Answers)
<1>1. Init => Answers
  <2>1. ASSUME Init, NEW t \in Thread PROVE local[t].answer = NoAnswer
    BY <2>1 DEF Init
  <2>. QED
    BY <2>1 DEF Answers, AnswerOf
<1>2. IInv /\ Answers /\ [Next]_vars => Answers'
  BY AnswersKept
<1>. QED
  BY <1>1, <1>2, StorageInvariant, PTL DEF Spec

(* The types, and no at falls outside of the blocks (lhf.hpp 1364-1381).    *)
THEOREM StorageTypes == ASSUME ShiftFits PROVE Spec => []TypeOK
<1>1. IInv /\ Answers => TypeOK
  <2>. SUFFICES ASSUME IInv, Answers, NEW t \in Thread
                PROVE  local[t].answer # <<"out_of_range">>
    BY DEF IInv, Types, Filled, TypeOK
  <2>1. CASE local[t].answer = NoAnswer
    BY <2>1 DEF NoAnswer
  <2>2. ASSUME NEW i, local[t].answer = Pushed(i)
        PROVE  local[t].answer # <<"out_of_range">>
    BY <2>2 DEF Pushed
  <2>3. ASSUME NEW i, local[t].answer = Fetched(i, element(i))
        PROVE  local[t].answer # <<"out_of_range">>
    BY <2>3 DEF Fetched
  <2>. QED
    BY <2>1, <2>2, <2>3 DEF Answers, AnswerOf
<1>. QED
  BY <1>1, AnswersTrue, PTL

(* at gives the element of the index it is called with: what the default    *)
(* block size has and a block size without its own shift has not (lhf.hpp   *)
(* 1325-1327, 1366-1379).                                                   *)
THEOREM FetchesTrue == ASSUME ShiftFits PROVE Spec => []AtReturnsElement
<1>1. IInv /\ Answers => AtReturnsElement
  <2>. SUFFICES ASSUME IInv, Answers, NEW t \in Thread,
                       local[t].answer # NoAnswer,
                       local[t].answer[1] # "push_back"
                PROVE  /\ local[t].answer[1] = "at"
                       /\ local[t].answer[3] = element(local[t].answer[2])
    BY DEF AtReturnsElement
  <2>1. PICK i \in 0 .. total_elems - 1 :
          \/ local[t].answer = Pushed(i)
          \/ local[t].answer = Fetched(i, element(i))
    BY DEF Answers, AnswerOf
  <2>2. local[t].answer # Pushed(i)
    BY DEF Pushed
  <2>. QED
    BY <2>1, <2>2 DEF Fetched
<1>. QED
  BY <1>1, AnswersTrue, PTL

-----------------------------------------------------------------------------
(* The storage implements IndexedStore *)

Store == [k \in 1 .. total_elems |-> element(k - 1)]

Given ==
  [t \in Thread |-> IF pc[t] = "index" THEN Pushed(total_elems - 1)
                    ELSE local[t].answer]

(* Until a thread counts its element, the store is as it was.               *)
LEMMA StoreKept ==
  ASSUME IInv, Next, total_elems' = total_elems
  PROVE  Store' = Store
<1>1. total_elems \in Nat
  BY DEF IInv, Types
<1>2. ASSUME NEW k \in 1 .. total_elems
      PROVE  element(k - 1)' = element(k - 1)
  <2>1. k - 1 \in 0 .. total_elems - 1
    BY <1>1
  <2>2. DEFINE j == k - 1
  <2>3. j \in 0 .. total_elems - 1
    BY <2>1
  <2>. HIDE DEF j
  <2>4. element(j)' = element(j)
    BY <2>3, ElementsKept
  <2>. QED
    BY <2>4 DEF j, element
<1>. QED
  BY <1>2 DEF Store

(* A sequence that extends s by e is s with e appended.                     *)
LEMMA AppendLemma ==
  ASSUME NEW S, NEW s \in Seq(S), NEW e, NEW x,
         x = [k \in 1 .. Len(s) + 1 |-> x[k]],
         x[Len(s) + 1] = e,
         \A k \in 1 .. Len(s) : x[k] = s[k]
  PROVE  x = Append(s, e)
<1>. DEFINE T == S \cup {e}
            y == Append(s, e)
<1>1. s \in Seq(T) /\ e \in T
  OBVIOUS
<1>2. y \in Seq(T) /\ Len(y) = Len(s) + 1
  BY <1>1
<1>3. \A k \in 1 .. Len(s) + 1 : y[k] = x[k]
  BY <1>1
<1>. HIDE DEF y
<1>4. y = [k \in 1 .. Len(s) + 1 |-> y[k]]
  BY <1>2
<1>5. x = y
  BY <1>3, <1>4
<1>. QED
  BY <1>5 DEF y

(* A step of the threads is a step of the store or none.                    *)
LEMMA StepSimulates ==
  ASSUME ShiftFits, IInv, Next
  PROVE  Storage!Next \/ UNCHANGED <<Store, Given>>
<1>1. PICK t \in Thread :
        \/ push_back(t)
        \/ \E i \in 0 .. total_elems - 1 : at(t, i)
        \/ Step(t)
  BY DEF Next
<1>2. /\ pc \in [Thread -> Labels]
      /\ local = [u \in Thread |-> local[u]]
      /\ \A u \in Thread : LocalOf(u)
      /\ total_elems \in Nat
  BY DEF IInv, Types, Locals
<1>3. ASSUME total_elems' = total_elems,
             \A u \in Thread : /\ pc'[u] = "index" <=> pc[u] = "index"
                               /\ local'[u].answer = local[u].answer
      PROVE  UNCHANGED <<Store, Given>>
  BY <1>3, StoreKept DEF Given
<1>4. CASE push_back(t)
  <2>1. \A u \in Thread : local'[u].answer = local[u].answer
    BY <1>2, <1>4 DEF push_back, LocalOf
  <2>2. \A u \in Thread : pc'[u] = "index" <=> pc[u] = "index"
    BY <1>2, <1>4 DEF push_back, Begin, Goto
  <2>. QED
    BY <1>3, <1>4, <2>1, <2>2 DEF push_back, Begin, shared
<1>5. ASSUME NEW i \in 0 .. total_elems - 1, at(t, i)
      PROVE  UNCHANGED <<Store, Given>>
  <2>1. \A u \in Thread : local'[u].answer = local[u].answer
    BY <1>2, <1>5 DEF at, LocalOf
  <2>2. \A u \in Thread : pc'[u] = "index" <=> pc[u] = "index"
    BY <1>2, <1>5 DEF at, Begin, Goto
  <2>. QED
    BY <1>3, <1>5, <2>1, <2>2 DEF at, Begin, shared
<1>6. CASE \/ lock(t) \/ check(t) \/ lock_realloc(t) \/ grow(t) \/ rebase(t)
           \/ append(t) \/ lock_shared(t)
  <2>1. total_elems' = total_elems /\ local' = local
    BY <1>6 DEF lock, check, lock_realloc, grow, rebase, append, lock_shared,
                shared
  <2>2. \A u \in Thread : pc'[u] = "index" <=> pc[u] = "index"
    BY <1>2, <1>6 DEF lock, check, lock_realloc, grow, rebase, append,
                      lock_shared, Goto
  <2>. QED
    BY <1>3, <2>1, <2>2
<1>7. CASE count(t)
  <2>. DEFINE e == element(total_elems)
  <2>1. e \in Holder
    BY <1>7, CountedElement DEF count
  <2>2. total_elems' = total_elems + 1 /\ local' = local
    BY <1>7 DEF count
  <2>3. /\ pc'[t] = "index"
        /\ \A u \in Thread \ {t} : pc'[u] = pc[u] /\ pc[u] # "index"
    BY <1>2, <1>7, OnlyPusher DEF count, Goto, InPush
  <2>4. Store' = Append(Store, e)
    <3>1. ASSUME NEW k \in 1 .. total_elems
          PROVE  element(k - 1)' = element(k - 1)
      BY <1>7 DEF count, element
    <3>2. element((total_elems + 1) - 1) = e
      BY <1>2
    <3>3. Store' = [k \in 1 .. total_elems + 1 |-> element(k - 1)]
      BY <1>7, <2>2 DEF Store, count, element
    <3>. HIDE DEF e
    <3>4. /\ Store \in Seq({element(k - 1) : k \in 1 .. total_elems})
          /\ Len(Store) = total_elems
      BY <1>2 DEF Store
    <3>5. /\ Store' = [k \in 1 .. Len(Store) + 1 |-> Store'[k]]
          /\ Store'[Len(Store) + 1] = e
      BY <1>2, <3>2, <3>3, <3>4
    <3>6. ASSUME NEW k \in 1 .. total_elems PROVE Store'[k] = Store[k]
      <4>1. k \in 1 .. total_elems + 1
        BY <1>2
      <4>2. Store'[k] = element(k - 1)
        BY <3>3, <4>1
      <4>. QED
        BY <4>2 DEF Store
    <3>. QED
      BY <3>4, <3>5, <3>6, AppendLemma
  <2>5. Len(Store) = total_elems
    BY <1>2 DEF Store
  <2>6. Given' = [Given EXCEPT ![t] = Pushed(Len(Store))]
    <3>1. Pushed(total_elems' - 1) = Pushed(Len(Store))
      BY <1>2, <2>2, <2>5
    <3>. QED
      BY <2>2, <2>3, <3>1 DEF Given
  <2>. HIDE DEF e
  <2>. QED
    BY <2>1, <2>4, <2>6
       DEF Storage!Next, Storage!push_back, Storage!Pushed, Store, Given, Pushed
<1>8. CASE index(t)
  <2>1. total_elems' = total_elems
    BY <1>8 DEF index, shared
  <2>2. /\ pc'[t] = "idle" /\ pc[t] = "index"
        /\ local'[t].answer = Pushed(total_elems - 1)
        /\ \A u \in Thread \ {t} : pc'[u] = pc[u] /\ local'[u] = local[u]
    BY <1>2, <1>8 DEF index, Goto, LocalOf
  <2>. QED
    BY <2>1, <2>2, StoreKept DEF Given
<1>9. CASE fetch(t)
  <2>. DEFINE i == local[t].idx
  <2>1. /\ i \in 0 .. total_elems - 1
        /\ fetched(i) = Fetched(i, element(i))
    BY <1>9, FetchedElement DEF fetch
  <2>2. /\ pc'[t] = "idle"
        /\ local'[t].answer = fetched(i)
        /\ \A u \in Thread \ {t} : pc'[u] = pc[u] /\ local'[u] = local[u]
    BY <1>2, <1>9 DEF fetch, Goto, LocalOf
  <2>3. total_elems' = total_elems
    BY <1>9 DEF fetch, shared
  <2>. HIDE DEF i
  <2>4. Store' = Store
    BY <2>3, StoreKept
  <2>5. Len(Store) = total_elems /\ Store[i + 1] = element(i)
    <3>1. i + 1 \in 1 .. total_elems /\ (i + 1) - 1 = i
      BY <1>2, <2>1
    <3>. QED
      BY <1>2, <3>1 DEF Store
  <2>6. Given' = [Given EXCEPT ![t] = Fetched(i, Store[i + 1])]
    BY <2>1, <2>2, <2>3, <2>5 DEF Given
  <2>7. i < Len(Store) /\ i \in 0 .. Len(Store) - 1
    BY <1>2, <2>1, <2>5
  <2>. QED
    BY <2>4, <2>6, <2>7
       DEF Storage!Next, Storage!at, Storage!Fetched, Store, Given, Fetched
<1>. QED
  BY <1>1, <1>4, <1>5, <1>6, <1>7, <1>8, <1>9 DEF Step

(* The storage is linearizable where the shift fits: it behaves as one      *)
(* sequence to which push_back appends when it counts its element and of    *)
(* which at takes an element when it fetches.                               *)
THEOREM StorageLinearizable == ASSUME ShiftFits PROVE Spec => Linearizable
<1>1. Init => Storage!Init
  <2>. SUFFICES ASSUME Init PROVE Storage!Init
    OBVIOUS
  <2>1. Store = <<>>
    BY DEF Init, Store
  <2>2. Given = [t \in Thread |-> NoAnswer]
    BY DEF Init, Given
  <2>. QED
    BY <2>1, <2>2 DEF Storage!Init, Store, Given, NoAnswer, Storage!NoAnswer
<1>2. IInv /\ [Next]_vars => [Storage!Next]_<<Store, Given>>
  <2>1. UNCHANGED vars => UNCHANGED <<Store, Given>>
    BY DEF vars, shared, Store, Given, element
  <2>. QED
    BY <2>1, StepSimulates
<1>. QED
  BY <1>1, <1>2, StorageInvariant, PTL
     DEF Spec, Linearizable, Storage!Spec, Store, Given
=============================================================================
